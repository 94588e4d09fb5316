---------------------------- MODULE ConnectionTest ----------------------------
(***************************************************************************)
(* The test of a connection before a node is saved                         *)
(* (packages/core/src/probeConnection.ts, packages/server/src/index.ts:     *)
(* 354-366): one SSH session, one script, one timer, one answer.  ssh2 and  *)
(* the node are external.                                                  *)
(***************************************************************************)
EXTENDS Integers, Sequences, SequencesExt, FiniteSets

CONSTANTS
  Inputs,       \* what the form sends: [host, username, key, password], each given or not; key is
                \* "none", "readable" or "unreadable"
  Hosts,        \* nodes there may be: [pretty, product, name, gpus, ports, docker]
  ReadyTimeout, \* how long ssh2 tries, in steps of the clock; the timer allows Grace more
  Grace,
  Null

VARIABLES
  input, host,
  stage,   \* "idle", "connecting", "gone", "running", "over": what ssh2 is at
  timer,   \* "unset", "pending", "cleared", "fired"
  age,     \* since the timer was set
  printed, \* what has arrived of the script's output: a sequence of lines
  result   \* the answer, Null until there is one

vars == <<input, host, stage, timer, age, printed, result>>

-----------------------------------------------------------------------------
Header(name) == <<"header", name>>
Section(name, lines) == <<Header(name)>> \o [i \in DOMAIN lines |-> <<"line", lines[i]>>]
Spark == {"spark", "gx10", "gb10"} \* names with one of these in them

\* CHECK: without PRETTY_NAME its line is missing, as the pipeline ends with 0.
HostLines(h) ==
  IF h.pretty = Null THEN <<h.name, "aarch64", h.product>> ELSE <<h.name, "aarch64", h.pretty, h.product>>
GpuLines(h) == IF h.gpus = <<>> THEN <<"">> ELSE h.gpus
Output(h) ==
  (Section("host", HostLines(h)) \o Section("gpu", GpuLines(h)))
  \o (Section("fabric", h.ports) \o Section("docker", <<h.docker>>))

\* splitSections(): the lines under a header, none when it did not arrive.
Under(out, name) ==
  LET at == SelectInSeq(out, LAMBDA l : l = Header(name))
      next == SelectInSubSeq(out, at + 1, Len(out), LAMBDA l : l[1] = "header")
      lines == IF at = 0 THEN <<>> ELSE SubSeq(out, at + 1, IF next = 0 THEN Len(out) ELSE next - 1)
  IN [i \in DOMAIN lines |-> lines[i][2]]

LineOr(lines, i) == IF i \in DOMAIN lines THEN lines[i] ELSE ""

\* What is made of the output when the stream closes, be it whole or not.
Found(out) ==
  LET hostLines == Under(out, "host")
      gpu == LineOr(Under(out, "gpu"), 1)
      ports == Under(out, "fabric")
      docker == LineOr(Under(out, "docker"), 1)
  IN [ok |-> TRUE, hostname |-> LineOr(hostLines, 1), arch |-> LineOr(hostLines, 2), os |-> LineOr(hostLines, 3),
      gpu |-> gpu, isSpark |-> {LineOr(hostLines, 4), gpu, LineOr(hostLines, 1)} \cap Spark # {},
      fabricPorts |-> Len(ports), dockerAvailable |-> docker = "OK",
      notes |-> (IF docker \in {"DENIED", "MISSING"} THEN {docker} ELSE {})
                \cup (IF gpu = "" THEN {"noGpu"} ELSE {}) \cup (IF ports = <<>> THEN {"noPorts"} ELSE {})]

Failed(error) == [ok |-> FALSE, error |-> error]
Errors == {"authentication", "refused", "unreachable", "notFound", "other"}
Reasons == Errors \cup {"noHost", "noUsername", "noSecret", "unreadable", "thrown", "timeout", "exec"}

TestAssumption ==
  /\ \A h \in Hosts :
       /\ h.gpus \in Seq({h.gpus[i] : i \in DOMAIN h.gpus}) /\ h.ports \in Seq({h.ports[i] : i \in DOMAIN h.ports})
       /\ h.docker \in {"OK", "DENIED", "MISSING"}
       /\ \A n \in 0..Len(Output(h)) : Found(SubSeq(Output(h), 1, n)) # Null
  /\ \A e \in Reasons : Failed(e) # Null

\* finish(): the first answer counts, and ends the session.
Finish(r) == result' = IF result = Null THEN r ELSE result

-----------------------------------------------------------------------------
Init ==
  /\ input \in Inputs /\ host \in Hosts
  /\ stage = "idle" /\ timer = "unset" /\ age = 0 /\ printed = <<>> /\ result = Null

\* POST /api/nodes/test with what cannot be tried, a key that cannot be read included.
Refuse ==
  /\ stage = "idle" /\ result = Null
  /\ \/ ~input.host /\ result' = Failed("noHost")
     \/ input.host /\ ~input.username /\ result' = Failed("noUsername")
     \/ input.host /\ input.username /\ input.key = "none" /\ ~input.password
        /\ result' = Failed("noSecret")
     \/ input.host /\ input.username /\ input.key = "unreadable" /\ result' = Failed("unreadable")
  /\ UNCHANGED <<input, host, stage, timer, age, printed>>

\* The timer is set, then the client connects, which throws for a key it cannot parse.
Connect ==
  /\ stage = "idle" /\ result = Null
  /\ input.host /\ input.username /\ (input.key = "readable" \/ (input.key = "none" /\ input.password))
  /\ \/ stage' = "connecting" /\ timer' = "pending" /\ UNCHANGED result
     \/ input.key = "readable" /\ stage' = "over" /\ timer' = "cleared" /\ Finish(Failed("thrown"))
  /\ UNCHANGED <<input, host, age, printed>>

\* Time passes; ssh2 gives up on a handshake, the timer is overdue after its grace.
Tick ==
  /\ stage \in {"connecting", "gone", "running"} /\ age < ReadyTimeout + Grace
  /\ stage = "connecting" => age < ReadyTimeout
  /\ age' = age + 1
  /\ UNCHANGED <<input, host, stage, timer, printed, result>>

Fire ==
  /\ timer = "pending" /\ age = ReadyTimeout + Grace
  /\ timer' = "fired" /\ Finish(Failed("timeout"))
  /\ UNCHANGED <<input, host, stage, age, printed>>

\* on("ready"): the script is started, or cannot be.  A session that was ended is not ready.
Ready ==
  /\ stage = "connecting" /\ result = Null
  /\ \/ stage' = "running" /\ UNCHANGED <<timer, result>>
     \/ stage' = "over" /\ timer' = "cleared" /\ Finish(Failed("exec"))
  /\ UNCHANGED <<input, host, age, printed>>

\* The script prints; it may hang, or its end be cut off, at any line.
Arrive ==
  /\ stage = "running" /\ result = Null /\ Len(printed) < Len(Output(host))
  /\ printed' = Append(printed, Output(host)[Len(printed) + 1])
  /\ UNCHANGED <<input, host, stage, timer, age, result>>

\* The stream closes: at its end, with the connection, or because the test is over.
StreamCloses ==
  /\ stage = "running"
  /\ stage' = "over"
  /\ timer' = IF timer = "pending" THEN "cleared" ELSE timer
  /\ Finish(Found(printed))
  /\ UNCHANGED <<input, host, age, printed>>

\* Mutant: an error clears the timer and is answered only if there is a stream.
ConnError_Unanswered(e) ==
  /\ stage \in {"connecting", "running"}
  /\ stage' = IF stage = "connecting" THEN "over" ELSE stage
  /\ timer' = IF timer = "pending" THEN "cleared" ELSE timer
  /\ IF stage = "running" THEN Finish(Failed(e)) ELSE UNCHANGED result
  /\ UNCHANGED <<input, host, age, printed>>

\* on("error"), in words for the common ones; the stream of a running script closes after it.
ConnError(e) ==
  /\ stage \in {"connecting", "running"}
  /\ stage' = IF stage = "connecting" THEN "over" ELSE stage
  /\ timer' = IF timer = "pending" THEN "cleared" ELSE timer
  /\ Finish(Failed(e))
  /\ UNCHANGED <<input, host, age, printed>>

\* The node closes a connection without an error: nothing listens for that, and time goes on.
Gone ==
  /\ stage = "connecting" /\ stage' = "gone"
  /\ UNCHANGED <<input, host, timer, age, printed, result>>

Next == Refuse \/ Connect \/ Tick \/ Fire \/ Ready \/ Arrive \/ StreamCloses \/ Gone \/ \E e \in Errors : ConnError(e)

-----------------------------------------------------------------------------
\* Whatever ssh2 does and in whichever order, a test is answered once, by whoever clears the
\* timer or by the timer, and leaves none behind (probeConnection.ts:94, 102, 109, 149, 167).  A
\* test that is answered as successful shows what the node printed: what was cut off is missing,
\* never someone else's, and after whole output all of it is shown, the notes about Docker,
\* the GPU and the ports included.  (A node without PRETTY_NAME shows its product as its system.)
TestHonest ==
  /\ timer = "pending" => result = Null /\ stage # "over"
  /\ timer \in {"cleared", "fired"} => result # Null
  /\ result # Null /\ result.ok =>
       LET r == result  gpu == LineOr(host.gpus, 1)  whole == Len(printed) = Len(Output(host))
       IN /\ r.hostname \in {host.name, ""} /\ r.gpu \in {gpu, ""} /\ r.fabricPorts <= Len(host.ports)
          /\ r.dockerAvailable => host.docker = "OK" /\ r.notes \cap {"DENIED", "MISSING"} = {}
          /\ host.pretty # Null => r.os \in {host.pretty, ""}
          /\ r.isSpark => {host.product, gpu, host.name} \cap Spark # {}
          /\ whole => /\ r.hostname = host.name /\ r.gpu = gpu /\ r.fabricPorts = Len(host.ports)
                      /\ r.dockerAvailable = (host.docker = "OK")
                      /\ host.docker # "OK" => host.docker \in r.notes
                      /\ host.pretty # Null => r.isSpark = ({host.product, gpu, host.name} \cap Spark # {})
          /\ ("noGpu" \in r.notes <=> r.gpu = "") /\ ("noPorts" \in r.notes <=> r.fabricPorts = 0)
===============================================================================
