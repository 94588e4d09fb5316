---------------------------- MODULE NodeCollector ----------------------------
(***************************************************************************)
(* One node's collector (packages/core/src/node.ts, class NodeCollector):  *)
(* the SSH connection it keeps open, the reconnect timer, and the two      *)
(* polling tiers that share the connection.                                *)
(*                                                                         *)
(* The code runs on one JavaScript thread.  A step here is one turn of the *)
(* event loop: the callback of an ssh2 event, of a timer, or the           *)
(* continuation of an await.  Between two steps any other may run.         *)
(***************************************************************************)
EXTENDS Naturals, FiniteSets

CONSTANTS
  Conns,       \* ssh2 Client objects; one is taken by every connection attempt
  Messages,    \* texts of the errors reported by setStatus("error", text)
  NoConn,      \* this.client = null
  NoError,     \* this.error = null
  MaxBackoff,  \* 5 in the code: the exponent of the reconnect delay stops there
  MaxUpdates,  \* bound on update() calls; ClusterMonitor makes none
  MaxOrphans   \* bound on timers per tier that no field refers to

ASSUME SentinelAssumption == NoConn \notin Conns /\ NoError \notin Messages
ASSUME BoundAssumption ==
  MaxBackoff \in Nat /\ MaxUpdates \in Nat /\ MaxOrphans \in Nat

VARIABLES
  status, error,  \* this.status, this.error
  stopped,        \* this.stopped
  enabled,        \* this.cfg.enabled
  client,         \* this.client
  conns,          \* state of every Client object, see ConnState
  auths,          \* connect() calls suspended in `await this.buildAuth()`
  reconnect,      \* this.reconnectTimer is pending
  attempt,        \* this.reconnectAttempt, saturated at MaxBackoff
  held,           \* per tier: the timer that fastTimer/slowTimer names is pending
  orphans,        \* per tier: pending timers whose field was overwritten
  poll,           \* per tier: fast/slowInFlight and what its exec runs on
  shown,          \* status of the last snapshot emitted to the cluster monitor
  updates         \* update() calls so far

lifecycle == <<stopped, enabled, updates>>
surface   == <<status, error, shown>>
link      == <<client, conns>>
retry     == <<auths, reconnect, attempt>>
tiers     == <<held, orphans, poll>>
vars      == <<lifecycle, surface, link, retry, tiers>>

Tier == {"fast", "slow"}
Status == {"offline", "connecting", "online", "error"}

\* "free": never connected, or closed.  "failed": the error event has fired and
\* the close event has not.  "ending": end() was called, close is still to come.
ConnState == {"free", "opening", "ready", "failed", "ending"}

\* "live": exec on a ready connection.  "doomed": exec issued on a client that is
\* not ready, which ssh2 rejects.
PollState == {"idle", "live", "doomed"}

\* Type invariant of the collector's fields and timers (node.ts:140-228).
TypeOK ==
  /\ status \in Status /\ shown \in Status
  /\ error \in Messages \cup {NoError}
  /\ stopped \in BOOLEAN /\ enabled \in BOOLEAN /\ reconnect \in BOOLEAN
  /\ client \in Conns \cup {NoConn}
  /\ conns \in [Conns -> ConnState]
  /\ auths \in Nat
  /\ attempt \in 0..MaxBackoff
  /\ held \in [Tier -> BOOLEAN]
  /\ orphans \in [Tier -> Nat]
  /\ poll \in [Tier -> PollState]
  /\ updates \in Nat

Open == {c \in Conns : conns[c] # "free"}
Connected == client \in Conns /\ conns[client] = "ready"

-----------------------------------------------------------------------------
(* What the methods do to the fields, shared by the handlers below. *)

SetStatus(s, e) ==
  /\ status' = s
  /\ error' = e
  /\ shown' = IF <<s, e>> = <<status, error>> \/ s = "online" THEN shown ELSE s

\* Mutant: the exponent is not capped.
ScheduleReconnect_NoCap ==
  IF stopped \/ reconnect
  THEN UNCHANGED <<reconnect, attempt>>
  ELSE reconnect' = TRUE /\ attempt' = attempt + 1

ScheduleReconnect ==
  IF stopped \/ reconnect
  THEN UNCHANGED <<reconnect, attempt>>
  ELSE /\ reconnect' = TRUE
       /\ attempt' = IF attempt < MaxBackoff THEN attempt + 1 ELSE attempt

\* connect() up to its await.
BeginConnect ==
  IF ~stopped /\ enabled
  THEN SetStatus("connecting", NoError) /\ auths' = auths + 1
  ELSE UNCHANGED <<surface, auths>>

\* The state of a poll that pollFast/pollSlow would leave, given client and conns.
PollAfter(t, cl, cs) ==
  IF stopped \/ cl = NoConn \/ poll[t] # "idle" THEN poll[t]
  ELSE IF cs[cl] = "ready" THEN "live" ELSE "doomed"

\* scheduleFast/scheduleSlow: the field is overwritten, never cleared first.
ScheduleTimer(t) ==
  IF stopped THEN UNCHANGED <<held, orphans>>
  ELSE /\ held' = [held EXCEPT ![t] = TRUE]
       /\ orphans' = [orphans EXCEPT ![t] = IF held[t] THEN @ + 1 ELSE @]
       /\ orphans'[t] <= MaxOrphans

\* What stop() does to the connection, the timers and their fields.
DropConnection ==
  /\ held' = [t \in Tier |-> FALSE]
  /\ client' = NoConn
  /\ conns' = IF client \in Open THEN [conns EXCEPT ![client] = "ending"] ELSE conns

-----------------------------------------------------------------------------
(* The collector as ClusterMonitor.addCollector leaves it: constructed, and  *)
(* start() has run up to the await in connect().                             *)
Init ==
  /\ stopped = FALSE /\ enabled = TRUE /\ updates = 0
  /\ status = "connecting" /\ error = NoError /\ shown = "connecting"
  /\ client = NoConn /\ conns = [c \in Conns |-> "free"]
  /\ auths = 1 /\ reconnect = FALSE /\ attempt = 0
  /\ held = [t \in Tier |-> FALSE] /\ orphans = [t \in Tier |-> 0]
  /\ poll = [t \in Tier |-> "idle"]

Stop ==
  /\ ~stopped
  /\ stopped' = TRUE
  /\ DropConnection
  /\ reconnect' = FALSE
  /\ SetStatus("offline", NoError)
  /\ UNCHANGED <<enabled, updates, auths, attempt, orphans, poll>>

\* update() with new connection details: stop(), then start() if still enabled.
UpdateAndReconnect(en) ==
  /\ updates < MaxUpdates
  /\ updates' = updates + 1
  /\ enabled' = en
  /\ stopped' = ~en
  /\ DropConnection
  /\ reconnect' = FALSE
  /\ auths' = IF en THEN auths + 1 ELSE auths
  /\ IF en
     THEN status' = "connecting" /\ error' = NoError /\ shown' = "connecting"
     ELSE SetStatus("offline", NoError)
  /\ UNCHANGED <<attempt, orphans, poll>>

\* update() that leaves the connection details alone.
UpdateInPlace(en) ==
  /\ updates < MaxUpdates
  /\ updates' = updates + 1
  /\ enabled' = en
  /\ UNCHANGED <<stopped, surface, link, retry, tiers>>

-----------------------------------------------------------------------------
(* connect() after its await.  Neither continuation looks at this.stopped    *)
(* before it acts.                                                           *)

\* Mutant: a failed buildAuth gives up.
AuthFails_NoRetry ==
  /\ auths > 0
  /\ auths' = auths - 1
  /\ \E m \in Messages : SetStatus("error", m)
  /\ UNCHANGED <<reconnect, attempt, lifecycle, link, tiers>>

AuthFails ==
  /\ auths > 0
  /\ auths' = auths - 1
  /\ \E m \in Messages : SetStatus("error", m)
  /\ ScheduleReconnect
  /\ UNCHANGED <<lifecycle, link, tiers>>

OpenConnection(c) ==
  /\ auths > 0
  /\ auths' = auths - 1
  /\ conns[c] = "free" /\ c # client
  /\ client' = c
  /\ conns' = [conns EXCEPT ![c] = "opening"]
  /\ UNCHANGED <<lifecycle, surface, reconnect, attempt, tiers>>

\* client.connect() throws: this.client is left naming a client with no socket.
ConnectThrows(c) ==
  /\ auths > 0
  /\ auths' = auths - 1
  /\ conns[c] = "free" /\ c # client
  /\ client' = c
  /\ \E m \in Messages : SetStatus("error", m)
  /\ ScheduleReconnect
  /\ UNCHANGED <<conns, lifecycle, tiers>>

-----------------------------------------------------------------------------
(* ssh2 events.  The library (external) reports a connection's end by        *)
(* `close`, possibly preceded by `error`; readyTimeout and keepalive make    *)
(* sure that an unanswered connection ends.                                  *)

\* Mutant: the handler does not check this.stopped.
Ready_NoStopCheck(c) ==
  /\ conns[c] = "opening"
  /\ conns' = [conns EXCEPT ![c] = "ready"]
  /\ attempt' = 0
  /\ SetStatus("online", NoError)
  /\ poll' = [t \in Tier |-> PollAfter(t, client, conns')]
  /\ UNCHANGED <<lifecycle, client, auths, reconnect, held, orphans>>

Ready(c) ==
  /\ conns[c] = "opening"
  /\ IF stopped
     THEN /\ conns' = [conns EXCEPT ![c] = "ending"]
          /\ UNCHANGED <<attempt, surface, poll>>
     ELSE /\ conns' = [conns EXCEPT ![c] = "ready"]
          /\ attempt' = 0
          /\ SetStatus("online", NoError)
          /\ poll' = [t \in Tier |-> PollAfter(t, client, conns')]
  /\ UNCHANGED <<lifecycle, client, auths, reconnect, held, orphans>>

\* Mutant: the error handler schedules a reconnect, as the close handler does.
ConnError_Reconnects(c) ==
  /\ conns[c] # "free"
  /\ conns' = [conns EXCEPT ![c] = "failed"]
  /\ \E m \in Messages : SetStatus("error", m)
  /\ ScheduleReconnect
  /\ UNCHANGED <<lifecycle, client, auths, tiers>>

ConnError(c) ==
  /\ conns[c] # "free"
  /\ conns' = [conns EXCEPT ![c] = "failed"]
  /\ \E m \in Messages : SetStatus("error", m)
  /\ UNCHANGED <<lifecycle, client, retry, tiers>>

Close(c) ==
  /\ conns[c] # "free"
  /\ conns' = [conns EXCEPT ![c] = "free"]
  /\ client' = IF client = c THEN NoConn ELSE client
  /\ IF stopped \/ status = "error" THEN UNCHANGED surface ELSE SetStatus("offline", NoError)
  /\ ScheduleReconnect
  /\ UNCHANGED <<lifecycle, auths, tiers>>

ReconnectFires ==
  /\ reconnect
  /\ reconnect' = FALSE
  /\ BeginConnect
  /\ UNCHANGED <<attempt, lifecycle, link, tiers>>

-----------------------------------------------------------------------------
(* The polling tiers.  A tier's timer starts a poll; the poll's `finally`    *)
(* sets the next timer.                                                      *)

\* The timer that the tier's field names fires.
TimerFires(t) ==
  /\ held[t]
  /\ held' = [held EXCEPT ![t] = FALSE]
  /\ poll' = [poll EXCEPT ![t] = PollAfter(t, client, conns)]
  /\ UNCHANGED <<orphans, lifecycle, surface, link, retry>>

\* A timer that an overwritten field used to name fires.
OrphanFires(t) ==
  /\ orphans[t] > 0
  /\ orphans' = [orphans EXCEPT ![t] = @ - 1]
  /\ poll' = [poll EXCEPT ![t] = PollAfter(t, client, conns)]
  /\ UNCHANGED <<held, lifecycle, surface, link, retry>>

\* exec resolves when its stream closes.  A stream also closes with the connection
\* under it, so an exec may resolve, with part of its output, after Close or Stop.
PollSucceeds(t) ==
  /\ poll[t] = "live"
  /\ poll' = [poll EXCEPT ![t] = "idle"]
  /\ shown' = IF t = "fast" THEN "online" ELSE shown
  /\ ScheduleTimer(t)
  /\ UNCHANGED <<status, error, lifecycle, link, retry>>

\* Mutant: the next poll is scheduled after a success only.
PollFails_NoReschedule(t) ==
  /\ poll[t] # "idle"
  /\ poll' = [poll EXCEPT ![t] = "idle"]
  /\ IF t = "fast" /\ ~stopped
     THEN \E m \in Messages : SetStatus("error", m)
     ELSE UNCHANGED surface
  /\ UNCHANGED <<held, orphans, lifecycle, link, retry>>

\* exec rejects or times out.  A failed slow poll is silent.
PollFails(t) ==
  /\ poll[t] # "idle"
  /\ poll' = [poll EXCEPT ![t] = "idle"]
  /\ IF t = "fast" /\ ~stopped
     THEN \E m \in Messages : SetStatus("error", m)
     ELSE UNCHANGED surface
  /\ ScheduleTimer(t)
  /\ UNCHANGED <<lifecycle, link, retry>>

-----------------------------------------------------------------------------
AuthSettles == AuthFails \/ \E c \in Conns : OpenConnection(c) \/ ConnectThrows(c)
PollSettles(t) == PollSucceeds(t) \/ PollFails(t)
Handshake(c) == conns[c] = "opening" /\ (Ready(c) \/ ConnError(c) \/ Close(c))
Hangup(c) == conns[c] \in {"failed", "ending"} /\ Close(c)

Next ==
  \/ Stop
  \/ \E en \in BOOLEAN : UpdateAndReconnect(en) \/ UpdateInPlace(en)
  \/ AuthFails
  \/ \E c \in Conns : OpenConnection(c) \/ ConnectThrows(c)
  \/ \E c \in Conns : Ready(c) \/ ConnError(c) \/ Close(c)
  \/ ReconnectFires
  \/ \E t \in Tier : TimerFires(t) \/ OrphanFires(t) \/ PollSucceeds(t) \/ PollFails(t)

Spec == Init /\ [][Next]_vars

(* Timers fire; readFile settles; exec is bounded by its timeout; a handshake *)
(* by readyTimeout; a failed or ended socket closes.  Nothing makes a ready   *)
(* connection fail, an update happen, or the collector stop.                  *)
Fairness ==
  /\ WF_vars(AuthSettles)
  /\ WF_vars(ReconnectFires)
  /\ \A t \in Tier : /\ WF_vars(TimerFires(t))
                     /\ WF_vars(OrphanFires(t))
                     /\ WF_vars(PollSettles(t))
  /\ \A c \in Conns : WF_vars(Handshake(c)) /\ WF_vars(Hangup(c))

FairSpec == Spec /\ Fairness

-----------------------------------------------------------------------------
(* Safety.  The first three are promised to a collector that is never updated:  *)
(* an update() while a buildAuth is pending does open a second connection.      *)

\* A node is never held by two SSH connections (README: "one long-lived SSH
\* connection"; nodes cap concurrent sessions).
SingleConnection == updates = 0 => \A c, d \in Open : c = d

\* A collector that was not stopped always has an attempt in progress, a
\* connection, or a reconnect timer: no sequence of failures makes it give up.
\* Exactly one of the three, so that attempts never multiply.
OneAttempt ==
  updates = 0 =>
    /\ ~stopped => auths > 0 \/ reconnect \/ Open # {}
    /\ auths <= 1
    /\ auths > 0 => ~reconnect /\ Open = {}
    /\ reconnect => Open = {}

\* withClient() (node.ts:251) lends this.client exactly when status is online: what
\* it lends is then an established connection.
OnlineIsUsable == updates = 0 => (status = "online" => Connected)

\* While the connection is up, each tier has a poll in flight or a timer pending,
\* whatever reconnects, late answers and leftover timers did before: the guard on
\* overlapping polls (node.ts:411) never drops the last link of a polling chain.
PollingAlive ==
  Connected /\ ~stopped => \A t \in Tier : poll[t] # "idle" \/ held[t] \/ orphans[t] > 0

\* What a collector that is never updated keeps true of its connection: the
\* properties, and why they are kept.  A reconnect timer is never pending on a
\* stopped collector; while it is not stopped, the connection that exists is the
\* one this.client names; and a stopped collector does not call itself online.
ConnectionInv ==
  updates = 0 =>
    /\ enabled
    /\ SingleConnection
    /\ OneAttempt
    /\ OnlineIsUsable
    /\ stopped => ~reconnect /\ status # "online"
    /\ ~stopped => \A c \in Open : client = c

-----------------------------------------------------------------------------
(* Liveness. *)

Quiescent ==
  /\ Open = {} /\ auths = 0 /\ ~reconnect
  /\ \A t \in Tier : poll[t] = "idle" /\ ~held[t] /\ orphans[t] = 0

\* After stop() (node.ts:263) everything the collector had under way comes to an
\* end: also a connection whose buildAuth was pending, and timers that stop()
\* cannot clear because no field names them.
StopQuiesces == [](updates = 0) /\ <>[]stopped => <>[]Quiescent

ConnectionFailure ==
  \/ AuthFails
  \/ \E c \in Conns : \/ ConnectThrows(c)
                      \/ ConnError(c)
                      \/ conns[c] \in {"opening", "ready"} /\ Close(c)

\* Once connecting stops failing, the collector gets and keeps a connection: retry
\* (node.ts:362) never wedges.
Reconnects ==
  [](updates = 0) /\ <>[][~ConnectionFailure]_vars => <>[](stopped \/ Connected)

\* While a connection stays up, each tier polls again and again (node.ts:410-496).
PollsRecur ==
  <>[](Connected /\ ~stopped) => \A t \in Tier : []<>(poll[t] = "idle") /\ []<>(poll[t] # "idle")

\* Both: a collector always gets back to polling, whatever failed before.
Recovers == Reconnects /\ PollsRecur

-----------------------------------------------------------------------------
(* What the repository says of the collector and the code does not do. *)

\* README.md:299-302 and 312-313: one fast poll every 5 s and one slow poll every
\* 30 s, so a tier has at most one poll or timer outstanding.
OneChainPerTier ==
  \A t \in Tier :
    (IF held[t] THEN 1 ELSE 0) + orphans[t] + (IF poll[t] # "idle" THEN 1 ELSE 0) <= 1

\* node.ts:253: withClient() refuses with "is not connected", so when it refuses
\* there is no established connection.
RefusalMeansDisconnected == client = NoConn \/ status # "online" => ~Connected

=============================================================================
