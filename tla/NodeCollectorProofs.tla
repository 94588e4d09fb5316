------------------------- MODULE NodeCollectorProofs -------------------------
(***************************************************************************)
(* Proofs about NodeCollector for any set of clients and error texts, any  *)
(* back-off cap and any bounds.                                            *)
(***************************************************************************)
EXTENDS NodeCollector, TLAPS

(* What the shared helpers do to the fields they write. *)

\* setStatus writes a status, an error text or none, and the status shown.
LEMMA SetStatusType ==
  ASSUME TypeOK, NEW s \in Status, NEW e \in Messages \cup {NoError}, SetStatus(s, e)
  PROVE  status' \in Status /\ shown' \in Status /\ error' \in Messages \cup {NoError}
BY DEF TypeOK, SetStatus

\* scheduleReconnect keeps the saturated attempt counter in range.
LEMMA ScheduleReconnectType ==
  ASSUME TypeOK, ScheduleReconnect
  PROVE  reconnect' \in BOOLEAN /\ attempt' \in 0..MaxBackoff
<1>1. CASE stopped \/ reconnect
  BY <1>1 DEF TypeOK, ScheduleReconnect
<1>2. CASE ~(stopped \/ reconnect)
  <2>1. reconnect' = TRUE /\ attempt' = IF attempt < MaxBackoff THEN attempt + 1 ELSE attempt
    BY <1>2, Zenon DEF ScheduleReconnect
  <2>2. attempt' \in 0..MaxBackoff
    BY <2>1, BoundAssumption DEF TypeOK
  <2>. QED BY <2>1, <2>2
<1>. QED BY <1>1, <1>2

\* scheduleFast/scheduleSlow keep the timer counts in range.
LEMMA ScheduleTimerType ==
  ASSUME TypeOK, NEW t \in Tier, ScheduleTimer(t)
  PROVE  held' \in [Tier -> BOOLEAN] /\ orphans' \in [Tier -> Nat]
<1>1. CASE stopped
  BY <1>1 DEF TypeOK, ScheduleTimer
<1>2. CASE ~stopped
  <2>1. /\ held' = [held EXCEPT ![t] = TRUE]
        /\ orphans' = [orphans EXCEPT ![t] = IF held[t] THEN @ + 1 ELSE @]
    BY <1>2, Zenon DEF ScheduleTimer
  <2>. QED BY <2>1 DEF TypeOK
<1>. QED BY <1>1, <1>2

\* pollFast/pollSlow leave the tier idle or with an exec in flight.
LEMMA PollAfterType ==
  ASSUME TypeOK, NEW t \in Tier, NEW cl, NEW cs
  PROVE  PollAfter(t, cl, cs) \in PollState
BY DEF TypeOK, PollAfter, PollState

\* stop() leaves no client, no timer that a field names, and legal connections.
LEMMA DropConnectionType ==
  ASSUME TypeOK, DropConnection
  PROVE  /\ held' \in [Tier -> BOOLEAN]
         /\ client' = NoConn
         /\ conns' \in [Conns -> ConnState]
BY DEF TypeOK, DropConnection, ConnState

-----------------------------------------------------------------------------
(* Type correctness. *)

\* Every reachable state of the collector is well typed.
THEOREM TypeCorrect == Spec => []TypeOK
<1>1. Init => TypeOK
  <2> SUFFICES ASSUME Init PROVE TypeOK
    OBVIOUS
  <2>1. attempt \in 0..MaxBackoff /\ auths \in Nat /\ updates \in Nat
    BY BoundAssumption DEF Init
  <2>2. orphans \in [Tier -> Nat] /\ held \in [Tier -> BOOLEAN]
    BY DEF Init
  <2>3. poll \in [Tier -> PollState] /\ conns \in [Conns -> ConnState]
    BY DEF Init, PollState, ConnState
  <2>4. stopped \in BOOLEAN /\ enabled \in BOOLEAN /\ reconnect \in BOOLEAN
    BY DEF Init
  <2>. QED BY <2>1, <2>2, <2>3, <2>4 DEF Init, TypeOK, Status
<1>2. TypeOK /\ [Next]_vars => TypeOK'
  <2> SUFFICES ASSUME TypeOK, [Next]_vars PROVE TypeOK'
    OBVIOUS
  <2> USE DEF lifecycle, surface, link, retry, tiers
  <2>1. CASE Stop
    <3>1. status' \in Status /\ shown' \in Status /\ error' \in Messages \cup {NoError}
      BY <2>1, SetStatusType DEF Stop, Status
    <3>2. held' \in [Tier -> BOOLEAN] /\ client' = NoConn /\ conns' \in [Conns -> ConnState]
      BY <2>1, DropConnectionType DEF Stop
    <3>. QED BY <2>1, <3>1, <3>2 DEF Stop, TypeOK
  <2>2. ASSUME NEW en \in BOOLEAN, UpdateAndReconnect(en) PROVE TypeOK'
    <3>1. status' \in Status /\ shown' \in Status /\ error' \in Messages \cup {NoError}
      BY <2>2, SetStatusType DEF UpdateAndReconnect, Status
    <3>2. held' \in [Tier -> BOOLEAN] /\ client' = NoConn /\ conns' \in [Conns -> ConnState]
      BY <2>2, DropConnectionType DEF UpdateAndReconnect
    <3>3. stopped' \in BOOLEAN /\ enabled' \in BOOLEAN /\ reconnect' \in BOOLEAN
      BY <2>2 DEF UpdateAndReconnect
    <3>4. auths' \in Nat /\ updates' \in Nat
      BY <2>2 DEF UpdateAndReconnect, TypeOK
    <3>. QED BY <2>2, <3>1, <3>2, <3>3, <3>4 DEF UpdateAndReconnect, TypeOK
  <2>3. ASSUME NEW en \in BOOLEAN, UpdateInPlace(en) PROVE TypeOK'
    BY <2>3 DEF UpdateInPlace, TypeOK
  <2>4. CASE AuthFails
    <3>1. status' \in Status /\ shown' \in Status /\ error' \in Messages \cup {NoError}
      BY <2>4, SetStatusType DEF AuthFails, Status
    <3>2. reconnect' \in BOOLEAN /\ attempt' \in 0..MaxBackoff
      BY <2>4, ScheduleReconnectType DEF AuthFails
    <3>. QED BY <2>4, <3>1, <3>2 DEF AuthFails, TypeOK
  <2>5. ASSUME NEW c \in Conns, OpenConnection(c) PROVE TypeOK'
    BY <2>5 DEF OpenConnection, TypeOK, ConnState
  <2>6. ASSUME NEW c \in Conns, ConnectThrows(c) PROVE TypeOK'
    <3>1. status' \in Status /\ shown' \in Status /\ error' \in Messages \cup {NoError}
      BY <2>6, SetStatusType DEF ConnectThrows, Status
    <3>2. reconnect' \in BOOLEAN /\ attempt' \in 0..MaxBackoff
      BY <2>6, ScheduleReconnectType DEF ConnectThrows
    <3>. QED BY <2>6, <3>1, <3>2 DEF ConnectThrows, TypeOK
  <2>7. ASSUME NEW c \in Conns, Ready(c) PROVE TypeOK'
    <3>1. CASE stopped
      BY <2>7, <3>1 DEF Ready, TypeOK, ConnState
    <3>2. CASE ~stopped
      <4>1. status' \in Status /\ shown' \in Status /\ error' \in Messages \cup {NoError}
        BY <2>7, <3>2, SetStatusType DEF Ready, Status
      <4>2. poll' \in [Tier -> PollState]
        BY <2>7, <3>2, PollAfterType DEF Ready
      <4>3. conns' \in [Conns -> ConnState] /\ attempt' \in 0..MaxBackoff
        BY <2>7, <3>2, BoundAssumption DEF Ready, TypeOK, ConnState
      <4>. QED BY <2>7, <3>2, <4>1, <4>2, <4>3 DEF Ready, TypeOK
    <3>. QED BY <3>1, <3>2
  <2>8. ASSUME NEW c \in Conns, ConnError(c) PROVE TypeOK'
    <3>1. status' \in Status /\ shown' \in Status /\ error' \in Messages \cup {NoError}
      BY <2>8, SetStatusType DEF ConnError, Status
    <3>. QED BY <2>8, <3>1 DEF ConnError, TypeOK, ConnState
  <2>9. ASSUME NEW c \in Conns, Close(c) PROVE TypeOK'
    <3>1. status' \in Status /\ shown' \in Status /\ error' \in Messages \cup {NoError}
      BY <2>9, SetStatusType DEF Close, Status, TypeOK
    <3>2. reconnect' \in BOOLEAN /\ attempt' \in 0..MaxBackoff
      BY <2>9, ScheduleReconnectType DEF Close
    <3>. QED BY <2>9, <3>1, <3>2 DEF Close, TypeOK, ConnState
  <2>10. CASE ReconnectFires
    <3>1. status' \in Status /\ shown' \in Status /\ error' \in Messages \cup {NoError}
      BY <2>10, SetStatusType DEF ReconnectFires, BeginConnect, Status, TypeOK
    <3>2. auths' \in Nat
      BY <2>10 DEF ReconnectFires, BeginConnect, TypeOK
    <3>. QED BY <2>10, <3>1, <3>2 DEF ReconnectFires, TypeOK
  <2>11. ASSUME NEW t \in Tier, TimerFires(t) PROVE TypeOK'
    BY <2>11, PollAfterType DEF TimerFires, TypeOK
  <2>12. ASSUME NEW t \in Tier, OrphanFires(t) PROVE TypeOK'
    BY <2>12, PollAfterType DEF OrphanFires, TypeOK
  <2>13. ASSUME NEW t \in Tier, PollSucceeds(t) PROVE TypeOK'
    BY <2>13, ScheduleTimerType DEF PollSucceeds, TypeOK, PollState, Status
  <2>14. ASSUME NEW t \in Tier, PollFails(t) PROVE TypeOK'
    <3>1. status' \in Status /\ shown' \in Status /\ error' \in Messages \cup {NoError}
      BY <2>14, SetStatusType DEF PollFails, Status, TypeOK
    <3>. QED BY <2>14, <3>1, ScheduleTimerType DEF PollFails, TypeOK, PollState
  <2>15. CASE UNCHANGED vars
    BY <2>15 DEF vars, TypeOK
  <2>. QED
    BY <2>1, <2>2, <2>3, <2>4, <2>5, <2>6, <2>7, <2>8, <2>9, <2>10, <2>11, <2>12,
       <2>13, <2>14, <2>15 DEF Next
<1>. QED BY <1>1, <1>2, PTL DEF Spec

-----------------------------------------------------------------------------
(* Polling never dies while the connection is up. *)

TierAlive(t) == poll[t] # "idle" \/ held[t] \/ orphans[t] > 0

\* A poll attempt on a ready connection leaves the tier busy.
LEMMA PollAfterBusy ==
  ASSUME TypeOK, ~stopped, NEW t \in Tier, NEW cl \in Conns, NEW cs, cs[cl] = "ready"
  PROVE  PollAfter(t, cl, cs) # "idle"
BY SentinelAssumption DEF TypeOK, PollAfter

\* A poll that settles leaves its timer pending and the other tier untouched.
LEMMA ScheduleTimerAlive ==
  ASSUME TypeOK, ~stopped, NEW t \in Tier, ScheduleTimer(t)
  PROVE  /\ held'[t] = TRUE
         /\ \A u \in Tier \ {t} : held'[u] = held[u] /\ orphans'[u] = orphans[u]
<1>1. /\ held' = [held EXCEPT ![t] = TRUE]
      /\ orphans' = [orphans EXCEPT ![t] = IF held[t] THEN @ + 1 ELSE @]
  BY Zenon DEF ScheduleTimer
<1>. QED BY <1>1 DEF TypeOK

\* While connected and not stopped, every tier has a poll in flight or a timer
\* pending.  With TypeOK the property is inductive: a connection becomes ready only
\* in Ready, which polls both tiers, and afterwards every step that takes a poll
\* or a timer away puts the other in its place.
THEOREM PollingNeverDies == Spec => []PollingAlive
<1>1. Init => PollingAlive
  BY SentinelAssumption DEF Init, PollingAlive, Connected
<1>2. TypeOK /\ PollingAlive /\ [Next]_vars => PollingAlive'
  <2> SUFFICES ASSUME TypeOK, PollingAlive, [Next]_vars, Connected', ~stopped',
                      NEW u \in Tier
               PROVE  TierAlive(u)'
    BY DEF PollingAlive, TierAlive
  <2> USE DEF lifecycle, surface, link, retry, tiers
  <2>0. ASSUME UNCHANGED <<client, conns, stopped>> PROVE TierAlive(u)
    BY <2>0 DEF PollingAlive, Connected, TierAlive
  <2>1. CASE Stop
    BY <2>1 DEF Stop
  <2>2. ASSUME NEW en \in BOOLEAN, UpdateAndReconnect(en) PROVE TierAlive(u)'
    BY <2>2, SentinelAssumption DEF UpdateAndReconnect, DropConnection, Connected
  <2>3. ASSUME NEW en \in BOOLEAN, UpdateInPlace(en) PROVE TierAlive(u)'
    BY <2>3, <2>0 DEF UpdateInPlace, TierAlive
  <2>4. CASE AuthFails
    BY <2>4, <2>0 DEF AuthFails, TierAlive
  <2>5. ASSUME NEW c \in Conns, OpenConnection(c) PROVE TierAlive(u)'
    BY <2>5 DEF OpenConnection, Connected, TypeOK
  <2>6. ASSUME NEW c \in Conns, ConnectThrows(c) PROVE TierAlive(u)'
    BY <2>6 DEF ConnectThrows, Connected
  <2>7. ASSUME NEW c \in Conns, Ready(c) PROVE TierAlive(u)'
    <3>1. CASE stopped
      BY <2>7, <3>1 DEF Ready
    <3>2. CASE ~stopped
      <4>1. client' = client /\ client \in Conns /\ conns'[client] = "ready"
        BY <2>7 DEF Ready, Connected
      <4>2. poll'[u] = PollAfter(u, client, conns')
        BY <2>7, <3>2 DEF Ready
      <4>. QED BY <3>2, <4>1, <4>2, PollAfterBusy DEF TierAlive
    <3>. QED BY <3>1, <3>2
  <2>8. ASSUME NEW c \in Conns, ConnError(c) PROVE TierAlive(u)'
    <3>1. Connected /\ ~stopped
      BY <2>8 DEF ConnError, Connected, TypeOK
    <3>. QED BY <2>8, <3>1 DEF ConnError, PollingAlive, TierAlive
  <2>9. ASSUME NEW c \in Conns, Close(c) PROVE TierAlive(u)'
    <3>1. Connected /\ ~stopped
      BY <2>9, SentinelAssumption DEF Close, Connected, TypeOK
    <3>. QED BY <2>9, <3>1 DEF Close, PollingAlive, TierAlive
  <2>10. CASE ReconnectFires
    BY <2>10, <2>0 DEF ReconnectFires, TierAlive
  <2>11. ASSUME NEW t \in Tier, TimerFires(t) PROVE TierAlive(u)'
    <3>1. client \in Conns /\ conns[client] = "ready" /\ ~stopped
      BY <2>11 DEF TimerFires, Connected
    <3>2. CASE u = t
      BY <2>11, <3>1, <3>2, PollAfterBusy DEF TimerFires, TierAlive, TypeOK
    <3>3. CASE u # t
      BY <2>11, <2>0, <3>3 DEF TimerFires, TierAlive, TypeOK
    <3>. QED BY <3>2, <3>3
  <2>12. ASSUME NEW t \in Tier, OrphanFires(t) PROVE TierAlive(u)'
    <3>1. client \in Conns /\ conns[client] = "ready" /\ ~stopped
      BY <2>12 DEF OrphanFires, Connected
    <3>2. CASE u = t
      BY <2>12, <3>1, <3>2, PollAfterBusy DEF OrphanFires, TierAlive, TypeOK
    <3>3. CASE u # t
      BY <2>12, <2>0, <3>3 DEF OrphanFires, TierAlive, TypeOK
    <3>. QED BY <3>2, <3>3
  <2>13. ASSUME NEW t \in Tier, PollSucceeds(t) PROVE TierAlive(u)'
    <3>1. ~stopped /\ TierAlive(u)
      BY <2>13, <2>0 DEF PollSucceeds
    <3>2. CASE u = t
      BY <2>13, <3>1, <3>2, ScheduleTimerAlive DEF PollSucceeds, TierAlive
    <3>3. CASE u # t
      BY <2>13, <3>1, <3>3, ScheduleTimerAlive DEF PollSucceeds, TierAlive, TypeOK
    <3>. QED BY <3>2, <3>3
  <2>14. ASSUME NEW t \in Tier, PollFails(t) PROVE TierAlive(u)'
    <3>1. ~stopped /\ TierAlive(u)
      BY <2>14, <2>0 DEF PollFails
    <3>2. CASE u = t
      BY <2>14, <3>1, <3>2, ScheduleTimerAlive DEF PollFails, TierAlive
    <3>3. CASE u # t
      BY <2>14, <3>1, <3>3, ScheduleTimerAlive DEF PollFails, TierAlive, TypeOK
    <3>. QED BY <3>2, <3>3
  <2>15. CASE UNCHANGED vars
    BY <2>15, <2>0 DEF vars, TierAlive
  <2>. QED
    BY <2>1, <2>2, <2>3, <2>4, <2>5, <2>6, <2>7, <2>8, <2>9, <2>10, <2>11, <2>12,
       <2>13, <2>14, <2>15 DEF Next
<1>. QED BY <1>1, <1>2, TypeCorrect, PTL DEF Spec

-----------------------------------------------------------------------------
(* One connection, and never none. *)

\* Until it is updated the collector never holds two connections, never stops trying,
\* and is online only on an established connection.
THEOREM ConnectionDiscipline == Spec => []ConnectionInv
<1>1. Init => ConnectionInv
  BY DEF Init, ConnectionInv, SingleConnection, OneAttempt, OnlineIsUsable, Open
<1>2. TypeOK /\ ConnectionInv /\ [Next]_vars => ConnectionInv'
  <2> SUFFICES ASSUME TypeOK, ConnectionInv, [Next]_vars, updates' = 0 PROVE ConnectionInv'
    BY DEF ConnectionInv
  <2> USE DEF lifecycle, surface, link, retry, tiers
  <2>1. CASE Stop
    <3>1. /\ Open' = Open /\ status' = "offline" /\ stopped' = TRUE /\ reconnect' = FALSE
          /\ auths' = auths /\ updates' = updates /\ enabled' = enabled
      BY <2>1 DEF Stop, DropConnection, SetStatus, Open, TypeOK
    <3>. QED BY <3>1 DEF ConnectionInv, SingleConnection, OneAttempt, OnlineIsUsable
  <2>2. ASSUME NEW en \in BOOLEAN, UpdateAndReconnect(en) \/ UpdateInPlace(en)
        PROVE  ConnectionInv'
    BY <2>2 DEF UpdateAndReconnect, UpdateInPlace, TypeOK
  <2>3. CASE AuthFails
    BY <2>3 DEF AuthFails, SetStatus, ScheduleReconnect, ConnectionInv, SingleConnection,
                OneAttempt, OnlineIsUsable, Open, TypeOK
  <2>4. ASSUME NEW c \in Conns, OpenConnection(c) PROVE ConnectionInv'
    BY <2>4 DEF OpenConnection, ConnectionInv, SingleConnection, OneAttempt,
                OnlineIsUsable, Connected, Open, TypeOK
  <2>5. ASSUME NEW c \in Conns, ConnectThrows(c) PROVE ConnectionInv'
    BY <2>5 DEF ConnectThrows, SetStatus, ScheduleReconnect, ConnectionInv,
                SingleConnection, OneAttempt, OnlineIsUsable, Open, TypeOK
  <2>6. ASSUME NEW c \in Conns, Ready(c) PROVE ConnectionInv'
    BY <2>6 DEF Ready, SetStatus, ConnectionInv, SingleConnection, OneAttempt,
                OnlineIsUsable, Connected, Open, TypeOK
  <2>7. ASSUME NEW c \in Conns, ConnError(c) PROVE ConnectionInv'
    BY <2>7 DEF ConnError, SetStatus, ConnectionInv, SingleConnection, OneAttempt,
                OnlineIsUsable, Open, TypeOK
  <2>8. ASSUME NEW c \in Conns, Close(c) PROVE ConnectionInv'
    BY <2>8 DEF Close, SetStatus, ScheduleReconnect, ConnectionInv, SingleConnection,
                OneAttempt, OnlineIsUsable, Connected, Open, TypeOK
  <2>9. CASE ReconnectFires
    BY <2>9 DEF ReconnectFires, BeginConnect, SetStatus, ConnectionInv, SingleConnection,
                OneAttempt, OnlineIsUsable, Open, TypeOK
  <2>10. ASSUME NEW t \in Tier, TimerFires(t) \/ OrphanFires(t) \/ PollSucceeds(t)
         PROVE  ConnectionInv'
    <3>1. UNCHANGED <<stopped, enabled, updates, status, client, conns, auths, reconnect>>
      BY <2>10 DEF TimerFires, OrphanFires, PollSucceeds
    <3>. QED BY <3>1 DEF ConnectionInv, SingleConnection, OneAttempt, OnlineIsUsable,
                         Connected, Open
  <2>11. ASSUME NEW t \in Tier, PollFails(t) PROVE ConnectionInv'
    BY <2>11 DEF PollFails, SetStatus, ConnectionInv, SingleConnection, OneAttempt,
                 OnlineIsUsable, Connected, Open
  <2>12. CASE UNCHANGED vars
    BY <2>12 DEF vars, ConnectionInv, SingleConnection, OneAttempt, OnlineIsUsable,
                 Connected, Open
  <2>. QED
    BY <2>1, <2>2, <2>3, <2>4, <2>5, <2>6, <2>7, <2>8, <2>9, <2>10, <2>11, <2>12 DEF Next
<1>. QED BY <1>1, <1>2, TypeCorrect, PTL DEF Spec

=============================================================================
