------------------------- MODULE AgentSessionProofs -------------------------
(***************************************************************************)
(* Theorems about AgentSession, for every set of sockets, every choice of  *)
(* cron jobs and every value of the bounds.                                *)
(*                                                                         *)
(* The inductive invariant IInv adds to the properties two facts on which  *)
(* they rest. Handshake: client.data is set from Join on and never before, *)
(* so a socket that is not in the room owes the database nothing. The      *)
(* sockets are updated in a dozen shapes (SocketSteps), and what a step    *)
(* does to one socket follows from its shape (EachSocketSteps).            *)
(* SyncedKeys: a key that syncConnectedAgentsStatus has read from the map  *)
(* is the key of a client that authenticated, even if its session and its  *)
(* entry in the map are gone when the update is written.                   *)
(***************************************************************************)
EXTENDS AgentSession, TLAPS

Early == {"none", "opened", "found", "evicting"}

Handshake ==
  \A s \in Sockets :
    /\ sock[s].conn \in Early => ~sock[s].joined /\ sock[s].disc = "none"
    /\ sock[s].link = "new" => sock[s].conn = "none"
    /\ sock[s].conn = "marking" \/ sock[s].beat # "none" => sock[s].joined

SyncedKeys ==
  \A k \in syncing.keys : \E s \in Sockets : sock[s].joined /\ sock[s].key = k

IInv ==
  /\ TypeOK /\ Handshake /\ OwnerIsAlive /\ SyncedKeys
  /\ OnlineByCurrentKey /\ OldKeyIsOut

-----------------------------------------------------------------------------
(* Disconnecting a set of sockets                                          *)

\* Only link and disc of a socket change, link never to "up"; the sockets
\* of the set are down.
LEMMA DroppedFields ==
  ASSUME TypeOK, NEW gone, NEW s \in Sockets
  PROVE  /\ Dropped(gone)[s].key = sock[s].key
         /\ Dropped(gone)[s].joined = sock[s].joined
         /\ Dropped(gone)[s].conn = sock[s].conn
         /\ Dropped(gone)[s].evicts = sock[s].evicts
         /\ Dropped(gone)[s].beat = sock[s].beat
         /\ Dropped(gone)[s].link = "new" => sock[s].link = "new"
         /\ Dropped(gone)[s].link = "up" => Up(s) /\ s \notin gone
         /\ s \notin gone \/ ~Up(s) => Dropped(gone)[s] = sock[s]
         /\ ~sock[s].joined /\ sock[s].disc = "none" => Dropped(gone)[s].disc = "none"
  BY DEF Dropped, Up, TypeOK, SocketRecords

LEMMA DroppedType ==
  ASSUME TypeOK, NEW gone
  PROVE  Dropped(gone) \in [Sockets -> SocketRecords]
  BY DEF Dropped, Up, TypeOK, SocketRecords

LEMMA ReleasedType ==
  ASSUME TypeOK, NEW gone
  PROVE  Released(gone) \in [Keys -> Sockets \cup {NoSocket}]
  BY DEF Released, TypeOK

\* The map keeps no socket of the set that was up.
LEMMA ReleasedFields ==
  ASSUME TypeOK, NEW gone, NEW k \in Keys, Released(gone)[k] # NoSocket
  PROVE  /\ Released(gone)[k] = connected[k]
         /\ ~(connected[k] \in gone /\ Up(connected[k]))
  BY DEF Released, TypeOK

-----------------------------------------------------------------------------
(* Type correctness *)

LEMMA KeysAreNumbers == Keys \subseteq Nat /\ 0 \in Keys
  BY BoundsAssumption DEF Keys

LEMMA TypeInit == Init => TypeOK
<1>1. SUFFICES ASSUME Init PROVE TypeOK
  OBVIOUS
<1>2. NewSocket \in SocketRecords
  BY KeysAreNumbers DEF NewSocket, SocketRecords
<1>3. IdleKick \in Kicks /\ IdleCron \in Crons
  BY KeysAreNumbers DEF IdleKick, Kicks, IdleCron, Crons
<1>4. restarts \in 0..MaxRestarts
  BY <1>1, BoundsAssumption DEF Init
<1>5. connected \in [Keys -> Sockets \cup {NoSocket}] /\ throttled \subseteq Keys
  BY <1>1 DEF Init
<1>6. key \in Keys /\ status \in {"ONLINE", "OFFLINE"}
  BY <1>1, KeysAreNumbers DEF Init
<1>7. seen \in BOOLEAN /\ allowed \in BOOLEAN
  BY <1>1 DEF Init
<1>8. sock \in [Sockets -> SocketRecords] /\ regen \in Kicks /\ enforce \in Kicks
      /\ syncing \in Crons /\ sweeping \in Crons
  BY <1>1, <1>2, <1>3 DEF Init
<1>. QED
  BY <1>4, <1>5, <1>6, <1>7, <1>8 DEF TypeOK

\* The ways in which a step updates one socket.
LEMMA ConnUpdate ==
  ASSUME NEW socks \in [Sockets -> SocketRecords], NEW s \in Sockets, NEW c \in {"found", "done"}
  PROVE  [socks EXCEPT ![s].conn = c] \in [Sockets -> SocketRecords]
  BY DEF SocketRecords

LEMMA DiscUpdate ==
  ASSUME NEW socks \in [Sockets -> SocketRecords], NEW s \in Sockets, NEW d \in {"write", "done"}
  PROVE  [socks EXCEPT ![s].disc = d] \in [Sockets -> SocketRecords]
  BY DEF SocketRecords

LEMMA BeatUpdate ==
  ASSUME NEW socks \in [Sockets -> SocketRecords], NEW s \in Sockets,
         NEW b \in {"none", "checking", "writing"}
  PROVE  [socks EXCEPT ![s].beat = b] \in [Sockets -> SocketRecords]
  BY DEF SocketRecords

LEMMA OpenUpdate ==
  ASSUME NEW r \in SocketRecords, NEW k \in Keys
  PROVE  [r EXCEPT !.link = "up", !.key = k, !.conn = "opened"] \in SocketRecords
  BY DEF SocketRecords

LEMMA AdmitUpdate ==
  ASSUME NEW r \in SocketRecords, NEW e \in SUBSET Sockets
  PROVE  [r EXCEPT !.conn = "evicting", !.evicts = e] \in SocketRecords
  BY DEF SocketRecords

LEMMA JoinUpdate ==
  ASSUME NEW r \in SocketRecords
  PROVE  [r EXCEPT !.conn = "marking", !.joined = TRUE, !.evicts = {}] \in SocketRecords
  BY DEF SocketRecords

LEMMA SocketUpdate ==
  ASSUME NEW socks \in [Sockets -> SocketRecords], NEW s \in Sockets, NEW r \in SocketRecords
  PROVE  [socks EXCEPT ![s] = r] \in [Sockets -> SocketRecords] /\ socks[s] \in SocketRecords
  OBVIOUS

LEMMA TypeStep == TypeOK /\ [Next]_vars => TypeOK'
<1>. SUFFICES ASSUME TypeOK, [Next]_vars PROVE TypeOK'
  OBVIOUS
<1>s. sock \in [Sockets -> SocketRecords] /\ throttled \subseteq Keys
  BY DEF TypeOK
<1>a. \A gone : /\ Dropped(gone) \in [Sockets -> SocketRecords]
                /\ Released(gone) \in [Keys -> Sockets \cup {NoSocket}]
  BY DroppedType, ReleasedType
<1>b. InRoom \in SUBSET Sockets /\ ListedKeys \in SUBSET Keys
  BY DEF InRoom, ListedKeys
<1>c. IdleKick \in Kicks /\ IdleCron \in Crons
  BY KeysAreNumbers DEF IdleKick, Kicks, IdleCron, Crons
<1>r. ASSUME NEW s \in Sockets, Reject(s)
      PROVE  /\ sock' \in [Sockets -> SocketRecords] /\ throttled' \subseteq Keys
             /\ connected' \in [Keys -> Sockets \cup {NoSocket}]
  BY <1>r, <1>a, <1>s, ConnUpdate DEF Reject
<1>1. ASSUME NEW s \in Sockets, NEW k \in Keys, Open(s, k) PROVE TypeOK'
  <2>1. sock' \in [Sockets -> SocketRecords]
    <3>1. sock' = [sock EXCEPT ![s] = [@ EXCEPT !.link = "up", !.key = k, !.conn = "opened"]]
      BY <1>1 DEF Open
    <3>. QED
      BY <1>s, <3>1, OpenUpdate, SocketUpdate
  <2>. QED
    BY <1>1, <2>1 DEF Open, TypeOK, rowVars, mapVars, taskVars
<1>2. ASSUME NEW s \in Sockets, Find(s) PROVE TypeOK'
  <2>1. sock' \in [Sockets -> SocketRecords]
    <3>1. CASE sock' = [sock EXCEPT ![s].conn = "found"]
      BY <1>s, <3>1, ConnUpdate
    <3>. QED
      BY <1>2, <1>r, <3>1 DEF Find
  <2>. QED
    BY <1>2, <1>r, <2>1 DEF Find, TypeOK, rowVars, mapVars, taskVars
<1>3. ASSUME NEW s \in Sockets, Admit(s) PROVE TypeOK'
  <2>1. sock' \in [Sockets -> SocketRecords]
    <3>1. CASE sock' = [sock EXCEPT ![s] = [@ EXCEPT !.conn = "evicting", !.evicts = InRoom]]
      BY <1>s, <1>b, <3>1, AdmitUpdate, SocketUpdate
    <3>. QED
      BY <1>3, <1>r, <3>1 DEF Admit
  <2>. QED
    BY <1>3, <1>r, <2>1 DEF Admit, TypeOK, rowVars, mapVars, taskVars
<1>4. ASSUME NEW s \in Sockets, Join(s) PROVE TypeOK'
  <2>1. sock' \in [Sockets -> SocketRecords]
    <3>1. Dropped(sock[s].evicts) \in [Sockets -> SocketRecords]
      BY <1>a
    <3>2. Dropped(sock[s].evicts)[s] \in SocketRecords
      BY <3>1, SocketUpdate
    <3>3. [Dropped(sock[s].evicts)[s] EXCEPT !.conn = "marking", !.joined = TRUE, !.evicts = {}]
            \in SocketRecords
      BY <3>2, JoinUpdate
    <3>. QED
      BY <1>4, <3>1, <3>3, SocketUpdate DEF Join
  <2>2. connected' \in [Keys -> Sockets \cup {NoSocket}]
    BY <1>4, <1>a DEF Join
  <2>. QED
    BY <1>4, <2>1, <2>2 DEF Join, TypeOK, rowVars, taskVars
<1>5. ASSUME NEW s \in Sockets, MarkOnline(s) PROVE TypeOK'
  <2>1. sock' \in [Sockets -> SocketRecords]
    <3>1. CASE sock' = [sock EXCEPT ![s].conn = "done"]
      BY <1>s, <3>1, ConnUpdate
    <3>. QED
      BY <1>5, <1>r, <3>1 DEF MarkOnline
  <2>. QED
    BY <1>5, <1>r, <2>1 DEF MarkOnline, TypeOK, rowVars, mapVars, taskVars
<1>6. ASSUME NEW s \in Sockets, LinkLost(s) PROVE TypeOK'
  BY <1>6, <1>a DEF LinkLost, TypeOK, rowVars, taskVars
<1>7. ASSUME NEW s \in Sockets, DisconnectStep(s) PROVE TypeOK'
  <2>1. sock' \in [Sockets -> SocketRecords]
    <3>1. \/ sock' = [sock EXCEPT ![s].disc = "write"]
          \/ sock' = [sock EXCEPT ![s].disc = "done"]
      BY <1>7 DEF DisconnectStep, OfflineRead, OfflineWrite
    <3>2. CASE sock' = [sock EXCEPT ![s].disc = "write"]
      BY <1>s, <3>2, DiscUpdate
    <3>3. CASE sock' = [sock EXCEPT ![s].disc = "done"]
      BY <1>s, <3>3, DiscUpdate
    <3>. QED
      BY <3>1, <3>2, <3>3
  <2>. QED
    BY <1>7, <2>1 DEF DisconnectStep, OfflineRead, OfflineWrite, TypeOK, rowVars, mapVars, taskVars
<1>8. ASSUME NEW s \in Sockets, Beat(s) PROVE TypeOK'
  <2>1. sock' \in [Sockets -> SocketRecords]
    BY <1>8, <1>s, BeatUpdate DEF Beat
  <2>. QED
    BY <1>8, <2>1 DEF Beat, TypeOK, rowVars, mapVars, taskVars
<1>9. ASSUME NEW s \in Sockets, BeatCheck(s) PROVE TypeOK'
  <2>1. sock[s].key \in Keys
    BY <1>s DEF SocketRecords
  <2>2. sock' \in [Sockets -> SocketRecords]
    <3>1. \/ sock' = [Dropped({s}) EXCEPT ![s].beat = "none"]
          \/ sock' = [sock EXCEPT ![s].beat = "none"]
          \/ sock' = [sock EXCEPT ![s].beat = "writing"]
      BY <1>9 DEF BeatCheck
    <3>2. CASE sock' = [Dropped({s}) EXCEPT ![s].beat = "none"]
      BY <1>a, <3>2, BeatUpdate
    <3>3. CASE sock' = [sock EXCEPT ![s].beat = "none"]
      BY <1>s, <3>3, BeatUpdate
    <3>4. CASE sock' = [sock EXCEPT ![s].beat = "writing"]
      BY <1>s, <3>4, BeatUpdate
    <3>. QED
      BY <3>1, <3>2, <3>3, <3>4
  <2>3. connected' \in [Keys -> Sockets \cup {NoSocket}] /\ throttled' \subseteq Keys
    BY <1>9, <1>a, <2>1 DEF BeatCheck, TypeOK
  <2>. QED
    BY <1>9, <2>2, <2>3 DEF BeatCheck, TypeOK, rowVars, taskVars
<1>10. ASSUME NEW s \in Sockets, BeatWrite(s) PROVE TypeOK'
  <2>1. sock' \in [Sockets -> SocketRecords]
    BY <1>10, <1>s, BeatUpdate DEF BeatWrite
  <2>. QED
    BY <1>10, <2>1 DEF BeatWrite, TypeOK, mapVars, taskVars
<1>11. ASSUME NEW k \in Keys, ThrottleEnds(k) PROVE TypeOK'
  BY <1>11 DEF ThrottleEnds, TypeOK, rowVars, taskVars
<1>12. CASE Regenerate
  <2>1. key' \in Keys
    BY <1>12, BoundsAssumption DEF Regenerate, Keys, TypeOK
  <2>2. regen' \in Kicks
    BY <1>12 DEF Regenerate, Kicks, TypeOK
  <2>. QED
    BY <1>12, <2>1, <2>2 DEF Regenerate, TypeOK, mapVars
<1>13. CASE RegenStep
  <2>1. regen' \in Kicks
    BY <1>13, <1>b, <1>c DEF RegenStep, RegenFetch, RegenKick, Kicks, TypeOK
  <2>. QED
    BY <1>13, <1>a, <2>1 DEF RegenStep, RegenFetch, RegenKick, TypeOK, rowVars, mapVars
<1>14. CASE EnforceStep
  <2>1. enforce' \in Kicks /\ enforce.key \in Keys
    BY <1>14, <1>b, <1>c
       DEF EnforceStep, EnforceRead, EnforceCheck, EnforceKick, EnforceWrite, Kicks, TypeOK
  <2>2. CASE EnforceKick
    BY <2>1, <2>2, <1>a DEF EnforceKick, TypeOK, rowVars
  <2>. QED
    BY <1>14, <2>1, <2>2
       DEF EnforceStep, EnforceRead, EnforceCheck, EnforceWrite, TypeOK, rowVars, mapVars
<1>15. CASE SyncStep
  <2>1. syncing' \in Crons
    <3>1. CASE SyncStart
      BY <3>1, <1>b DEF SyncStart, Crons
    <3>2. CASE SyncWrite
      BY <3>2, <1>c DEF SyncWrite
    <3>. QED
      BY <1>15, <3>1, <3>2 DEF SyncStep
  <2>. QED
    BY <1>15, <2>1 DEF SyncStep, SyncStart, SyncWrite, TypeOK, rowVars, mapVars
<1>16. CASE SweepStep
  <2>1. sweeping' \in Crons
    <3>1. CASE SweepStart
      BY <3>1, <1>b DEF SweepStart, Crons
    <3>2. CASE SweepWrite
      BY <3>2, <1>c DEF SweepWrite
    <3>. QED
      BY <1>16, <3>1, <3>2 DEF SweepStep
  <2>. QED
    BY <1>16, <2>1 DEF SweepStep, SweepStart, SweepWrite, TypeOK, rowVars, mapVars
<1>17. CASE Age \/ PlanChanges
  BY <1>17 DEF Age, PlanChanges, TypeOK, rowVars, mapVars, taskVars
<1>18. CASE Restart
  <2>1. sock' \in [Sockets -> SocketRecords]
    <3>1. ASSUME NEW s \in Sockets
          PROVE  [sock[s] EXCEPT !.link = "down", !.conn = "done", !.evicts = {},
                                 !.disc = "done", !.beat = "none"] \in SocketRecords
      <4>1. sock[s] \in SocketRecords
        BY <1>s
      <4>. QED
        BY <4>1 DEF SocketRecords
    <3>. QED
      BY <1>18, <1>s, <3>1 DEF Restart
  <2>2. restarts' \in 0..MaxRestarts
    <3>1. restarts \in 0..MaxRestarts
      BY DEF TypeOK
    <3>2. restarts < MaxRestarts /\ restarts' = restarts + 1
      BY <1>18 DEF Restart
    <3>. QED
      BY <3>1, <3>2, BoundsAssumption
  <2>3. connected' \in [Keys -> Sockets \cup {NoSocket}]
    BY <1>18 DEF Restart
  <2>. QED
    BY <1>18, <1>c, <2>1, <2>2, <2>3 DEF Restart, TypeOK, rowVars
<1>19. CASE UNCHANGED vars
  BY <1>19 DEF vars, TypeOK, rowVars, mapVars, taskVars
<1>. QED
  BY <1>1, <1>2, <1>3, <1>4, <1>5, <1>6, <1>7, <1>8, <1>9, <1>10, <1>11, <1>12,
     <1>13, <1>14, <1>15, <1>16, <1>17, <1>18, <1>19
     DEF Next, ConnectionStep, HeartbeatStep

-----------------------------------------------------------------------------
(* The invariant                                                           *)

LEMMA InitInvariant == Init => IInv
<1>1. Init => TypeOK
  BY TypeInit
<1>2. ASSUME Init, TypeOK PROVE Handshake /\ OwnerIsAlive /\ OldKeyIsOut
  BY <1>2 DEF Init, NewSocket, Handshake, Early, OwnerIsAlive, OldKeyIsOut, InRoom, Up
<1>3. ASSUME Init PROVE SyncedKeys /\ OnlineByCurrentKey
  BY <1>3 DEF Init, IdleCron, SyncedKeys, OnlineByCurrentKey
<1>. QED
  BY <1>1, <1>2, <1>3 DEF IInv

\* The updates of the sockets that the steps make.
Falls(gone)  == sock' = Dropped(gone)
Opens(s)     == /\ sock[s].link = "new"
                /\ \E k \in Keys : sock' = [sock EXCEPT
                     ![s] = [@ EXCEPT !.link = "up", !.key = k, !.conn = "opened"]]
Rejected(s)  == /\ sock[s].conn # "none"
                /\ sock' = [Dropped({s}) EXCEPT ![s].conn = "done"]
Found(s)     == sock[s].conn = "opened" /\ sock' = [sock EXCEPT ![s].conn = "found"]
Evicts(s)    == /\ sock[s].conn = "found"
                /\ sock' = [sock EXCEPT ![s] = [@ EXCEPT !.conn = "evicting", !.evicts = InRoom]]
Joins(s)     == /\ sock[s].conn = "evicting"
                /\ sock' = [Dropped(sock[s].evicts) EXCEPT
                     ![s] = [@ EXCEPT !.conn = "marking", !.joined = TRUE, !.evicts = {}]]
Marked(s)    == /\ sock[s].conn = "marking" /\ sock[s].key = key /\ key' = key
                /\ sock' = [sock EXCEPT ![s].conn = "done"]
Disconnects(s) == /\ sock[s].disc # "none"
                  /\ \E d \in {"write", "done"} : sock' = [sock EXCEPT ![s].disc = d]
Beats(s)     == /\ sock[s].joined
                /\ \E b \in {"none", "checking", "writing"} : sock' = [sock EXCEPT ![s].beat = b]
Refused(s)   == sock' = [Dropped({s}) EXCEPT ![s].beat = "none"]
Restarted    == sock' = [s \in Sockets |->
                  IF sock[s].link = "new" THEN sock[s]
                  ELSE [sock[s] EXCEPT !.link = "down", !.conn = "done", !.evicts = {},
                                       !.disc = "done", !.beat = "none"]]

LEMMA SocketSteps ==
  ASSUME TypeOK, Handshake, [Next]_vars
  PROVE  \/ sock' = sock \/ (\E gone : Falls(gone)) \/ Restarted
         \/ \E s \in Sockets :
              \/ Opens(s) \/ Rejected(s) \/ Found(s) \/ Evicts(s) \/ Joins(s)
              \/ Marked(s) \/ Disconnects(s) \/ Beats(s) \/ Refused(s)
<1>1. ASSUME NEW s \in Sockets, NEW k \in Keys, Open(s, k) PROVE Opens(s)
  BY <1>1 DEF Open, Opens
<1>2. ASSUME NEW s \in Sockets, ConnectionStep(s)
      PROVE  Rejected(s) \/ Found(s) \/ Evicts(s) \/ Joins(s) \/ Marked(s)
  BY <1>2 DEF ConnectionStep, Find, Admit, Join, MarkOnline, Reject,
              Rejected, Found, Evicts, Joins, Marked, rowVars
<1>3. ASSUME NEW s \in Sockets, DisconnectStep(s) PROVE Disconnects(s)
  BY <1>3 DEF DisconnectStep, OfflineRead, OfflineWrite, Disconnects
<1>4. ASSUME NEW s \in Sockets, HeartbeatStep(s) \/ Beat(s) PROVE Beats(s) \/ Refused(s)
  <2>1. CASE Beat(s)
    BY <2>1 DEF Beat, Beats, InRoom
  <2>2. CASE BeatWrite(s)
    BY <2>2 DEF BeatWrite, Beats, Handshake
  <2>3. CASE BeatCheck(s)
    BY <2>3 DEF BeatCheck, Beats, Refused, Handshake
  <2>. QED
    BY <1>4, <2>1, <2>2, <2>3 DEF HeartbeatStep
<1>5. ASSUME NEW s \in Sockets, LinkLost(s) PROVE Falls({s})
  BY <1>5 DEF LinkLost, Falls
<1>6. CASE RegenStep \/ EnforceStep
  BY <1>6 DEF RegenStep, RegenFetch, RegenKick, EnforceStep, EnforceRead, EnforceCheck,
              EnforceKick, EnforceWrite, Falls
<1>7. CASE Restart
  BY <1>7 DEF Restart, Restarted
<1>8. CASE \/ (\E k \in Keys : ThrottleEnds(k)) \/ Regenerate \/ SyncStep \/ SweepStep
           \/ Age \/ PlanChanges \/ UNCHANGED vars
  BY <1>8 DEF ThrottleEnds, Regenerate, SyncStep, SyncStart, SyncWrite, SweepStep,
              SweepStart, SweepWrite, Age, PlanChanges, vars
<1>. QED
  BY <1>1, <1>2, <1>3, <1>4, <1>5, <1>6, <1>7, <1>8 DEF Next

\* Handshake, of one socket.
HandshakeOf(t) ==
  /\ sock[t].conn \in Early => ~sock[t].joined /\ sock[t].disc = "none"
  /\ sock[t].link = "new" => sock[t].conn = "none"
  /\ sock[t].conn = "marking" \/ sock[t].beat # "none" => sock[t].joined

\* What a step may do to a socket: an authenticated one stays so, with its key;
\* it enters the room with Join and ends its handshake there with MarkOnline.
SocketStep(t) ==
  /\ sock[t].joined => sock'[t].joined /\ sock'[t].key = sock[t].key
  /\ HandshakeOf(t)'
  /\ sock'[t].joined /\ sock'[t].link = "up" =>
       (sock[t].joined /\ sock[t].link = "up") \/ sock'[t].conn = "marking"
  /\ sock'[t].conn = "done" /\ sock'[t].link = "up" =>
       sock[t].conn = "done" \/ (sock[t].key = key /\ key' = key)

LEMMA EachSocketSteps ==
  ASSUME TypeOK, Handshake, [Next]_vars, NEW t \in Sockets
  PROVE  SocketStep(t)
<1>s. sock \in [Sockets -> SocketRecords] /\ HandshakeOf(t)
  BY DEF TypeOK, Handshake, HandshakeOf
<1>d. ASSUME NEW gone
      PROVE  /\ Dropped(gone) \in [Sockets -> SocketRecords]
             /\ Dropped(gone)[t].key = sock[t].key
             /\ Dropped(gone)[t].joined = sock[t].joined
             /\ Dropped(gone)[t].conn = sock[t].conn
             /\ Dropped(gone)[t].beat = sock[t].beat
             /\ Dropped(gone)[t].link = "new" => sock[t].link = "new"
             /\ Dropped(gone)[t].link = "up" => sock[t].link = "up" /\ t \notin gone
             /\ ~sock[t].joined /\ sock[t].disc = "none" => Dropped(gone)[t].disc = "none"
  BY DroppedFields, DroppedType DEF Up
<1>. USE DEF SocketStep, HandshakeOf, Early
<1>1. CASE sock' = sock
  BY <1>1, <1>s
<1>2. ASSUME NEW gone, Falls(gone) PROVE SocketStep(t)
  BY <1>2, <1>s, <1>d DEF Falls
<1>3. CASE Restarted
  BY <1>3, <1>s DEF Restarted, SocketRecords
<1>4. ASSUME NEW s \in Sockets, Opens(s) PROVE SocketStep(t)
  <2>1. PICK k \in Keys : sock' = [sock EXCEPT
                     ![s] = [@ EXCEPT !.link = "up", !.key = k, !.conn = "opened"]]
    BY <1>4 DEF Opens
  <2>2. CASE t = s
    BY <1>4, <2>1, <2>2, <1>s DEF Opens, SocketRecords
  <2>3. CASE t # s
    <3>1. sock'[t] = sock[t]
      BY <2>1, <2>3, <1>s
    <3>. QED
      BY <3>1, <1>s
  <2>. QED
    BY <2>2, <2>3
<1>5. ASSUME NEW s \in Sockets, Rejected(s) PROVE SocketStep(t)
  BY <1>5, <1>s, <1>d DEF Rejected, SocketRecords
<1>6. ASSUME NEW s \in Sockets, Found(s) PROVE SocketStep(t)
  BY <1>6, <1>s DEF Found, SocketRecords
<1>7. ASSUME NEW s \in Sockets, Evicts(s) PROVE SocketStep(t)
  BY <1>7, <1>s DEF Evicts, SocketRecords
<1>8. ASSUME NEW s \in Sockets, Joins(s) PROVE SocketStep(t)
  <2>. DEFINE D == Dropped(sock[s].evicts)
  <2>2. D \in [Sockets -> SocketRecords]
    BY <1>d
  <2>3. CASE t = s
    <3>1. sock'[t] = [D[t] EXCEPT !.conn = "marking", !.joined = TRUE, !.evicts = {}]
      BY <1>8, <2>2, <2>3 DEF Joins
    <3>2. /\ sock'[t].conn = "marking" /\ sock'[t].joined
          /\ sock'[t].key = D[t].key /\ sock'[t].link = D[t].link
      BY <2>2, <3>1 DEF SocketRecords
    <3>. QED
      BY <1>8, <1>s, <1>d, <2>3, <3>2 DEF Joins
  <2>4. CASE t # s
    <3>1. sock'[t] = D[t]
      BY <1>8, <2>2, <2>4 DEF Joins
    <3>. QED
      BY <1>s, <1>d, <3>1
  <2>. QED
    BY <2>3, <2>4
<1>9. ASSUME NEW s \in Sockets, Marked(s) PROVE SocketStep(t)
  BY <1>9, <1>s DEF Marked, SocketRecords
<1>10. ASSUME NEW s \in Sockets, Disconnects(s) PROVE SocketStep(t)
  <2>1. PICK d \in {"write", "done"} : sock' = [sock EXCEPT ![s].disc = d]
    BY <1>10 DEF Disconnects
  <2>2. CASE t = s
    BY <1>10, <2>1, <2>2, <1>s DEF Disconnects, SocketRecords
  <2>. QED
    BY <2>1, <2>2, <1>s
<1>11. ASSUME NEW s \in Sockets, Beats(s) PROVE SocketStep(t)
  <2>1. PICK b \in {"none", "checking", "writing"} : sock' = [sock EXCEPT ![s].beat = b]
    BY <1>11 DEF Beats
  <2>. QED
    BY <1>11, <2>1, <1>s DEF Beats, SocketRecords
<1>12. ASSUME NEW s \in Sockets, Refused(s) PROVE SocketStep(t)
  <2>1. CASE t = s
    BY <1>12, <2>1, <1>s, <1>d DEF Refused, SocketRecords
  <2>. QED
    BY <1>12, <2>1, <1>s, <1>d DEF Refused
<1>. QED
  BY <1>1, <1>2, <1>3, <1>4, <1>5, <1>6, <1>7, <1>8, <1>9, <1>10, <1>11, <1>12, SocketSteps

LEMMA HandshakeStep == TypeOK /\ Handshake /\ [Next]_vars => Handshake'
  BY EachSocketSteps DEF SocketStep, Handshake, HandshakeOf

LEMMA SyncedStep == IInv /\ [Next]_vars => SyncedKeys'
<1>. SUFFICES ASSUME IInv, [Next]_vars, NEW k \in syncing'.keys
              PROVE  \E s \in Sockets : sock'[s].joined /\ sock'[s].key = k
  BY DEF SyncedKeys
<1>1. \/ k \in syncing.keys
      \/ syncing' = [on |-> TRUE, keys |-> ListedKeys]
      \/ syncing' = IdleCron
  <2>1. ASSUME NEW s \in Sockets, \/ ConnectionStep(s) \/ DisconnectStep(s)
                                  \/ HeartbeatStep(s) \/ Beat(s) \/ LinkLost(s)
        PROVE  syncing' = syncing
    BY <2>1 DEF ConnectionStep, Find, Admit, Join, MarkOnline, DisconnectStep, OfflineRead,
                OfflineWrite, HeartbeatStep, BeatCheck, BeatWrite, Beat, LinkLost, taskVars
  <2>2. ASSUME NEW s \in Sockets, NEW j \in Keys, Open(s, j) \/ ThrottleEnds(j)
        PROVE  syncing' = syncing
    BY <2>2 DEF Open, ThrottleEnds, taskVars
  <2>3. CASE \/ Regenerate \/ RegenStep \/ EnforceStep \/ SweepStep
             \/ Age \/ PlanChanges \/ UNCHANGED vars
    BY <2>3 DEF Regenerate, RegenStep, RegenFetch, RegenKick, EnforceStep, EnforceRead,
                EnforceCheck, EnforceKick, EnforceWrite, SweepStep, SweepStart, SweepWrite,
                Age, PlanChanges, vars, taskVars
  <2>4. CASE SyncStep \/ Restart
    BY <2>4 DEF SyncStep, SyncStart, SyncWrite, Restart
  <2>. QED
    BY <2>1, <2>2, <2>3, <2>4 DEF Next, ThrottleEnds, taskVars
<1>2. CASE \E s \in Sockets : sock[s].joined /\ sock[s].key = k
  BY <1>2, EachSocketSteps DEF IInv, SocketStep
<1>3. CASE k \in syncing.keys
  BY <1>2, <1>3 DEF IInv, SyncedKeys
<1>4. CASE syncing' = [on |-> TRUE, keys |-> ListedKeys]
  <2>1. k \in Keys /\ connected[k] # NoSocket
    BY <1>4 DEF ListedKeys
  <2>2. connected[k] \in Sockets
    BY <2>1 DEF IInv, TypeOK
  <2>. QED
    BY <1>2, <2>1, <2>2 DEF IInv, OwnerIsAlive
<1>5. CASE syncing' = IdleCron
  BY <1>5 DEF IdleCron
<1>. QED
  BY <1>1, <1>3, <1>4, <1>5

LEMMA OnlineStep == IInv /\ [Next]_vars => OnlineByCurrentKey'
<1>. SUFFICES ASSUME IInv, [Next]_vars, status' = "ONLINE"
              PROVE  \E s \in Sockets : sock'[s].joined /\ sock'[s].key = key'
  BY DEF OnlineByCurrentKey
<1>1. CASE \E s \in Sockets : sock[s].joined /\ sock[s].key = key /\ key' = key
  BY <1>1, EachSocketSteps DEF IInv, SocketStep
<1>2. CASE status = "ONLINE" /\ key' = key
  BY <1>1, <1>2 DEF IInv, OnlineByCurrentKey
<1>3. ASSUME NEW s \in Sockets, ConnectionStep(s)
      PROVE  /\ key' = key
             /\ status' = status \/ (sock[s].joined /\ sock[s].key = key)
  <2>1. CASE MarkOnline(s)
    BY <2>1 DEF MarkOnline, rowVars, IInv, Handshake
  <2>. QED
    BY <1>3, <2>1 DEF ConnectionStep, Find, Admit, Join, rowVars
<1>4. ASSUME NEW s \in Sockets, HeartbeatStep(s)
      PROVE  /\ key' = key
             /\ status' = status \/ (sock[s].joined /\ sock[s].key = key)
  <2>1. CASE BeatWrite(s)
    BY <2>1 DEF BeatWrite, IInv, Handshake
  <2>. QED
    BY <1>4, <2>1 DEF HeartbeatStep, BeatCheck, rowVars
<1>5. ASSUME NEW s \in Sockets, DisconnectStep(s) \/ Beat(s) \/ LinkLost(s)
      PROVE  status = "ONLINE" /\ key' = key
  BY <1>5 DEF DisconnectStep, OfflineRead, OfflineWrite, Beat, LinkLost, rowVars
<1>6. ASSUME NEW s \in Sockets, NEW k \in Keys, Open(s, k) PROVE status = "ONLINE" /\ key' = key
  BY <1>6 DEF Open, rowVars
<1>7. CASE SyncStep
  <2>1. CASE SyncStart
    BY <1>2, <2>1 DEF SyncStart, rowVars
  <2>2. CASE SyncWrite
    BY <1>1, <1>2, <2>2 DEF SyncWrite, IInv, SyncedKeys
  <2>. QED
    BY <1>7, <2>1, <2>2 DEF SyncStep
<1>8. CASE \/ RegenStep \/ EnforceStep \/ SweepStep \/ (\E k \in Keys : ThrottleEnds(k))
           \/ Age \/ PlanChanges \/ Restart \/ UNCHANGED vars
  <2>1. status = "ONLINE" /\ key' = key
    BY <1>8 DEF RegenStep, RegenFetch, RegenKick, EnforceStep, EnforceRead, EnforceCheck,
                EnforceKick, EnforceWrite, SweepStep, SweepStart, SweepWrite, ThrottleEnds,
                Age, PlanChanges, Restart, vars, rowVars
  <2>. QED
    BY <1>2, <2>1
<1>9. CASE Regenerate
  BY <1>9 DEF Regenerate
<1>. QED
  BY <1>1, <1>2, <1>3, <1>4, <1>5, <1>6, <1>7, <1>8, <1>9 DEF Next

\* The entry of the map for a key, after the step.
Sound(k) ==
  /\ sock[connected[k]].joined /\ sock[connected[k]].key = k
  /\ Up(connected[k]) \/ sock[connected[k]].disc = "none"

LEMMA OwnerStep == IInv /\ [Next]_vars => OwnerIsAlive'
<1>. SUFFICES ASSUME IInv, [Next]_vars, NEW k \in Keys, connected'[k] # NoSocket
              PROVE  Sound(k)'
  BY DEF OwnerIsAlive, Sound
<1>. DEFINE t == connected[k]
<1>t. TypeOK /\ Handshake /\ OwnerIsAlive
  BY DEF IInv
<1>s. sock \in [Sockets -> SocketRecords] /\ connected \in [Keys -> Sockets \cup {NoSocket}]
  BY <1>t DEF TypeOK
<1>o. ASSUME t # NoSocket PROVE t \in Sockets /\ Sound(k)
  BY <1>s, <1>t, <1>o DEF OwnerIsAlive, Sound
\* An entry that stays, of a socket that is up after the step or whose
\* transport and disconnection handler do not move.
<1>e. ASSUME t # NoSocket, connected'[k] = t,
             \/ sock'[t].link = "up"
             \/ sock'[t].link = sock[t].link /\ sock'[t].disc = sock[t].disc
      PROVE  Sound(k)'
  <2>1. sock'[t].joined /\ sock'[t].key = k
    BY <1>t, <1>o, <1>e, EachSocketSteps DEF SocketStep, Sound
  <2>. QED
    BY <1>o, <1>e, <2>1 DEF Sound, Up
\* Sockets are disconnected, and perhaps the handler of one of them ends.
<1>d. ASSUME NEW gone, t # NoSocket, connected'[k] = Released(gone)[k],
             sock'[t].link = Dropped(gone)[t].link, sock'[t].disc = Dropped(gone)[t].disc
      PROVE  Sound(k)'
  <2>1. connected'[k] = t /\ ~(t \in gone /\ Up(t))
    BY <1>t, <1>d, ReleasedFields
  <2>2. Dropped(gone)[t] = sock[t]
    BY <1>t, <1>o, <1>d, <2>1, DroppedFields
  <2>. QED
    BY <1>d, <1>e, <2>1, <2>2
<1>n. ASSUME NEW gone, connected'[k] = Released(gone)[k] PROVE t # NoSocket
  BY <1>n, <1>t, ReleasedFields
<1>f. \A gone : Dropped(gone) \in [Sockets -> SocketRecords]
  BY <1>t, DroppedType
<1>r. ASSUME NEW s \in Sockets, Reject(s) PROVE Sound(k)'
  <2>1. t # NoSocket /\ connected'[k] = Released({s})[k]
    BY <1>r, <1>n DEF Reject
  <2>2. /\ sock'[t].link = Dropped({s})[t].link
        /\ sock'[t].disc = Dropped({s})[t].disc
    BY <1>r, <1>f, <1>o, <2>1 DEF Reject, SocketRecords
  <2>. QED
    BY <1>d, <2>1, <2>2
<1>1. ASSUME NEW s \in Sockets, NEW j \in Keys, Open(s, j) PROVE Sound(k)'
  <2>1. connected' = connected
    BY <1>1 DEF Open, mapVars
  <2>2. t # s
    BY <1>1, <1>t, <1>o, <2>1 DEF Open, Handshake, Early, Sound
  <2>3. sock'[t] = sock[t]
    BY <1>1, <1>s, <1>o, <2>1, <2>2 DEF Open
  <2>. QED
    BY <1>e, <2>1, <2>3
<1>2. ASSUME NEW s \in Sockets, Find(s) \/ Admit(s) \/ MarkOnline(s) PROVE Sound(k)'
  <2>1. CASE connected' = connected
    <3>1. \/ sock' = [sock EXCEPT ![s].conn = "found"]
          \/ sock' = [sock EXCEPT ![s] = [@ EXCEPT !.conn = "evicting", !.evicts = InRoom]]
          \/ sock' = [sock EXCEPT ![s].conn = "done"]
          \/ Reject(s)
      BY <1>2 DEF Find, Admit, MarkOnline
    <3>2. CASE ~Reject(s)
      <4>1. sock'[t].link = sock[t].link /\ sock'[t].disc = sock[t].disc
        <5>1. CASE sock' = [sock EXCEPT ![s].conn = "found"]
          BY <1>s, <1>o, <2>1, <5>1 DEF SocketRecords
        <5>2. CASE sock' = [sock EXCEPT ![s] = [@ EXCEPT !.conn = "evicting", !.evicts = InRoom]]
          BY <1>s, <1>o, <2>1, <5>2 DEF SocketRecords
        <5>3. CASE sock' = [sock EXCEPT ![s].conn = "done"]
          BY <1>s, <1>o, <2>1, <5>3 DEF SocketRecords
        <5>. QED
          BY <3>1, <3>2, <5>1, <5>2, <5>3
      <4>. QED
        BY <1>e, <2>1, <4>1
    <3>. QED
      BY <1>r, <3>2
  <2>2. connected' = connected \/ Reject(s)
    BY <1>2 DEF Find, Admit, MarkOnline, mapVars
  <2>. QED
    BY <1>r, <2>1, <2>2
<1>3. ASSUME NEW s \in Sockets, Join(s) PROVE Sound(k)'
  <2>. DEFINE D == Dropped(sock[s].evicts)
  <2>1. /\ sock' = [D EXCEPT ![s] = [@ EXCEPT !.conn = "marking", !.joined = TRUE, !.evicts = {}]]
        /\ connected' = [Released(sock[s].evicts) EXCEPT ![sock[s].key] = s]
    BY <1>3 DEF Join
  <2>2. D \in [Sockets -> SocketRecords]
    BY <1>f
  <2>3. Released(sock[s].evicts) \in [Keys -> Sockets \cup {NoSocket}]
    BY <1>t, ReleasedType
  <2>4. CASE k = sock[s].key
    <3>1. connected'[k] = s
      BY <2>1, <2>3, <2>4
    <3>2. sock'[s] = [D[s] EXCEPT !.conn = "marking", !.joined = TRUE, !.evicts = {}]
      BY <2>1, <2>2
    <3>3. sock'[s].joined /\ sock'[s].key = D[s].key /\ sock'[s].disc = D[s].disc
      BY <2>2, <3>2 DEF SocketRecords
    <3>4. D[s].key = k /\ D[s].disc = "none"
      BY <1>3, <1>t, <2>4, DroppedFields DEF Join, Handshake, Early
    <3>. QED
      BY <3>1, <3>3, <3>4 DEF Sound
  <2>5. CASE k # sock[s].key
    <3>1. connected'[k] = Released(sock[s].evicts)[k]
      BY <2>1, <2>3, <2>5
    <3>2. t # NoSocket
      BY <1>n, <3>1
    <3>3. sock'[t].link = D[t].link /\ sock'[t].disc = D[t].disc
      BY <1>o, <2>1, <2>2, <3>2 DEF SocketRecords
    <3>. QED
      BY <1>d, <3>1, <3>2, <3>3
  <2>. QED
    BY <2>4, <2>5
<1>4. ASSUME NEW s \in Sockets, DisconnectStep(s) PROVE Sound(k)'
  <2>1. /\ connected' = connected /\ sock[s].disc # "none"
        /\ \E d : sock' = [sock EXCEPT ![s].disc = d]
    BY <1>4 DEF DisconnectStep, OfflineRead, OfflineWrite, mapVars
  <2>2. sock'[t].link = sock[t].link
    BY <1>s, <1>o, <2>1 DEF SocketRecords
  <2>3. CASE t = s
    BY <1>o, <1>e, <2>1, <2>2, <2>3 DEF Sound, Up
  <2>4. CASE t # s
    BY <1>s, <1>o, <1>e, <2>1, <2>2, <2>4
  <2>. QED
    BY <2>3, <2>4
<1>5. ASSUME NEW s \in Sockets, HeartbeatStep(s) \/ Beat(s) PROVE Sound(k)'
  <2>1. CASE connected' = connected /\ \E b : sock' = [sock EXCEPT ![s].beat = b]
    <3>1. sock'[t].link = sock[t].link /\ sock'[t].disc = sock[t].disc
      BY <1>s, <1>o, <2>1 DEF SocketRecords
    <3>. QED
      BY <1>e, <2>1, <3>1
  <2>2. CASE connected' = Released({s}) /\ sock' = [Dropped({s}) EXCEPT ![s].beat = "none"]
    <3>1. t # NoSocket
      BY <1>n, <2>2
    <3>2. sock'[t].link = Dropped({s})[t].link /\ sock'[t].disc = Dropped({s})[t].disc
      BY <1>f, <1>o, <2>2, <3>1 DEF SocketRecords
    <3>. QED
      BY <1>d, <2>2, <3>1, <3>2
  <2>. QED
    BY <1>5, <2>1, <2>2 DEF HeartbeatStep, BeatCheck, BeatWrite, Beat, mapVars
<1>6. ASSUME NEW s \in Sockets, LinkLost(s) PROVE Sound(k)'
  BY <1>6, <1>n, <1>d DEF LinkLost
<1>7. CASE RegenStep
  <2>1. CASE RegenKick
    BY <1>n, <1>d, <2>1 DEF RegenKick
  <2>. QED
    BY <1>7, <1>e, <2>1 DEF RegenStep, RegenFetch, mapVars
<1>8. CASE EnforceStep
  <2>1. CASE EnforceKick
    <3>1. connected'[k] = Released(enforce.evicts)[k]
      BY <1>t, <2>1, ReleasedType DEF EnforceKick
    <3>. QED
      BY <1>n, <1>d, <2>1, <3>1 DEF EnforceKick
  <2>. QED
    BY <1>8, <1>e, <2>1 DEF EnforceStep, EnforceRead, EnforceCheck, EnforceWrite, mapVars
<1>9. CASE Restart
  BY <1>9 DEF Restart
<1>10. CASE \/ (\E j \in Keys : ThrottleEnds(j)) \/ Regenerate \/ SyncStep \/ SweepStep
            \/ Age \/ PlanChanges \/ UNCHANGED vars
  <2>1. connected' = connected /\ sock' = sock
    BY <1>10 DEF ThrottleEnds, Regenerate, SyncStep, SyncStart, SyncWrite, SweepStep,
                 SweepStart, SweepWrite, Age, PlanChanges, vars, mapVars
  <2>. QED
    BY <1>e, <2>1
<1>. QED
  BY <1>1, <1>2, <1>3, <1>4, <1>5, <1>6, <1>7, <1>8, <1>9, <1>10 DEF Next, ConnectionStep

LEMMA OldKeyStep == IInv /\ [Next]_vars => OldKeyIsOut'
<1>. SUFFICES ASSUME IInv, [Next]_vars, NEW t \in Sockets,
                     sock'[t].joined, sock'[t].link = "up", sock'[t].conn = "done",
                     sock'[t].key # key'
              PROVE  \/ regen'.pc = "fetching"
                     \/ regen'.pc = "kicking" /\ t \in regen'.evicts
  BY DEF OldKeyIsOut, InRoom, Up
<1>t. TypeOK /\ Handshake /\ OldKeyIsOut
  BY DEF IInv
<1>s. sock \in [Sockets -> SocketRecords] /\ regen \in Kicks
  BY <1>t DEF TypeOK
<1>1. t \in InRoom /\ sock'[t].key = sock[t].key /\ sock[t].conn = "done"
  BY <1>t, EachSocketSteps DEF SocketStep, InRoom, Up
<1>2. CASE key' = key /\ regen' = regen
  BY <1>t, <1>1, <1>2 DEF OldKeyIsOut
<1>3. CASE Regenerate
  BY <1>s, <1>3 DEF Regenerate, Kicks
<1>4. CASE RegenFetch
  BY <1>s, <1>1, <1>4 DEF RegenFetch, Kicks
<1>5. CASE RegenKick
  <2>1. t \notin regen.evicts
    BY <1>t, <1>5, DroppedFields DEF RegenKick
  <2>. QED
    BY <1>t, <1>1, <1>5, <2>1 DEF OldKeyIsOut, RegenKick, rowVars
<1>6. CASE Restart
  BY <1>s, <1>6 DEF Restart, SocketRecords
<1>7. CASE \E s \in Sockets, k \in Keys : Open(s, k) \/ ThrottleEnds(k)
  BY <1>2, <1>7 DEF Open, ThrottleEnds, rowVars, taskVars
<1>8. CASE \E s \in Sockets : \/ ConnectionStep(s) \/ DisconnectStep(s) \/ HeartbeatStep(s)
                              \/ Beat(s) \/ LinkLost(s)
  BY <1>2, <1>8 DEF ConnectionStep, Find, Admit, Join, MarkOnline, DisconnectStep,
       OfflineRead, OfflineWrite, HeartbeatStep, BeatCheck, BeatWrite, Beat, LinkLost,
       rowVars, taskVars
<1>9. CASE EnforceStep \/ SyncStep \/ SweepStep \/ Age \/ PlanChanges \/ UNCHANGED vars
  BY <1>2, <1>9 DEF EnforceStep, EnforceRead, EnforceCheck, EnforceKick, EnforceWrite,
       SyncStep, SyncStart, SyncWrite, SweepStep, SweepStart, SweepWrite, Age, PlanChanges,
       vars, rowVars, taskVars
<1>. QED
  BY <1>3, <1>4, <1>5, <1>6, <1>7, <1>8, <1>9 DEF Next, RegenStep, ThrottleEnds

-----------------------------------------------------------------------------
(* The theorems                                                            *)

LEMMA InvariantStep == IInv /\ [Next]_vars => IInv'
<1>. SUFFICES ASSUME IInv, [Next]_vars PROVE IInv'
  OBVIOUS
<1>1. TypeOK' /\ Handshake'
  BY TypeStep, HandshakeStep DEF IInv
<1>. QED
  BY <1>1, OwnerStep, SyncedStep, OnlineStep, OldKeyStep DEF IInv

\* The inductive invariant holds in every behaviour of the handlers.
THEOREM Invariant == Spec => []IInv
  BY InitInvariant, InvariantStep, PTL DEF Spec

\* Type correctness of the handlers' state.
THEOREM TypeCorrect == Spec => []TypeOK
<1>1. IInv => TypeOK
  BY DEF IInv
<1>. QED
  BY <1>1, Invariant, PTL

\* Once regenerateKey is over, no session of an old key is left, for any
\* number of connections and of regenerations.
THEOREM OldKeysAreOut == Spec => []OldKeyIsOut
<1>1. IInv => OldKeyIsOut
  BY DEF IInv
<1>. QED
  BY <1>1, Invariant, PTL

\* Handshakes, heartbeats and the cron job set a row ONLINE only for a client
\* that has authenticated with the key the row has now.
THEOREM OnlineNeedsCurrentKey == Spec => []OnlineByCurrentKey
<1>1. IInv => OnlineByCurrentKey
  BY DEF IInv
<1>. QED
  BY <1>1, Invariant, PTL

\* connectedAgents lists no socket whose disconnection has been handled.
THEOREM OwnersAreAlive == Spec => []OwnerIsAlive
<1>1. IInv => OwnerIsAlive
  BY DEF IInv
<1>. QED
  BY <1>1, Invariant, PTL
=============================================================================
