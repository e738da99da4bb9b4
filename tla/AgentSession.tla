---------------------------- MODULE AgentSession ----------------------------
(***************************************************************************)
(* The presence of one agent: its row (agentKey, status, lastSeenAt), the  *)
(* in-memory map connectedAgents from agent keys to the socket that owns   *)
(* the session, the Socket.IO room of the agent, and everything that       *)
(* changes them: the connection, disconnection and heartbeat handlers of   *)
(* the gateway, key regeneration and three cron jobs.                      *)
(*                                                                         *)
(* A handler is cut at its awaits; what it runs between two of them is one *)
(* action, and so are the disconnect handlers that a forced disconnection  *)
(* runs up to their first await. A database statement is one action.       *)
(***************************************************************************)
EXTENDS Naturals

CONSTANTS
  Sockets,     \* the connections an agent process ever opens
  NoSocket,
  CronJobs,    \* the cron jobs that run: "enforce", "sync", "sweep"
  MaxKey,      \* bound: regenerations of the agent key
  MaxRestarts  \* bound: restarts of the server

ASSUME SocketsAssumption == NoSocket \notin Sockets
ASSUME CronAssumption    == CronJobs \subseteq {"enforce", "sync", "sweep"}
ASSUME BoundsAssumption  == MaxKey \in Nat /\ MaxRestarts \in Nat

Keys == 0..MaxKey \* the successive values of agentKey

VARIABLES
  key, status, seen, \* the row: agentKey, status, is lastSeenAt within 120 s
  allowed,           \* do subscription and plan admit the agent (billing)
  connected,         \* connectedAgents: [Keys -> socket, or NoSocket]
  throttled,         \* keys whose lastSeenDbAt is within 30 s
  sock,              \* every socket with the handlers that run for it
  regen,             \* regenerateKey, when in progress
  enforce,           \* enforcePlanAgentLimits, when in progress
  syncing, sweeping, \* syncConnectedAgentsStatus, checkStaleAgents
  restarts

rowVars  == <<key, status, seen>>
mapVars  == <<connected, throttled>>
taskVars == <<regen, enforce, syncing, sweeping>>
vars == <<rowVars, allowed, mapVars, sock, taskVars, restarts>>

\* link: the transport; conn, disc, beat: handleConnection, handleDisconnect
\* and handleHeartbeat; joined: client.data is set and the room joined.
NewSocket == [link |-> "new", key |-> 0, joined |-> FALSE, conn |-> "none",
              evicts |-> {}, disc |-> "none", beat |-> "none"]
IdleKick  == [pc |-> "idle", key |-> 0, evicts |-> {}]
IdleCron  == [on |-> FALSE, keys |-> {}]

Init ==
  /\ key = 0 /\ status = "OFFLINE" /\ seen = FALSE
  /\ allowed = TRUE
  /\ connected = [k \in Keys |-> NoSocket] /\ throttled = {}
  /\ sock = [s \in Sockets |-> NewSocket]
  /\ regen = IdleKick /\ enforce = IdleKick
  /\ syncing = IdleCron /\ sweeping = IdleCron
  /\ restarts = 0

-----------------------------------------------------------------------------
(* The room of the agent and the map                                       *)

Up(s) == sock[s].link = "up"
InRoom == {s \in Sockets : sock[s].joined /\ Up(s)}
ListedKeys == {k \in Keys : connected[k] # NoSocket}

\* markOffline up to its first await, run by handleDisconnect when a socket
\* with client.data goes down: only the owner of the session, or anybody when
\* no session is listed, goes on to the database.
Dropped(gone) ==
  [s \in Sockets |->
     IF s \in gone /\ Up(s)
     THEN [sock[s] EXCEPT
             !.link = "down",
             !.disc = IF sock[s].joined /\ connected[sock[s].key] \in {s, NoSocket}
                      THEN "read" ELSE "none"]
     ELSE sock[s]]

\* Mutant of Released: handleDisconnect leaves the map alone.
ReleasedNever(gone) == connected
Released(gone) ==
  [k \in Keys |-> IF connected[k] \in gone /\ Up(connected[k])
                  THEN NoSocket ELSE connected[k]]

-----------------------------------------------------------------------------
(* handleConnection                                                        *)

\* The agent connects, with the key it is configured with (maybe an old one).
Open(s, k) ==
  /\ sock[s].link = "new" /\ k <= key
  /\ sock' = [sock EXCEPT ![s] = [@ EXCEPT !.link = "up", !.key = k, !.conn = "opened"]]
  /\ UNCHANGED <<rowVars, allowed, mapVars, taskVars, restarts>>

\* The handshake ends with client.disconnect().
Reject(s) ==
  /\ sock' = [Dropped({s}) EXCEPT ![s].conn = "done"]
  /\ connected' = Released({s})
  /\ UNCHANGED throttled

\* agent.findUnique by the key.
Find(s) ==
  /\ sock[s].conn = "opened"
  /\ IF sock[s].key = key
     THEN sock' = [sock EXCEPT ![s].conn = "found"] /\ UNCHANGED mapVars
     ELSE Reject(s)
  /\ UNCHANGED <<rowVars, allowed, taskVars, restarts>>

\* isSubscriptionActive and assertAgentConnectAllowed, and then the sockets
\* of the room that the new session supersedes.
Admit(s) ==
  /\ sock[s].conn = "found"
  /\ IF allowed
     THEN /\ sock' = [sock EXCEPT ![s] = [@ EXCEPT !.conn = "evicting", !.evicts = InRoom]]
          /\ UNCHANGED mapVars
     ELSE Reject(s)
  /\ UNCHANGED <<rowVars, allowed, taskVars, restarts>>

\* They are disconnected; client.data, the room and the map are set, whether
\* or not the client is still there.
Join(s) ==
  /\ sock[s].conn = "evicting"
  /\ sock' = [Dropped(sock[s].evicts) EXCEPT
               ![s] = [@ EXCEPT !.conn = "marking", !.joined = TRUE, !.evicts = {}]]
  /\ connected' = [Released(sock[s].evicts) EXCEPT ![sock[s].key] = s]
  /\ UNCHANGED <<rowVars, allowed, throttled, taskVars, restarts>>

\* Mutant of MarkOnline: a status the schema does not have.
MarkOnlineMisspelt(s) ==
  /\ sock[s].conn = "marking"
  /\ IF sock[s].key = key
     THEN /\ status' = "CONNECTED" /\ seen' = TRUE
          /\ sock' = [sock EXCEPT ![s].conn = "done"]
          /\ UNCHANGED <<key, mapVars>>
     ELSE Reject(s) /\ UNCHANGED rowVars
  /\ UNCHANGED <<allowed, taskVars, restarts>>

\* The update of markOnline, by key: it throws when no row has the key.
MarkOnline(s) ==
  /\ sock[s].conn = "marking"
  /\ IF sock[s].key = key
     THEN /\ status' = "ONLINE" /\ seen' = TRUE
          /\ sock' = [sock EXCEPT ![s].conn = "done"]
          /\ UNCHANGED <<key, mapVars>>
     ELSE Reject(s) /\ UNCHANGED rowVars
  /\ UNCHANGED <<allowed, taskVars, restarts>>

-----------------------------------------------------------------------------
(* handleDisconnect                                                        *)

\* The transport goes down, at any moment.
LinkLost(s) ==
  /\ Up(s)
  /\ sock' = Dropped({s}) /\ connected' = Released({s})
  /\ UNCHANGED <<rowVars, allowed, throttled, taskVars, restarts>>

\* markOffline: the row by the key; the throttle is reset ...
OfflineRead(s) ==
  /\ sock[s].disc = "read"
  /\ sock' = [sock EXCEPT ![s].disc = IF sock[s].key = key THEN "write" ELSE "done"]
  /\ throttled' = IF sock[s].key = key THEN throttled \ {key} ELSE throttled
  /\ UNCHANGED <<rowVars, allowed, connected, taskVars, restarts>>

\* ... and the update to OFFLINE, without looking at the map again.
OfflineWrite(s) ==
  /\ sock[s].disc = "write"
  /\ sock' = [sock EXCEPT ![s].disc = "done"]
  /\ status' = IF sock[s].key = key THEN "OFFLINE" ELSE status
  /\ UNCHANGED <<key, seen, allowed, mapVars, taskVars, restarts>>

-----------------------------------------------------------------------------
(* handleHeartbeat                                                         *)

\* The agent sends one every two seconds.
Beat(s) ==
  /\ s \in InRoom /\ sock[s].beat = "none"
  /\ sock' = [sock EXCEPT ![s].beat = "checking"]
  /\ UNCHANGED <<rowVars, allowed, mapVars, taskVars, restarts>>

\* Owner, key and plan are checked again; at most one write in 30 s.
BeatCheck(s) ==
  LET refused == ~allowed \/ sock[s].key # key
      quiet   == sock[s].key \in throttled
  IN
  /\ sock[s].beat = "checking"
  /\ \/ /\ refused
        /\ sock' = [Dropped({s}) EXCEPT ![s].beat = "none"]
        /\ connected' = Released({s})
        /\ UNCHANGED throttled
     \/ /\ ~refused
        /\ sock' = [sock EXCEPT ![s].beat = IF quiet THEN "none" ELSE "writing"]
        /\ throttled' = throttled \cup {sock[s].key}
        /\ UNCHANGED connected
  /\ UNCHANGED <<rowVars, allowed, taskVars, restarts>>

\* Mutants of BeatWrite: the row is found by id; only lastSeenAt is written.
BeatWriteById(s) ==
  /\ sock[s].beat = "writing"
  /\ sock' = [sock EXCEPT ![s].beat = "none"]
  /\ status' = "ONLINE" /\ seen' = TRUE
  /\ UNCHANGED <<key, allowed, mapVars, taskVars, restarts>>
BeatWriteSeenOnly(s) ==
  /\ sock[s].beat = "writing"
  /\ sock' = [sock EXCEPT ![s].beat = "none"]
  /\ seen' = (seen \/ sock[s].key = key)
  /\ UNCHANGED <<key, status, allowed, mapVars, taskVars, restarts>>

\* The update of heartbeat, by key; it throws when no row has the key.
BeatWrite(s) ==
  /\ sock[s].beat = "writing"
  /\ sock' = [sock EXCEPT ![s].beat = "none"]
  /\ IF sock[s].key = key THEN status' = "ONLINE" /\ seen' = TRUE
                          ELSE UNCHANGED <<status, seen>>
  /\ UNCHANGED <<key, allowed, mapVars, taskVars, restarts>>

ThrottleEnds(k) ==
  /\ k \in throttled /\ throttled' = throttled \ {k}
  /\ UNCHANGED <<rowVars, allowed, connected, sock, taskVars, restarts>>

-----------------------------------------------------------------------------
(* regenerateKey: the new key, then every socket of the room goes           *)

Regenerate ==
  /\ regen.pc = "idle" /\ key < MaxKey
  /\ key' = key + 1 /\ status' = "OFFLINE"
  /\ regen' = [regen EXCEPT !.pc = "fetching"]
  /\ UNCHANGED <<seen, allowed, mapVars, sock, enforce, syncing, sweeping, restarts>>

\* Mutant of RegenFetch: only the socket the map lists is disconnected.
RegenFetchListed ==
  /\ regen.pc = "fetching"
  /\ regen' = [regen EXCEPT !.pc = "kicking",
                            !.evicts = {connected[k] : k \in Keys} \cap InRoom]
  /\ UNCHANGED <<rowVars, allowed, mapVars, sock, enforce, syncing, sweeping, restarts>>
RegenFetch ==
  /\ regen.pc = "fetching"
  /\ regen' = [regen EXCEPT !.pc = "kicking", !.evicts = InRoom]
  /\ UNCHANGED <<rowVars, allowed, mapVars, sock, enforce, syncing, sweeping, restarts>>

RegenKick ==
  /\ regen.pc = "kicking"
  /\ sock' = Dropped(regen.evicts) /\ connected' = Released(regen.evicts)
  /\ regen' = IdleKick
  /\ UNCHANGED <<rowVars, allowed, throttled, enforce, syncing, sweeping, restarts>>

-----------------------------------------------------------------------------
(* The cron jobs                                                           *)

\* enforcePlanAgentLimits: the row is read ONLINE ...
EnforceRead ==
  /\ "enforce" \in CronJobs /\ enforce.pc = "idle" /\ status = "ONLINE"
  /\ enforce' = [enforce EXCEPT !.pc = "checking", !.key = key]
  /\ UNCHANGED <<rowVars, allowed, mapVars, sock, regen, syncing, sweeping, restarts>>

\* ... the plan does not admit the agent, and the room is read ...
EnforceCheck ==
  /\ enforce.pc = "checking"
  /\ enforce' = IF allowed THEN IdleKick
                ELSE [enforce EXCEPT !.pc = "kicking", !.evicts = InRoom]
  /\ UNCHANGED <<rowVars, allowed, mapVars, sock, regen, syncing, sweeping, restarts>>

\* ... its sockets go, and the map forgets the agent ...
EnforceKick ==
  /\ enforce.pc = "kicking"
  /\ sock' = Dropped(enforce.evicts)
  /\ connected' = [Released(enforce.evicts) EXCEPT ![enforce.key] = NoSocket]
  /\ throttled' = throttled \ {enforce.key}
  /\ enforce' = [IdleKick EXCEPT !.pc = "writing"]
  /\ UNCHANGED <<rowVars, allowed, regen, syncing, sweeping, restarts>>

\* ... and the row is set OFFLINE, by id.
EnforceWrite ==
  /\ enforce.pc = "writing"
  /\ status' = "OFFLINE" /\ enforce' = IdleKick
  /\ UNCHANGED <<key, seen, allowed, mapVars, sock, regen, syncing, sweeping, restarts>>

\* syncConnectedAgentsStatus: the keys of the map, then one update.
SyncStart ==
  /\ "sync" \in CronJobs /\ ~syncing.on /\ ListedKeys # {}
  /\ syncing' = [on |-> TRUE, keys |-> ListedKeys]
  /\ UNCHANGED <<rowVars, allowed, mapVars, sock, regen, enforce, sweeping, restarts>>

SyncWrite ==
  /\ syncing.on /\ syncing' = IdleCron
  /\ IF key \in syncing.keys /\ status = "OFFLINE"
     THEN status' = "ONLINE" /\ seen' = TRUE ELSE UNCHANGED <<status, seen>>
  /\ UNCHANGED <<key, allowed, mapVars, sock, regen, enforce, sweeping, restarts>>

\* Mutant of SweepStart: it returns early when nobody is connected, as
\* syncConnectedAgentsStatus does.
SweepStartListed ==
  /\ "sweep" \in CronJobs /\ ~sweeping.on /\ ListedKeys # {}
  /\ sweeping' = [on |-> TRUE, keys |-> ListedKeys]
  /\ UNCHANGED <<rowVars, allowed, mapVars, sock, regen, enforce, syncing, restarts>>

\* checkStaleAgents: likewise, for the rows whose lastSeenAt is too old.
SweepStart ==
  /\ "sweep" \in CronJobs /\ ~sweeping.on
  /\ sweeping' = [on |-> TRUE, keys |-> ListedKeys]
  /\ UNCHANGED <<rowVars, allowed, mapVars, sock, regen, enforce, syncing, restarts>>

SweepWrite ==
  /\ sweeping.on /\ sweeping' = IdleCron
  /\ status' = IF status = "ONLINE" /\ ~seen /\ key \notin sweeping.keys
               THEN "OFFLINE" ELSE status
  /\ UNCHANGED <<key, seen, allowed, mapVars, sock, regen, enforce, syncing, restarts>>

-----------------------------------------------------------------------------
(* The environment                                                         *)

\* 120 seconds have passed since lastSeenAt.
Age ==
  /\ seen /\ seen' = FALSE
  /\ UNCHANGED <<key, status, allowed, mapVars, sock, taskVars, restarts>>

\* The subscription lapses or is renewed, the plan changes.
PlanChanges ==
  /\ allowed' = ~allowed
  /\ UNCHANGED <<rowVars, mapVars, sock, taskVars, restarts>>

\* The server restarts: only the row remains.
Restart ==
  /\ restarts < MaxRestarts /\ restarts' = restarts + 1
  /\ connected' = [k \in Keys |-> NoSocket] /\ throttled' = {}
  /\ sock' = [s \in Sockets |->
                IF sock[s].link = "new" THEN sock[s]
                ELSE [sock[s] EXCEPT !.link = "down", !.conn = "done", !.evicts = {},
                                     !.disc = "done", !.beat = "none"]]
  /\ regen' = IdleKick /\ enforce' = IdleKick
  /\ syncing' = IdleCron /\ sweeping' = IdleCron
  /\ UNCHANGED <<rowVars, allowed>>

-----------------------------------------------------------------------------
ConnectionStep(s) == Find(s) \/ Admit(s) \/ Join(s) \/ MarkOnline(s)
DisconnectStep(s) == OfflineRead(s) \/ OfflineWrite(s)
HeartbeatStep(s)  == BeatCheck(s) \/ BeatWrite(s)
RegenStep   == RegenFetch \/ RegenKick
EnforceStep == EnforceRead \/ EnforceCheck \/ EnforceKick \/ EnforceWrite
SyncStep    == SyncStart \/ SyncWrite
SweepStep   == SweepStart \/ SweepWrite

Next ==
  \/ \E s \in Sockets, k \in Keys : Open(s, k)
  \/ \E s \in Sockets : \/ ConnectionStep(s) \/ DisconnectStep(s) \/ HeartbeatStep(s)
                        \/ Beat(s) \/ LinkLost(s)
  \/ \E k \in Keys : ThrottleEnds(k)
  \/ Regenerate \/ RegenStep \/ EnforceStep \/ SyncStep \/ SweepStep
  \/ Age \/ PlanChanges \/ Restart

Spec == Init /\ [][Next]_vars

\* Handlers resume, the scheduler runs the cron jobs, time passes, and an
\* agent with a live session sends its heartbeats. Nothing makes it connect,
\* and nothing is expected of syncConnectedAgentsStatus, which only repairs.
Fairness ==
  /\ \A s \in Sockets : /\ WF_vars(ConnectionStep(s)) /\ WF_vars(DisconnectStep(s))
                        /\ WF_vars(HeartbeatStep(s)) /\ WF_vars(Beat(s))
  /\ \A k \in Keys : WF_vars(ThrottleEnds(k))
  /\ WF_vars(RegenStep) /\ WF_vars(EnforceStep)
  /\ WF_vars(SweepStep) /\ WF_vars(Age)

FairSpec == Spec /\ Fairness

-----------------------------------------------------------------------------
(* Properties *)

SocketRecords ==
  [link : {"new", "up", "down"}, key : Keys, joined : BOOLEAN,
   conn : {"none", "opened", "found", "evicting", "marking", "done"},
   evicts : SUBSET Sockets, disc : {"none", "read", "write", "done"},
   beat : {"none", "checking", "writing"}]
Kicks == [pc : {"idle", "fetching", "checking", "kicking", "writing"},
          key : Keys, evicts : SUBSET Sockets]
Crons == [on : BOOLEAN, keys : SUBSET Keys]

\* Every variable has its type.
TypeOK ==
  /\ key \in Keys /\ status \in {"ONLINE", "OFFLINE"} /\ seen \in BOOLEAN
  /\ allowed \in BOOLEAN
  /\ connected \in [Keys -> Sockets \cup {NoSocket}] /\ throttled \subseteq Keys
  /\ sock \in [Sockets -> SocketRecords]
  /\ regen \in Kicks /\ enforce \in Kicks
  /\ syncing \in Crons /\ sweeping \in Crons
  /\ restarts \in 0..MaxRestarts

\* A key that has been replaced opens nothing: once regenerateKey is over, no
\* live session that finished its handshake uses an old key, however the
\* handshake and the regeneration interleave.
OldKeyIsOut ==
  \A s \in InRoom :
    sock[s].conn = "done" /\ sock[s].key # key =>
      \/ regen.pc = "fetching"
      \/ regen.pc = "kicking" /\ s \in regen.evicts

\* The row says ONLINE only if a client has authenticated with the key the
\* row has now: after a regeneration no late heartbeat, handshake or cron
\* update of a session of the old key brings the agent back.
OnlineByCurrentKey ==
  status = "ONLINE" => \E s \in Sockets : sock[s].joined /\ sock[s].key = key

\* The map never keeps a socket that is gone, unless the socket went before
\* its handshake had stored the agent in client.data.
OwnerIsAlive ==
  \A k \in Keys : connected[k] # NoSocket =>
    LET s == connected[k] IN
    /\ sock[s].joined /\ sock[s].key = k
    /\ Up(s) \/ sock[s].disc = "none"

\* A session that lasts is never shown OFFLINE for good: a late OFFLINE write
\* of an earlier session is repaired by a heartbeat or by the cron job.
LastingSessionShows ==
  \A s \in Sockets :
    <>[](s \in InRoom /\ sock[s].conn = "done" /\ allowed) => []<>(status = "ONLINE")

\* An agent that is gone is shown OFFLINE in the end, whatever late writes its
\* sessions had left: checkStaleAgents repairs them.
GoneIsOffline ==
  <>[](ListedKeys = {} /\ \A s \in Sockets : ~Up(s)) => <>[](status = "OFFLINE")
=============================================================================
