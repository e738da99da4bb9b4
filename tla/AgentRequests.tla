---------------------------- MODULE AgentRequests ----------------------------
(***************************************************************************)
(* What the server asks of an agent and waits for: the requests of the     *)
(* gateway, matched to their answers by requestId through a map of waiters *)
(* with a timer each (the registries of src/common), and what a call does  *)
(* with the answer: the metadata column, which remote access, heartbeats   *)
(* and handshakes all rewrite from the copy they have read, and the        *)
(* catalogue of scripts. Presence is AgentSession's; here sockets only     *)
(* come and go, and a call refused as unreachable is a call not made.      *)
(***************************************************************************)
EXTENDS Naturals, FiniteSets

CONSTANTS
  Calls,      \* API calls and reports of the agent, each made once
  Sockets,    \* connections an agent may have at a time
  NoCall,
  MaxFaults,  \* bound: database statements that fail
  MaxRestarts \* bound: restarts of the server

ASSUME NamesAssumption  == NoCall \notin Calls /\ Calls \cap {"none", "agent"} = {}
ASSUME BoundsAssumption == MaxFaults \in Nat /\ MaxRestarts \in Nat

\* "files": list, read and write of files, Chrome profiles; "start", "stop":
\* remote access; "sync": scripts or recordings. The others ask the agent
\* nothing: "edit" is updateRemoteAccess, "wake" is wakeAgent, "report" is the
\* metadata of a handshake or a heartbeat.
Requests == {"files", "start", "stop", "sync"}
Rewrites == {"start", "stop", "edit", "wake", "report"}
Kinds    == Requests \cup Rewrites

VARIABLES
  call,     \* [Calls -> where it stands and its copy of the metadata]
  waiters,  \* the calls whose requestId is in a registry
  room,     \* the agent's connected sockets
  asks,     \* requests on their way, or being carried out, by socket
  answers,  \* answers on their way
  remote,   \* does remote access run on the machine
  meta,     \* the column: the administrator's setting, rustdeskRemoteActive
  copies,   \* rows of the catalogue for one script: two calls may create two
  saved,    \* the edit that has been written last, NoCall once it is cleared
  overwrote,\* has a call written back a copy that was out of date
  missed,   \* has the agent carried out a start or stop no call knows of
  faults, restarts

db    == <<meta, copies>>
ghost == <<saved, overwrote, missed>>
net   == <<room, asks, answers>>
vars  == <<call, waiters, net, remote, db, ghost, faults, restarts>>

NewCall == [kind |-> "files", pc |-> "new", copy |-> [admin |-> "none", active |-> FALSE],
            old |-> FALSE, ran |-> FALSE, clears |-> FALSE]

Init ==
  /\ call = [c \in Calls |-> NewCall] /\ waiters = {}
  /\ room = {} /\ asks = {} /\ answers = {}
  /\ remote = FALSE /\ meta = NewCall.copy /\ copies = 0
  /\ saved = NoCall /\ overwrote = FALSE /\ missed = FALSE
  /\ faults = 0 /\ restarts = 0

Open == {c \in Calls : call[c].pc \in {"waiting", "writing"} /\ call[c].kind \in Rewrites}
Unknown(c) == call[c].kind \in {"start", "stop"} /\ call[c].ran

-----------------------------------------------------------------------------
(* The calls *)

\* The row is read; a request registers its waiter and emits to the room in one
\* turn of the event loop.
Request(c, kind) ==
  /\ call[c].pc = "new" /\ kind \in Requests
  /\ call' = [call EXCEPT ![c] = [@ EXCEPT !.kind = kind, !.pc = "waiting", !.copy = meta]]
  /\ waiters' = waiters \cup {c}
  /\ asks' = asks \cup {[call |-> c, sock |-> s] : s \in room}
  /\ UNCHANGED <<room, answers, remote, db, ghost, faults, restarts>>

\* The other calls that rewrite the metadata; an edit sets or clears the
\* administrator's setting.
Rewrite(c, kind) ==
  /\ call[c].pc = "new" /\ kind \in Rewrites \ Requests
  /\ kind = "report" => room # {}
  /\ \E clears \in BOOLEAN :
       /\ clears => kind = "edit"
       /\ call' = [call EXCEPT ![c] = [@ EXCEPT !.kind = kind, !.pc = "writing", !.copy = meta,
                                                !.clears = clears]]
  /\ UNCHANGED <<waiters, net, remote, db, ghost, faults, restarts>>

\* Mutant of MayTimeOut: the timer of a request is only set if a socket gets it.
MayTimeOutAsked(c) == call[c].pc = "waiting" /\ \E a \in asks : a.call = c
MayTimeOut(c) == call[c].pc = "waiting"

\* The timer: deletes the waiter and rejects.
Timeout(c) ==
  /\ MayTimeOut(c)
  /\ call' = [call EXCEPT ![c].pc = "failed"] /\ waiters' = waiters \ {c}
  /\ missed' = (missed \/ Unknown(c))
  /\ UNCHANGED <<net, remote, db, saved, overwrote, faults, restarts>>

\* Mutant of mergeConnectMetadata: what the agent reports always counts.
MergeReported(prev) == [prev EXCEPT !.admin = "agent"]
\* An agent's own value does not replace the administrator's.
mergeConnectMetadata(prev) ==
  IF prev.admin \in Calls THEN prev ELSE [prev EXCEPT !.admin = "agent"]

\* Mutant of Active: stopping is recorded as starting is.
ActiveAlways(kind) == TRUE
Active(kind) == kind = "start"

\* What a call writes back: its whole copy with its own fields in it.
Written(c) ==
  LET m == call[c].copy IN
  CASE call[c].kind = "report" -> mergeConnectMetadata(m)
    [] call[c].kind = "edit"   -> [m EXCEPT !.admin = IF call[c].clears THEN "none" ELSE c]
    [] call[c].kind = "wake"   -> m
    [] OTHER                   -> [m EXCEPT !.active = Active(call[c].kind)]

\* The update of the metadata, from the copy; the copies the other calls hold
\* are out of date from now on.
Write(c) ==
  /\ call[c].pc = "writing"
  /\ meta' = Written(c)
  /\ call' = [d \in Calls |-> IF d = c THEN [call[c] EXCEPT !.pc = "done"]
                              ELSE IF d \in Open THEN [call[d] EXCEPT !.old = TRUE] ELSE call[d]]
  /\ saved' = IF call[c].kind # "edit" THEN saved ELSE IF call[c].clears THEN NoCall ELSE c
  /\ overwrote' = (overwrote \/ call[c].old)
  /\ UNCHANGED <<waiters, net, remote, copies, missed, faults, restarts>>

\* syncFromAgent: find by the agent's id of the script, then update or create.
SyncFind(c) ==
  /\ call[c].pc = "finding"
  /\ call' = [call EXCEPT ![c].pc = IF copies > 0 THEN "updating" ELSE "creating"]
  /\ UNCHANGED <<waiters, net, remote, db, ghost, faults, restarts>>

SyncWrite(c) ==
  /\ call[c].pc \in {"creating", "updating"}
  /\ copies' = copies + (IF call[c].pc = "creating" THEN 1 ELSE 0)
  /\ call' = [call EXCEPT ![c].pc = "done"]
  /\ UNCHANGED <<waiters, net, remote, meta, ghost, faults, restarts>>

\* A statement fails and with it the call.
Throws(c) ==
  /\ call[c].pc \in {"writing", "finding", "creating", "updating"}
  /\ faults < MaxFaults /\ faults' = faults + 1
  /\ call' = [call EXCEPT ![c].pc = "failed"]
  /\ missed' = (missed \/ Unknown(c))
  /\ UNCHANGED <<waiters, net, remote, db, saved, overwrote, restarts>>

-----------------------------------------------------------------------------
(* The answer *)

\* Where the call goes on once its promise is resolved.
Continued(kind) == CASE kind \in {"start", "stop"} -> "writing"
                     [] kind = "sync"              -> "finding"
                     [] kind = "files"             -> "done"

\* handle...Result: notify or fail finds the waiter, deletes it and settles the
\* promise; without a waiter nothing happens.
Result(a) ==
  LET c == a.call IN
  /\ a \in answers /\ answers' = answers \ {a}
  /\ IF c \in waiters
     THEN /\ waiters' = waiters \ {c}
          /\ call' = [call EXCEPT ![c].pc = IF a.ok THEN Continued(call[c].kind) ELSE "failed"]
          /\ missed' = (missed \/ (~a.ok /\ Unknown(c)))
     ELSE UNCHANGED <<waiters, call, missed>>
  /\ UNCHANGED <<room, asks, remote, db, saved, overwrote, faults, restarts>>

-----------------------------------------------------------------------------
(* The agent *)

\* The spawned task of a request ends, in any order; its answer goes out over
\* its socket, and is only logged as lost when that is down.
CarryOut(a) ==
  LET c == a.call
      does == call[c].kind \in {"start", "stop"} IN
  /\ a \in asks /\ asks' = asks \ {a}
  /\ \E ok \in BOOLEAN :
       /\ answers' = IF a.sock \in room THEN answers \cup {[call |-> c, sock |-> a.sock, ok |-> ok]}
                     ELSE answers
       /\ remote' = IF ok /\ does THEN call[c].kind = "start" ELSE remote
       /\ call' = [call EXCEPT ![c].ran = @ \/ ok]
       /\ missed' = (missed \/ (ok /\ does /\ call[c].pc # "waiting"))
  /\ UNCHANGED <<waiters, room, db, saved, overwrote, faults, restarts>>

\* A connection is made; it supersedes the one there is, unless their
\* handshakes overlap.
Connect(s) ==
  /\ s \notin room /\ room' \in {{s}, room \cup {s}}
  /\ answers' = {a \in answers : a.sock \in room'}
  /\ UNCHANGED <<call, waiters, asks, remote, db, ghost, faults, restarts>>

\* A connection is lost: answers under way with it, and the requests that had
\* not arrived.
Disconnect(s) ==
  /\ s \in room /\ room' = room \ {s}
  /\ answers' = {a \in answers : a.sock # s}
  /\ \E arrived \in SUBSET {a \in asks : a.sock = s} :
       asks' = {a \in asks : a.sock # s} \cup arrived
  /\ UNCHANGED <<call, waiters, remote, db, ghost, faults, restarts>>

\* The server restarts: waiters and calls are gone, the agent goes on.
Restart ==
  /\ restarts < MaxRestarts /\ restarts' = restarts + 1
  /\ room' = {} /\ answers' = {} /\ waiters' = {}
  /\ call' = [c \in Calls |-> IF call[c].pc \in {"new", "done"} THEN call[c]
                              ELSE [call[c] EXCEPT !.pc = "failed"]]
  /\ missed' = (missed \/ \E c \in Calls : call[c].pc \in {"waiting", "writing"} /\ Unknown(c))
  /\ UNCHANGED <<asks, remote, db, saved, overwrote, faults>>

CallStep(c) == Timeout(c) \/ Write(c) \/ SyncFind(c) \/ SyncWrite(c)

Next ==
  \/ \E c \in Calls : \/ \E kind \in Kinds : Request(c, kind) \/ Rewrite(c, kind)
                      \/ CallStep(c) \/ Throws(c)
  \/ \E a \in answers : Result(a)
  \/ \E a \in asks : CarryOut(a)
  \/ \E s \in Sockets : Connect(s) \/ Disconnect(s)
  \/ Restart

Spec == Init /\ [][Next]_vars

\* Timers fire and the database answers; nothing is expected of the agent.
Fairness == \A c \in Calls : WF_vars(CallStep(c))

FairSpec == Spec /\ Fairness

-----------------------------------------------------------------------------
(* Properties *)

Columns == [admin : Calls \cup {"none", "agent"}, active : BOOLEAN]
Pcs == {"new", "waiting", "writing", "finding", "creating", "updating", "done", "failed"}
CallRecords == [kind : Kinds, pc : Pcs, copy : Columns, old : BOOLEAN, ran : BOOLEAN,
                clears : BOOLEAN]

\* Every variable has its type, and the registries hold the calls that wait,
\* neither a call that is over nor one fewer.
TypeOK ==
  /\ call \in [Calls -> CallRecords]
  /\ waiters = {c \in Calls : call[c].pc = "waiting"}
  /\ room \subseteq Sockets
  /\ asks \subseteq [call : Calls, sock : Sockets]
  /\ answers \subseteq [call : Calls, sock : room, ok : BOOLEAN]
  /\ remote \in BOOLEAN /\ meta \in Columns /\ copies \in Nat
  /\ saved \in Calls \cup {NoCall}
  /\ overwrote \in BOOLEAN /\ missed \in BOOLEAN
  /\ faults \in 0..MaxFaults /\ restarts \in 0..MaxRestarts

\* What the administrator has set for remote access stays, whatever the agent
\* reports of itself and whatever remote access is started and stopped ("Giữ
\* cấu hình WoL/RDP do admin ghi đè"), until a call writes back a copy of the
\* metadata that another has replaced since; a cleared setting does not return.
AdminConfigKept ==
  ~overwrote => IF saved = NoCall THEN meta.admin \notin Calls ELSE meta.admin = saved

\* rustdeskRemoteActive tells what runs on the machine once no start or stop is
\* in progress, although answers may be late, doubled or out of order, unless
\* one was never received or a copy out of date was written back.
RemoteTells ==
  ~overwrote /\ ~missed /\ (\A c \in Open : call[c].kind \notin {"start", "stop"})
    => meta.active = remote

\* Every call ends, whatever becomes of the agent, its sockets and its answers.
CallsEnd == \A c \in Calls : call[c].pc = "waiting" ~> call[c].pc \in {"done", "failed"}
=============================================================================
