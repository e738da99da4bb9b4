---------------------------- MODULE TaskLifecycle ----------------------------
(***************************************************************************)
(* The life of a task: the row in PostgreSQL (Task.status), the BullMQ     *)
(* jobs that dispatch it, the API calls that create, cancel and retry it,  *)
(* the in-memory waiters a worker parks on, the agent that runs it and the *)
(* gateway handler that records the agent's result.                        *)
(*                                                                         *)
(* Every `await` of the server is a point where other handlers run, so a   *)
(* handler is a sequence of actions, cut at its database writes, with a    *)
(* program counter; what it runs between two awaits is one action.         *)
(***************************************************************************)
EXTENDS Naturals, FiniteSets

CONSTANTS
  Tasks,        \* task ids
  Unresolvable, \* tasks whose emit payload may fail to resolve (bot missing)
  Clients,      \* API calls that can be in progress at the same time
  Concurrency,  \* TASK_WORKER_CONCURRENCY
  Attempts,     \* BullMQ attempts of a job whose process() throws
  Outcomes,     \* how an agent may end a task that was not cancelled
  Permits,      \* task_max_concurrency of the agent
  MaxJobs,      \* bound: jobs ever added to the queue
  MaxRuns,      \* bound: task:execute messages ever emitted
  MaxRetries,   \* bound: retryCount of a task
  MaxCrashes    \* bound: restarts of the server

ASSUME TasksAssumption == Tasks # {} /\ Unresolvable \subseteq Tasks
ASSUME ClientsAssumption == IsFiniteSet(Clients)
ASSUME OutcomesAssumption == Outcomes \subseteq {"COMPLETED", "FAILED"} /\ Outcomes # {}
ASSUME BoundsAssumption ==
  /\ Concurrency \in Nat \ {0} /\ Attempts \in Nat \ {0} /\ Permits \in Nat \ {0}
  /\ MaxJobs \in Nat /\ MaxRuns \in Nat /\ MaxRetries \in Nat /\ MaxCrashes \in Nat

Jobs == 1..MaxJobs
Runs == 1..MaxRuns

VARIABLES
  row,        \* [Tasks -> status of the row, or "ABSENT"]
  retryCount, \* [Tasks -> Nat]
  client,     \* [Clients -> the API call in progress]
  job, njobs, \* the BullMQ jobs ever added, with the worker step they are at
  run, nruns, \* the dispatches ever sent to the agent, up to their result
  agentUp,    \* how the agent's presence stands, see Presence
  cancelMsgs, \* task:cancel messages on their way to the agent
  handle,     \* TaskCancelRegistry of the agent: [Tasks -> run, or 0]
  crashes

vars == <<row, retryCount, client, job, njobs, run, nruns,
          agentUp, cancelMsgs, handle, crashes>>

-----------------------------------------------------------------------------
(* Status values *)

Terminal == {"COMPLETED", "FAILED", "TIMEOUT", "CANCELLED"}
Status   == Terminal \cup {"PENDING", "QUEUED", "RUNNING"}

AnyTask == CHOOSE t \in Tasks : TRUE \* fills the fields of what is not in use
Idle  == [pc |-> "idle", task |-> AnyTask, wasRunning |-> FALSE]
NoJob == [phase |-> "none", task |-> AnyTask, tries |-> 0, up |-> FALSE, run |-> 0,
          stalled |-> FALSE]
NoRun == [phase |-> "none", task |-> AnyTask, cancelled |-> FALSE, outcome |-> "FAILED"]

\* A job a worker holds: process() has begun and has not returned.
ActivePhases == {"loaded", "offline", "dispatching", "wait",
                 "expired", "closing", "announce"}
LivePhases   == ActivePhases \cup {"waiting"}
\* A dispatch that can still bring a result to the gateway or write one.
OpenPhases   == {"sent", "queued", "running", "reported", "accepted"}

Active == {j \in Jobs : job[j].phase \in ActivePhases}
Running == {i \in Runs : run[i].phase = "running"}

\* The presence of the agent, as its own component leaves it: whether a live
\* socket is in the agent's room, and whether the server takes it for online.
\* The two part when a session is lost unseen ("stale") and when a live one is
\* overlooked ("unlisted").
Presence == {"connected", "unlisted", "stale", "offline"}
Linked == agentUp \in {"connected", "unlisted"}

\* AgentsService.isAgentReachable(agent), with the agent's row as read before:
\* the row said ONLINE or BUSY, or the map of sockets has the agent now. A
\* stale presence may be of either kind.
RowSaysOnline == agentUp \in {"connected", "stale"}
Reachable(rowUp)   == rowUp \/ agentUp \in {"connected", "stale"}
Unreachable(rowUp) == ~rowUp /\ agentUp # "connected"

Init ==
  /\ row = [t \in Tasks |-> "ABSENT"]
  /\ retryCount = [t \in Tasks |-> 0]
  /\ client = [c \in Clients |-> Idle]
  /\ job = [j \in Jobs |-> NoJob] /\ njobs = 0
  /\ run = [i \in Runs |-> NoRun] /\ nruns = 0
  /\ agentUp = "connected"
  /\ cancelMsgs = {}
  /\ handle = [t \in Tasks |-> 0]
  /\ crashes = 0

-----------------------------------------------------------------------------
(* task-completion-registry: waiters are keyed by the task, not by the     *)
(* attempt; notifying a task resolves every waiter it has. A worker whose  *)
(* waiter resolves with TIMEOUT goes on to markTaskTimedOutIfActive, any   *)
(* other outcome ends its process().                                       *)

Resolved(jobs, t, outcome) ==
  [j \in Jobs |->
     IF jobs[j].task = t /\ jobs[j].phase = "wait"
     THEN [jobs[j] EXCEPT !.phase = IF outcome = "TIMEOUT" THEN "expired" ELSE "done"]
     ELSE jobs[j]]

-----------------------------------------------------------------------------
(* API calls: TasksService.create, cancel, retry                           *)

Move(c, pc) == client' = [client EXCEPT ![c].pc = pc]
Return(c)   == client' = [client EXCEPT ![c] = Idle]
Begin(c, t, pc, wasRunning) ==
  /\ client[c].pc = "idle"
  /\ client' = [client EXCEPT ![c] = [pc |-> pc, task |-> t, wasRunning |-> wasRunning]]

\* create, up to the insert of the row: PENDING, or FAILED at once when the
\* agent cannot be reached (its notify finds no waiter for a new id).
Create(c, t) ==
  /\ row[t] = "ABSENT"
  /\ \/ /\ Reachable(RowSaysOnline)
        /\ Begin(c, t, "inserted", FALSE)
        /\ row' = [row EXCEPT ![t] = "PENDING"]
     \/ /\ Unreachable(RowSaysOnline)
        /\ client[c].pc = "idle"
        /\ row' = [row EXCEPT ![t] = "FAILED"]
        /\ UNCHANGED client
  /\ UNCHANGED <<retryCount, job, njobs, run, nruns, agentUp,
                 cancelMsgs, handle, crashes>>

\* enqueueExecute, of create and of retry.
Enqueue(c) ==
  /\ client[c].pc = "inserted" /\ njobs < MaxJobs
  /\ njobs' = njobs + 1
  /\ job' = [job EXCEPT ![njobs + 1] = [NoJob EXCEPT !.phase = "waiting",
                                                     !.task = client[c].task]]
  /\ Move(c, "enqueued")
  /\ UNCHANGED <<row, retryCount, run, nruns, agentUp, cancelMsgs,
                 handle, crashes>>

\* Mutant of MarkQueued: the call returns without the update.
MarkQueuedForgotten(c) ==
  /\ client[c].pc = "enqueued"
  /\ Return(c)
  /\ UNCHANGED <<row, retryCount, job, njobs, run, nruns, agentUp, cancelMsgs,
                 handle, crashes>>

\* The update to QUEUED that follows it, whatever the row has become.
MarkQueued(c) ==
  /\ client[c].pc = "enqueued"
  /\ row' = [row EXCEPT ![client[c].task] = "QUEUED"]
  /\ Return(c)
  /\ UNCHANGED <<retryCount, job, njobs, run, nruns, agentUp,
                 cancelMsgs, handle, crashes>>

\* cancel: findOne and its check (TIMEOUT is not among the refused states).
CancelRead(c, t) ==
  /\ row[t] \notin {"ABSENT", "COMPLETED", "FAILED", "CANCELLED"}
  /\ Begin(c, t, "cancelling", row[t] = "RUNNING")
  /\ UNCHANGED <<row, retryCount, job, njobs, run, nruns, agentUp,
                 cancelMsgs, handle, crashes>>

\* Mutant of CancelWrite: a status the schema does not have.
CancelWriteMisspelt(c) ==
  /\ client[c].pc = "cancelling"
  /\ row' = [row EXCEPT ![client[c].task] = "CANCELED"]
  /\ IF client[c].wasRunning THEN Move(c, "cancelled") ELSE Return(c)
  /\ UNCHANGED <<retryCount, job, njobs, run, nruns, agentUp, cancelMsgs,
                 handle, crashes>>

CancelWrite(c) ==
  /\ client[c].pc = "cancelling"
  /\ row' = [row EXCEPT ![client[c].task] = "CANCELLED"]
  /\ IF client[c].wasRunning THEN Move(c, "cancelled") ELSE Return(c)
  /\ UNCHANGED <<retryCount, job, njobs, run, nruns, agentUp,
                 cancelMsgs, handle, crashes>>

\* emitTaskCancel (lost when the agent's room is empty) and notify.
CancelNotify(c) ==
  /\ client[c].pc = "cancelled"
  /\ cancelMsgs' = IF Linked
                   THEN cancelMsgs \cup {client[c].task} ELSE cancelMsgs
  /\ job' = Resolved(job, client[c].task, "CANCELLED")
  /\ Return(c)
  /\ UNCHANGED <<row, retryCount, njobs, run, nruns, agentUp,
                 handle, crashes>>

\* retry: the check of the row read ...
RetryRead(c, t) ==
  /\ row[t] \in Terminal /\ retryCount[t] < MaxRetries
  /\ Begin(c, t, "retrying", FALSE)
  /\ UNCHANGED <<row, retryCount, job, njobs, run, nruns, agentUp,
                 cancelMsgs, handle, crashes>>

\* ... and the reset, followed by Enqueue and MarkQueued.
RetryWrite(c) ==
  LET t == client[c].task IN
  /\ client[c].pc = "retrying" /\ retryCount[t] < MaxRetries
  /\ row' = [row EXCEPT ![t] = "PENDING"]
  /\ retryCount' = [retryCount EXCEPT ![t] = @ + 1]
  /\ Move(c, "inserted")
  /\ UNCHANGED <<job, njobs, run, nruns, agentUp, cancelMsgs,
                 handle, crashes>>

ClientStep(c) ==
  \/ Enqueue(c) \/ MarkQueued(c) \/ CancelWrite(c) \/ CancelNotify(c) \/ RetryWrite(c)

-----------------------------------------------------------------------------
(* BullMQ worker: TasksProcessor.process                                   *)

\* The next step of process(); the agent row it read serves only the first.
SetPhase(j, phase) == job' = [job EXCEPT ![j].phase = phase, ![j].up = FALSE]

\* A free worker slot takes a job and reads the row with its agent.
Pick(j) ==
  LET t == job[j].task IN
  /\ job[j].phase = "waiting" /\ Cardinality(Active) < Concurrency
  /\ job' = [job EXCEPT ![j].phase = IF row[t] = "CANCELLED" THEN "done" ELSE "loaded",
                        ![j].up = row[t] # "CANCELLED" /\ RowSaysOnline]
  /\ UNCHANGED <<row, retryCount, client, njobs, run, nruns,
                 agentUp, cancelMsgs, handle, crashes>>

\* assertActive throws (the subscription has lapsed, which is up to another
\* component): FAILED, without notifying anyone.
RefuseLapsed(j) ==
  /\ job[j].phase = "loaded"
  /\ row' = [row EXCEPT ![job[j].task] = "FAILED"]
  /\ SetPhase(j, "done")
  /\ UNCHANGED <<retryCount, client, njobs, run, nruns, agentUp,
                 cancelMsgs, handle, crashes>>

\* The agent is unreachable: FAILED, then (after the log) the waiters hear it.
RefuseOffline(j) ==
  /\ job[j].phase = "loaded" /\ Unreachable(job[j].up)
  /\ row' = [row EXCEPT ![job[j].task] = "FAILED"]
  /\ SetPhase(j, "offline")
  /\ UNCHANGED <<retryCount, client, njobs, run, nruns, agentUp,
                 cancelMsgs, handle, crashes>>

AnnounceOffline(j) ==
  /\ job[j].phase = "offline"
  /\ job' = [Resolved(job, job[j].task, "FAILED") EXCEPT ![j].phase = "done"]
  /\ UNCHANGED <<row, retryCount, client, njobs, run, nruns,
                 agentUp, cancelMsgs, handle, crashes>>

\* updateTaskStatus(RUNNING), whatever the row has become since Pick.
MarkRunning(j) ==
  /\ job[j].phase = "loaded" /\ Reachable(job[j].up)
  /\ row' = [row EXCEPT ![job[j].task] = "RUNNING"]
  /\ SetPhase(j, "dispatching")
  /\ UNCHANGED <<retryCount, client, njobs, run, nruns, agentUp,
                 cancelMsgs, handle, crashes>>

\* Resolving the payload throws: BullMQ delays the job, or fails it for good.
ResolveFails(j) ==
  /\ job[j].phase = "dispatching" /\ job[j].task \in Unresolvable
  /\ job' = [job EXCEPT ![j].tries = @ + 1,
                        ![j].phase = IF job[j].tries + 1 < Attempts THEN "waiting"
                                     ELSE "failed"]
  /\ UNCHANGED <<row, retryCount, client, njobs, run, nruns,
                 agentUp, cancelMsgs, handle, crashes>>

\* Mutant of Dispatch: an await between the emission and the waiter.
DispatchThenWait(j) ==
  /\ job[j].phase = "dispatching"
  /\ IF job[j].run = 0
     THEN /\ nruns < MaxRuns
          /\ nruns' = nruns + 1
          /\ run' = [run EXCEPT ![nruns + 1] =
                       [NoRun EXCEPT !.phase = IF Linked THEN "sent" ELSE "lost",
                                     !.task = job[j].task]]
          /\ job' = [job EXCEPT ![j].run = nruns + 1]
     ELSE /\ job' = [job EXCEPT ![j].phase = "wait"]
          /\ UNCHANGED <<run, nruns>>
  /\ UNCHANGED <<row, retryCount, client, njobs, agentUp, cancelMsgs, handle, crashes>>

\* emitToAgent and, in the same turn of the event loop, the waiter. The
\* message is lost when nobody is in the agent's room.
Dispatch(j) ==
  /\ job[j].phase = "dispatching" /\ nruns < MaxRuns
  /\ nruns' = nruns + 1
  /\ run' = [run EXCEPT ![nruns + 1] =
               [NoRun EXCEPT !.phase = IF Linked THEN "sent" ELSE "lost",
                             !.task = job[j].task]]
  /\ job' = [job EXCEPT ![j].phase = "wait", ![j].run = nruns + 1]
  /\ UNCHANGED <<row, retryCount, client, njobs, agentUp,
                 cancelMsgs, handle, crashes>>

\* Mutants of WaitTimeout: the expired waiter ends process() without closing
\* the task; the job is thrown back to BullMQ; only an online agent times out.
WaitTimeoutForgotten(j) ==
  /\ job[j].phase = "wait"
  /\ SetPhase(j, "done")
  /\ UNCHANGED <<row, retryCount, client, njobs, run, nruns,
                 agentUp, cancelMsgs, handle, crashes>>
WaitTimeoutThrows(j) ==
  /\ job[j].phase = "wait"
  /\ SetPhase(j, "waiting")
  /\ UNCHANGED <<row, retryCount, client, njobs, run, nruns,
                 agentUp, cancelMsgs, handle, crashes>>
WaitTimeoutOnlineOnly(j) ==
  /\ job[j].phase = "wait" /\ Linked
  /\ SetPhase(j, "expired")
  /\ UNCHANGED <<row, retryCount, client, njobs, run, nruns,
                 agentUp, cancelMsgs, handle, crashes>>

\* The waiter's timer: min(timeout + 30 s, 600 s) have passed.
WaitTimeout(j) ==
  /\ job[j].phase = "wait"
  /\ SetPhase(j, "expired")
  /\ UNCHANGED <<row, retryCount, client, njobs, run, nruns,
                 agentUp, cancelMsgs, handle, crashes>>

\* markTaskTimedOutIfActive: the read and its check ...
TimeoutRead(j) ==
  /\ job[j].phase = "expired"
  /\ SetPhase(j, IF row[job[j].task] \in Terminal THEN "done" ELSE "closing")
  /\ UNCHANGED <<row, retryCount, client, njobs, run, nruns,
                 agentUp, cancelMsgs, handle, crashes>>

\* ... the update ...
TimeoutWrite(j) ==
  /\ job[j].phase = "closing"
  /\ row' = [row EXCEPT ![job[j].task] = "TIMEOUT"]
  /\ SetPhase(j, "announce")
  /\ UNCHANGED <<retryCount, client, njobs, run, nruns, agentUp,
                 cancelMsgs, handle, crashes>>

\* ... and, after the log, the notification of the waiters.
TimeoutNotify(j) ==
  /\ job[j].phase = "announce"
  /\ job' = [Resolved(job, job[j].task, "TIMEOUT") EXCEPT ![j].phase = "done"]
  /\ UNCHANGED <<row, retryCount, client, njobs, run, nruns,
                 agentUp, cancelMsgs, handle, crashes>>

WorkerStep(j) ==
  \/ Pick(j) \/ RefuseLapsed(j) \/ RefuseOffline(j) \/ AnnounceOffline(j)
  \/ MarkRunning(j) \/ ResolveFails(j) \/ Dispatch(j)
  \/ WaitTimeout(j) \/ TimeoutRead(j) \/ TimeoutWrite(j) \/ TimeoutNotify(j)

-----------------------------------------------------------------------------
(* The agent: the task:execute and task:cancel handlers of runner.rs       *)

RunPhase(i, phase) == run' = [run EXCEPT ![i].phase = phase]

Deliver(i) ==
  /\ run[i].phase = "sent"
  /\ RunPhase(i, "queued")
  /\ UNCHANGED <<row, retryCount, client, job, njobs, nruns,
                 agentUp, cancelMsgs, handle, crashes>>

\* The permit is acquired first; only then is the cancel handle registered,
\* replacing the handle of an earlier run of the same task.
Start(i) ==
  /\ run[i].phase = "queued" /\ Cardinality(Running) < Permits
  /\ RunPhase(i, "running")
  /\ handle' = [handle EXCEPT ![run[i].task] = i]
  /\ UNCHANGED <<row, retryCount, client, job, njobs, nruns,
                 agentUp, cancelMsgs, crashes>>

\* Mutants of Finish: the handle is never unregistered; a cancelled run ends
\* without reporting.
FinishKeepsHandle(i) ==
  /\ run[i].phase = "running"
  /\ \E o \in IF run[i].cancelled THEN {"CANCELLED"} ELSE Outcomes :
       run' = [run EXCEPT ![i].outcome = o,
                          ![i].phase = IF Linked THEN "reported" ELSE "lost"]
  /\ UNCHANGED <<row, retryCount, client, job, njobs, nruns, agentUp,
                 cancelMsgs, handle, crashes>>
FinishSilentWhenCancelled(i) ==
  /\ run[i].phase = "running"
  /\ \E o \in Outcomes :
       run' = [run EXCEPT ![i].outcome = o,
                          ![i].phase = CASE run[i].cancelled -> "ignored"
                                         [] Linked -> "reported"
                                         [] OTHER -> "lost"]
  /\ handle' = [handle EXCEPT ![run[i].task] = 0]
  /\ UNCHANGED <<row, retryCount, client, job, njobs, nruns, agentUp,
                 cancelMsgs, crashes>>

\* run_task returns; unregister(task id); emit task:result, which is only
\* logged as failed when the socket is down.
Finish(i) ==
  /\ run[i].phase = "running"
  /\ \E o \in IF run[i].cancelled THEN {"CANCELLED"} ELSE Outcomes :
       run' = [run EXCEPT ![i].outcome = o,
                          ![i].phase = IF Linked THEN "reported" ELSE "lost"]
  /\ handle' = [handle EXCEPT ![run[i].task] = 0]
  /\ UNCHANGED <<row, retryCount, client, job, njobs, nruns,
                 agentUp, cancelMsgs, crashes>>

\* TaskCancelRegistry.cancel: the registered run is flagged; with none
\* registered the message is dropped with a warning.
DeliverCancel(t) ==
  /\ t \in cancelMsgs
  /\ cancelMsgs' = cancelMsgs \ {t}
  /\ run' = IF handle[t] = 0 THEN run
            ELSE [run EXCEPT ![handle[t]].cancelled = TRUE]
  /\ UNCHANGED <<row, retryCount, client, job, njobs, nruns,
                 agentUp, handle, crashes>>

-----------------------------------------------------------------------------
(* AgentsGateway.handleTaskResult: read, update, (log,) notify             *)

ReadResult(i) ==
  /\ run[i].phase = "reported"
  /\ RunPhase(i, IF row[run[i].task] \in Terminal THEN "ignored" ELSE "accepted")
  /\ UNCHANGED <<row, retryCount, client, job, njobs, nruns,
                 agentUp, cancelMsgs, handle, crashes>>

WriteResult(i) ==
  /\ run[i].phase = "accepted"
  /\ row' = [row EXCEPT ![run[i].task] = run[i].outcome]
  /\ RunPhase(i, "written")
  /\ UNCHANGED <<retryCount, client, job, njobs, nruns, agentUp,
                 cancelMsgs, handle, crashes>>

NotifyResult(i) ==
  /\ run[i].phase = "written"
  /\ job' = Resolved(job, run[i].task, run[i].outcome)
  /\ RunPhase(i, "notified")
  /\ UNCHANGED <<row, retryCount, client, njobs, nruns, agentUp,
                 cancelMsgs, handle, crashes>>

AgentStep(i) == Deliver(i) \/ Start(i) \/ Finish(i)
ResultStep(i) == ReadResult(i) \/ WriteResult(i) \/ NotifyResult(i)

-----------------------------------------------------------------------------
(* The environment: connections and crashes                                *)

\* The agent connects, disconnects, is superseded, marked or overlooked.
PresenceChanges ==
  /\ agentUp' \in Presence \ {agentUp}
  /\ UNCHANGED <<row, retryCount, client, job, njobs, run, nruns,
                 cancelMsgs, handle, crashes>>

\* A message in flight in either direction dies with its connection, which a
\* new one may have replaced by now.
LoseMessage ==
  /\ \/ \E i \in Runs : /\ run[i].phase \in {"sent", "reported"}
                        /\ RunPhase(i, "lost")
        /\ UNCHANGED cancelMsgs
     \/ \E t \in cancelMsgs : cancelMsgs' = cancelMsgs \ {t}
        /\ UNCHANGED run
  /\ UNCHANGED <<row, retryCount, client, job, njobs, nruns,
                 agentUp, handle, crashes>>

\* The agent process dies with everything it holds.
AgentCrash ==
  /\ ~Linked /\ \E i \in Runs : run[i].phase \in {"queued", "running"}
  /\ run' = [i \in Runs |-> IF run[i].phase \in {"queued", "running"}
                            THEN [run[i] EXCEPT !.phase = "lost"] ELSE run[i]]
  /\ handle' = [t \in Tasks |-> 0]
  /\ UNCHANGED <<row, retryCount, client, job, njobs, nruns,
                 agentUp, cancelMsgs, crashes>>

\* The server restarts: calls, handlers, waiters and sockets are gone, the
\* rows and the queue remain. BullMQ finds the jobs workers held stalled and
\* delivers them again, once: a job that stalls twice fails.
Redelivered(record) ==
  [record EXCEPT !.phase = IF record.stalled THEN "failed" ELSE "waiting",
                 !.up = FALSE, !.stalled = TRUE]
AfterRestart(phase) ==
  IF phase \in {"reported", "accepted"} THEN "lost"
  ELSE IF phase = "written" THEN "ignored" ELSE phase

ServerCrash ==
  /\ crashes < MaxCrashes
  /\ crashes' = crashes + 1
  /\ client' = [c \in Clients |-> Idle]
  /\ job' = [j \in Jobs |-> IF job[j].phase \in ActivePhases THEN Redelivered(job[j])
                            ELSE job[j]]
  /\ run' = [i \in Runs |-> [run[i] EXCEPT !.phase = AfterRestart(run[i].phase)]]
  /\ agentUp' = IF RowSaysOnline THEN "stale" ELSE "offline"
  /\ UNCHANGED <<row, retryCount, njobs, nruns, cancelMsgs, handle>>

Environment ==
  \/ PresenceChanges \/ LoseMessage \/ AgentCrash \/ ServerCrash

-----------------------------------------------------------------------------
Next ==
  \/ \E c \in Clients, t \in Tasks : Create(c, t) \/ CancelRead(c, t) \/ RetryRead(c, t)
  \/ \E c \in Clients : ClientStep(c)
  \/ \E j \in Jobs : WorkerStep(j)
  \/ \E i \in Runs : AgentStep(i) \/ ResultStep(i)
  \/ \E t \in Tasks : DeliverCancel(t)
  \/ Environment

Spec == Init /\ [][Next]_vars

\* What the runtime guarantees: Node resumes a handler whose await is
\* answered, a timer fires, BullMQ hands a waiting job to a free slot. Nothing
\* is assumed of the agent, of the network or of the users.
Fairness ==
  /\ \A j \in Jobs : WF_vars(WorkerStep(j))
  /\ \A c \in Clients : WF_vars(ClientStep(c))
  /\ \A i \in Runs : WF_vars(ResultStep(i))

FairSpec == Spec /\ Fairness

-----------------------------------------------------------------------------
(* Properties *)

ClientPcs == {"idle", "inserted", "enqueued", "cancelling", "cancelled", "retrying"}
JobPhases == LivePhases \cup {"none", "done", "failed"}
RunPhases == OpenPhases \cup {"none", "written", "notified", "ignored", "lost"}

Calls      == [pc : ClientPcs, task : Tasks, wasRunning : BOOLEAN]
JobRecords == [phase : JobPhases, task : Tasks, tries : Nat, up : BOOLEAN, run : 0..MaxRuns,
               stalled : BOOLEAN]
RunRecords == [phase : RunPhases, task : Tasks, cancelled : BOOLEAN,
               outcome : {"COMPLETED", "FAILED", "CANCELLED"}]

\* Every variable holds what its column, map or registry can hold; jobs and
\* runs are numbered in the order they were added.
TypeOK ==
  /\ row \in [Tasks -> Status \cup {"ABSENT"}]
  /\ retryCount \in [Tasks -> 0..MaxRetries]
  /\ client \in [Clients -> Calls]
  /\ job \in [Jobs -> JobRecords] /\ njobs \in 0..MaxJobs
  /\ run \in [Runs -> RunRecords] /\ nruns \in 0..MaxRuns
  /\ agentUp \in Presence
  /\ cancelMsgs \subseteq Tasks
  /\ handle \in [Tasks -> 0..MaxRuns]
  /\ crashes \in 0..MaxCrashes

\* A row that says RUNNING is never simply forgotten: a job of the task is
\* still in the queue or in a worker, or its payload never resolved and BullMQ
\* gave up on it, or a dispatch of the task can still report, or its
\* message was lost on the way. (process() may end on a notification meant
\* for an earlier attempt, so "a job is live" alone is not invariant.)
RunningAccounted ==
  \A t \in Tasks : row[t] = "RUNNING" =>
    \/ \E j \in Jobs : job[j].task = t /\ job[j].phase \in LivePhases \cup {"failed"}
    \/ \E i \in Runs : run[i].task = t /\ run[i].phase \in OpenPhases \cup {"lost"}

\* No lost wake-up: a worker never waits for a dispatch whose result has
\* already been announced, because task:execute is emitted and the waiter
\* registered in one turn of the event loop.
NoMissedResult ==
  \A j \in Jobs : job[j].phase = "wait" =>
                 run[job[j].run].phase # "notified"

\* The cancel registry of the agent never names a run that has ended, even
\* when two runs of one task overlap and share its key.
HandleIsLive ==
  \A t \in Tasks : handle[t] # 0 =>
    run[handle[t]].phase = "running" /\ run[handle[t]].task = t

\* A task reaches the agent at most once for its creation and once for each
\* retry, and after a restart of the server once more for each of these, how
\* ever many restarts there are: neither overlapping retries nor the attempts
\* of BullMQ send it more often, and a job that stalls twice is not repeated.
Dispatches(t) == {i \in Runs : run[i].phase # "none" /\ run[i].task = t}
DispatchBound ==
  \A t \in Tasks :
    Cardinality(Dispatches(t)) <= (1 + retryCount[t]) * (IF crashes = 0 THEN 1 ELSE 2)

\* A row that says PENDING belongs to a create or retry still under way,
\* unless a restart cut that call short before the job was queued.
PendingIsOwned ==
  \A t \in Tasks : row[t] = "PENDING" =>
    \/ crashes > 0
    \/ \E c \in Clients : client[c].task = t /\ client[c].pc \in {"inserted", "enqueued"}

\* Every job ends: whatever the agent, the network and the users do, process()
\* returns and its worker slot is free again.
JobsSettle ==
  \A j \in Jobs : (job[j].phase # "none") ~> (job[j].phase \in {"done", "failed"})

\* A RUNNING row does not stay RUNNING.
RunningEnds == \A t \in Tasks : (row[t] = "RUNNING") ~> (row[t] # "RUNNING")

\* The state diagram of the documentation: no arrow leads out of COMPLETED,
\* FAILED, TIMEOUT and CANCELLED. Only a retry takes the row up again, by
\* PENDING; no late write of the worker, of create or of the timeout does.
EndedIsFinal ==
  [][\A t \in Tasks : row[t] \in Terminal => row'[t] \in {row[t], "PENDING"}]_vars
=============================================================================
