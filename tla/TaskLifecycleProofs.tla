------------------------ MODULE TaskLifecycleProofs -------------------------
(***************************************************************************)
(* Theorems about TaskLifecycle, for every set of tasks and of clients and *)
(* every value of the bounds.                                              *)
(*                                                                         *)
(* The inductive invariant is IInv. Beside TypeOK it says that job and run *)
(* slots are taken in order (Numbering), so that an addition never         *)
(* overwrites a record in use; what a waiter waits for (WaiterMatches);    *)
(* and, for a RUNNING row, which records stand for it (RunningBacked): not *)
(* the waiters, because a notification meant for another attempt may end   *)
(* them, but the jobs before their dispatch and the dispatches themselves. *)
(* How often a task is sent follows from an invariant that counts sets:    *)
(* of jobs that may have sent it (DispatchInv), against retryCount.        *)
(***************************************************************************)
EXTENDS TaskLifecycle, FiniteSetTheorems, TLAPS

Numbering ==
  /\ \A j \in Jobs : j > njobs => job[j].phase = "none"
  /\ \A i \in Runs : i > nruns => run[i].phase = "none"

WaiterMatches ==
  \A j \in Jobs : job[j].phase = "wait" =>
    /\ job[j].run \in 1..nruns
    /\ run[job[j].run].task = job[j].task
    /\ run[job[j].run].phase # "notified"

\* The jobs and the runs a RUNNING row is backed by.
JobBacks(j, t) ==
  /\ job[j].task = t
  /\ job[j].phase \in {"waiting", "loaded", "dispatching", "failed"}
RunBacks(i, t) ==
  /\ run[i].task = t
  /\ run[i].phase \in OpenPhases \cup {"lost"}

RunningBacked ==
  \A t \in Tasks : row[t] = "RUNNING" =>
    (\E j \in Jobs : JobBacks(j, t)) \/ (\E i \in Runs : RunBacks(i, t))

IInv == TypeOK /\ Numbering /\ WaiterMatches /\ RunningBacked /\ HandleIsLive

-----------------------------------------------------------------------------
(* Records *)

LEMMA AnyTaskIsTask == AnyTask \in Tasks
  BY TasksAssumption DEF AnyTask

LEMMA Names ==
  /\ ActivePhases \cup {"none", "waiting", "done", "failed"} = JobPhases
  /\ OpenPhases \cup {"none", "written", "notified", "ignored", "lost"} = RunPhases
  /\ Terminal \cup {"PENDING", "QUEUED", "RUNNING"} = Status
  BY DEF JobPhases, LivePhases, RunPhases, Status

\* The two shapes in which a worker step updates its job.
LEMMA JobStep ==
  ASSUME NEW jobs \in [Jobs -> JobRecords], NEW j \in Jobs,
         NEW p \in JobPhases, NEW u \in BOOLEAN
  PROVE  [jobs EXCEPT ![j].phase = p, ![j].up = u] \in [Jobs -> JobRecords]
  BY DEF JobRecords

LEMMA JobWaits ==
  ASSUME NEW jobs \in [Jobs -> JobRecords], NEW j \in Jobs,
         NEW p \in JobPhases, NEW r \in 0..MaxRuns
  PROVE  [jobs EXCEPT ![j].phase = p, ![j].run = r] \in [Jobs -> JobRecords]
  BY DEF JobRecords

LEMMA RunStep ==
  ASSUME run \in [Runs -> RunRecords], NEW i \in Runs, NEW p \in RunPhases, RunPhase(i, p)
  PROVE  run' \in [Runs -> RunRecords]
  BY DEF RunPhase, RunRecords

LEMMA CallStep ==
  ASSUME client \in [Clients -> Calls], NEW c \in Clients, NEW t \in Tasks,
         NEW p \in ClientPcs, NEW b \in BOOLEAN,
         Begin(c, t, p, b) \/ Move(c, p) \/ Return(c)
  PROVE  client' \in [Clients -> Calls]
<1>1. CASE Begin(c, t, p, b)
  BY <1>1 DEF Begin, Calls
<1>2. CASE Move(c, p)
  BY <1>2 DEF Move, Calls
<1>3. CASE Return(c)
  BY <1>3, AnyTaskIsTask DEF Return, Idle, Calls, ClientPcs
<1>. QED
  BY <1>1, <1>2, <1>3

LEMMA RunsAreNumbers == Runs \subseteq 0..MaxRuns
  BY BoundsAssumption DEF Runs

\* What notifying a task does to a job: nothing but to end its wait.
LEMMA ResolvedJob ==
  ASSUME NEW jobs \in [Jobs -> JobRecords], NEW t, NEW outcome
  PROVE  /\ Resolved(jobs, t, outcome) \in [Jobs -> JobRecords]
         /\ \A j \in Jobs :
              /\ Resolved(jobs, t, outcome)[j].task = jobs[j].task
              /\ Resolved(jobs, t, outcome)[j].run = jobs[j].run
              /\ Resolved(jobs, t, outcome)[j].stalled = jobs[j].stalled
              /\ jobs[j].phase # "wait" =>
                   Resolved(jobs, t, outcome)[j].phase = jobs[j].phase
              /\ jobs[j].phase = "wait" =>
                   \/ Resolved(jobs, t, outcome)[j].phase \in {"expired", "done"}
                   \/ jobs[j].task # t /\ Resolved(jobs, t, outcome)[j].phase = "wait"
  BY DEF Resolved, JobRecords, JobPhases, LivePhases, ActivePhases

-----------------------------------------------------------------------------
(* Type correctness *)

LEMMA TypeInit == Init => TypeOK
  BY AnyTaskIsTask, BoundsAssumption, Names
     DEF Init, TypeOK, Idle, NoJob, NoRun, Calls, JobRecords, RunRecords, ClientPcs, Presence

LEMMA TypeStep == TypeOK /\ [Next]_vars => TypeOK'
<1> SUFFICES ASSUME TypeOK, [Next]_vars PROVE TypeOK'
  OBVIOUS
<1>. USE AnyTaskIsTask, Names DEF TypeOK
<1>1. ASSUME NEW c \in Clients, NEW t \in Tasks, Create(c, t) PROVE TypeOK'
  <2>1. client' \in [Clients -> Calls]
    BY <1>1, CallStep DEF Create, ClientPcs
  <2>. QED
    BY <1>1, <2>1 DEF Create, Terminal
<1>2. ASSUME NEW c \in Clients, NEW t \in Tasks, CancelRead(c, t) PROVE TypeOK'
  <2>1. client' \in [Clients -> Calls]
    BY <1>2, CallStep DEF CancelRead, ClientPcs
  <2>. QED
    BY <1>2, <2>1 DEF CancelRead, Terminal
<1>3. ASSUME NEW c \in Clients, NEW t \in Tasks, RetryRead(c, t) PROVE TypeOK'
  <2>1. client' \in [Clients -> Calls]
    BY <1>3, CallStep DEF RetryRead, ClientPcs
  <2>. QED
    BY <1>3, <2>1 DEF RetryRead, Terminal
<1>4. ASSUME NEW c \in Clients, Enqueue(c) PROVE TypeOK'
  <2>1. client' \in [Clients -> Calls]
    BY <1>4, CallStep DEF Enqueue, ClientPcs, Calls
  <2>2. njobs + 1 \in 0..MaxJobs /\ njobs + 1 \in Jobs
    BY <1>4, BoundsAssumption DEF Enqueue, Jobs
  <2>3. job' \in [Jobs -> JobRecords]
    <3>1. [NoJob EXCEPT !.phase = "waiting", !.task = client[c].task] \in JobRecords
      <4>1. NoJob \in JobRecords
        BY BoundsAssumption DEF NoJob, JobRecords
      <4>2. client[c].task \in Tasks
        BY DEF Calls
      <4>. QED
        BY <4>1, <4>2 DEF JobRecords
    <3>. QED
      BY <1>4, <3>1 DEF Enqueue
  <2>. QED
    BY <1>4, <2>1, <2>2, <2>3 DEF Enqueue, Calls
<1>5. ASSUME NEW c \in Clients, MarkQueued(c) PROVE TypeOK'
  <2>1. client' \in [Clients -> Calls]
    BY <1>5, CallStep DEF MarkQueued, ClientPcs, Calls
  <2>. QED
    BY <1>5, <2>1 DEF MarkQueued, Calls
<1>6. ASSUME NEW c \in Clients, CancelWrite(c) PROVE TypeOK'
  <2>1. client' \in [Clients -> Calls]
    BY <1>6, CallStep DEF CancelWrite, ClientPcs, Calls
  <2>. QED
    BY <1>6, <2>1 DEF CancelWrite, Calls, Terminal
<1>7. ASSUME NEW c \in Clients, CancelNotify(c) PROVE TypeOK'
  <2>1. client' \in [Clients -> Calls]
    BY <1>7, CallStep DEF CancelNotify, ClientPcs, Calls
  <2>. QED
    BY <1>7, <2>1, ResolvedJob DEF CancelNotify, Calls
<1>8. ASSUME NEW c \in Clients, RetryWrite(c) PROVE TypeOK'
  <2>1. client' \in [Clients -> Calls]
    BY <1>8, CallStep DEF RetryWrite, ClientPcs, Calls
  <2>. QED
    BY <1>8, <2>1, BoundsAssumption DEF RetryWrite, Calls
<1>9. ASSUME NEW j \in Jobs, Pick(j) PROVE TypeOK'
  <2>1. (row[job[j].task] # "CANCELLED" /\ RowSaysOnline) \in BOOLEAN
    OBVIOUS
  <2>2. (IF row[job[j].task] = "CANCELLED" THEN "done" ELSE "loaded") \in JobPhases
    BY DEF ActivePhases
  <2>3. job' \in [Jobs -> JobRecords]
    BY <1>9, <2>1, <2>2, JobStep, Zenon DEF Pick
  <2>. QED
    BY <1>9, <2>3 DEF Pick
<1>10. ASSUME NEW j \in Jobs, RefuseLapsed(j) PROVE TypeOK'
  <2>1. job' \in [Jobs -> JobRecords]
    BY <1>10, JobStep DEF RefuseLapsed, SetPhase, ActivePhases
  <2>. QED
    BY <1>10, <2>1 DEF RefuseLapsed, JobRecords, Terminal
<1>11. ASSUME NEW j \in Jobs, RefuseOffline(j) PROVE TypeOK'
  <2>1. job' \in [Jobs -> JobRecords]
    BY <1>11, JobStep DEF RefuseOffline, SetPhase, ActivePhases
  <2>. QED
    BY <1>11, <2>1 DEF RefuseOffline, JobRecords, Terminal
<1>12. ASSUME NEW j \in Jobs, AnnounceOffline(j) PROVE TypeOK'
  BY <1>12, ResolvedJob DEF AnnounceOffline, JobRecords
<1>13. ASSUME NEW j \in Jobs, MarkRunning(j) PROVE TypeOK'
  <2>1. job' \in [Jobs -> JobRecords]
    BY <1>13, JobStep DEF MarkRunning, SetPhase, ActivePhases
  <2>. QED
    BY <1>13, <2>1 DEF MarkRunning, JobRecords, Terminal
<1>14. ASSUME NEW j \in Jobs, ResolveFails(j) PROVE TypeOK'
  BY <1>14 DEF ResolveFails, JobRecords, ActivePhases
<1>15. ASSUME NEW j \in Jobs, Dispatch(j) PROVE TypeOK'
  <2>1. nruns + 1 \in 0..MaxRuns /\ nruns + 1 \in Runs
    BY <1>15, BoundsAssumption DEF Dispatch, Runs
  <2>2. run' \in [Runs -> RunRecords]
    BY <1>15, <2>1 DEF Dispatch, NoRun, RunRecords, JobRecords, OpenPhases
  <2>3. job' \in [Jobs -> JobRecords]
    BY <1>15, <2>1, JobWaits DEF Dispatch, ActivePhases
  <2>. QED
    BY <1>15, <2>1, <2>2, <2>3 DEF Dispatch
<1>16. ASSUME NEW j \in Jobs, WaitTimeout(j) PROVE TypeOK'
  <2>1. job' \in [Jobs -> JobRecords]
    BY <1>16, JobStep DEF WaitTimeout, SetPhase, ActivePhases
  <2>. QED
    BY <1>16, <2>1 DEF WaitTimeout, JobRecords
<1>17. ASSUME NEW j \in Jobs, TimeoutRead(j) PROVE TypeOK'
  <2>1. job' \in [Jobs -> JobRecords]
    BY <1>17, JobStep DEF TimeoutRead, SetPhase, ActivePhases
  <2>. QED
    BY <1>17, <2>1 DEF TimeoutRead, JobRecords
<1>18. ASSUME NEW j \in Jobs, TimeoutWrite(j) PROVE TypeOK'
  <2>1. job' \in [Jobs -> JobRecords]
    BY <1>18, JobStep DEF TimeoutWrite, SetPhase, ActivePhases
  <2>. QED
    BY <1>18, <2>1 DEF TimeoutWrite, JobRecords, Terminal
<1>19. ASSUME NEW j \in Jobs, TimeoutNotify(j) PROVE TypeOK'
  BY <1>19, ResolvedJob DEF TimeoutNotify, JobRecords
<1>20. ASSUME NEW i \in Runs, Deliver(i) PROVE TypeOK'
  <2>1. run' \in [Runs -> RunRecords]
    BY <1>20, RunStep DEF Deliver, OpenPhases
  <2>. QED
    BY <1>20, <2>1 DEF Deliver
<1>21. ASSUME NEW i \in Runs, Start(i) PROVE TypeOK'
  <2>1. run' \in [Runs -> RunRecords]
    BY <1>21, RunStep DEF Start, OpenPhases
  <2>. QED
    BY <1>21, <2>1, RunsAreNumbers DEF Start
<1>22. ASSUME NEW i \in Runs, Finish(i) PROVE TypeOK'
  <2>1. run' \in [Runs -> RunRecords]
    BY <1>22, OutcomesAssumption DEF Finish, RunRecords, OpenPhases
  <2>. QED
    BY <1>22, <2>1, BoundsAssumption DEF Finish, RunRecords
<1>23. ASSUME NEW i \in Runs, ReadResult(i) PROVE TypeOK'
  <2>1. run' \in [Runs -> RunRecords]
    BY <1>23, RunStep DEF ReadResult, OpenPhases
  <2>. QED
    BY <1>23, <2>1 DEF ReadResult
<1>24. ASSUME NEW i \in Runs, WriteResult(i) PROVE TypeOK'
  <2>1. run' \in [Runs -> RunRecords]
    BY <1>24, RunStep DEF WriteResult, OpenPhases
  <2>. QED
    BY <1>24, <2>1 DEF WriteResult, RunRecords, Terminal
<1>25. ASSUME NEW i \in Runs, NotifyResult(i) PROVE TypeOK'
  <2>1. run' \in [Runs -> RunRecords]
    BY <1>25, RunStep DEF NotifyResult, OpenPhases
  <2>. QED
    BY <1>25, <2>1, ResolvedJob DEF NotifyResult
<1>26. ASSUME NEW t \in Tasks, DeliverCancel(t) PROVE TypeOK'
  <2>1. run' \in [Runs -> RunRecords]
    <3>1. CASE handle[t] = 0
      BY <1>26, <3>1 DEF DeliverCancel
    <3>2. CASE handle[t] # 0
      <4>1. \A r \in RunRecords : [r EXCEPT !.cancelled = TRUE] \in RunRecords
        BY DEF RunRecords
      <4>. QED
        BY <1>26, <3>2, <4>1 DEF DeliverCancel
    <3>. QED
      BY <3>1, <3>2
  <2>2. cancelMsgs' \subseteq Tasks
    BY <1>26 DEF DeliverCancel
  <2>. QED
    BY <1>26, <2>1, <2>2 DEF DeliverCancel
<1>27. CASE PresenceChanges
  BY <1>27 DEF PresenceChanges
<1>28. CASE LoseMessage
  <2>1. run' \in [Runs -> RunRecords]
    BY <1>28 DEF LoseMessage, RunRecords, RunPhase
  <2>. QED
    BY <1>28, <2>1, BoundsAssumption DEF LoseMessage
<1>29. CASE AgentCrash
  <2>1. run' \in [Runs -> RunRecords]
    BY <1>29 DEF AgentCrash, RunRecords
  <2>. QED
    BY <1>29, <2>1, BoundsAssumption DEF AgentCrash
<1>30. CASE ServerCrash
  <2>1. ASSUME NEW i \in Runs
        PROVE  [run[i] EXCEPT !.phase = AfterRestart(run[i].phase)] \in RunRecords
    <3>1. AfterRestart(run[i].phase) \in RunPhases
      BY DEF AfterRestart, RunRecords
    <3>. QED
      BY <3>1 DEF RunRecords
  <2>2. run' \in [Runs -> RunRecords]
    BY <1>30, <2>1, Zenon DEF ServerCrash
  <2>3. ASSUME NEW j \in Jobs PROVE Redelivered(job[j]) \in JobRecords
    BY DEF Redelivered, JobRecords
  <2>4. job' \in [Jobs -> JobRecords]
    BY <1>30, <2>3 DEF ServerCrash
  <2>5. client' \in [Clients -> Calls]
    BY <1>30 DEF ServerCrash, Idle, Calls, ClientPcs
  <2>. QED
    BY <1>30, <2>2, <2>4, <2>5, BoundsAssumption DEF ServerCrash, Presence
<1>31. CASE UNCHANGED vars
  BY <1>31 DEF vars
<1>. QED
  BY <1>1, <1>2, <1>3, <1>4, <1>5, <1>6, <1>7, <1>8, <1>9, <1>10, <1>11, <1>12, <1>13, <1>14, <1>15, <1>16, <1>17, <1>18, <1>19, <1>20, <1>21, <1>22, <1>23, <1>24, <1>25, <1>26, <1>27, <1>28, <1>29, <1>30, <1>31
     DEF Next, ClientStep, WorkerStep, AgentStep, ResultStep, Environment

\* Every variable keeps its type: no handler writes a status the schema does
\* not have, and no counter passes the bound its guard names.
THEOREM TypeCorrect == Spec => []TypeOK
  BY TypeInit, TypeStep, PTL DEF Spec

-----------------------------------------------------------------------------
(* Frames: what the two common updates leave alone *)

LEMMA SetPhaseFrame ==
  ASSUME TypeOK, NEW j \in Jobs, NEW p, SetPhase(j, p)
  PROVE  /\ job'[j].phase = p
         /\ \A k \in Jobs : /\ job'[k].task = job[k].task /\ job'[k].run = job[k].run
                            /\ job'[k].stalled = job[k].stalled
                            /\ k # j => job'[k].phase = job[k].phase
  BY DEF TypeOK, SetPhase, JobRecords

LEMMA RunPhaseFrame ==
  ASSUME TypeOK, NEW i \in Runs, NEW p, RunPhase(i, p)
  PROVE  /\ run'[i].phase = p
         /\ \A k \in Runs : /\ run'[k].task = run[k].task
                            /\ k # i => run'[k].phase = run[k].phase
  BY DEF TypeOK, RunPhase, RunRecords

\* The steps of Next that touch neither jobs nor runs nor their numbers.
Aside ==
  \/ \E c \in Clients, t \in Tasks : Create(c, t) \/ CancelRead(c, t) \/ RetryRead(c, t)
  \/ \E c \in Clients : MarkQueued(c) \/ CancelWrite(c) \/ RetryWrite(c)
  \/ PresenceChanges \/ UNCHANGED vars

LEMMA AsideFrame == Aside => UNCHANGED <<job, njobs, run, nruns, handle>>
  BY DEF Aside, Create, CancelRead, RetryRead, MarkQueued, CancelWrite, RetryWrite,
         PresenceChanges, vars, Begin

\* The worker steps that only set the phase of their job (Pick also reads).
Stepped(j) ==
  \/ RefuseLapsed(j) \/ RefuseOffline(j) \/ MarkRunning(j)
  \/ WaitTimeout(j) \/ TimeoutRead(j) \/ TimeoutWrite(j)

LEMMA SteppedFrame ==
  ASSUME NEW j \in Jobs, Stepped(j)
  PROVE  /\ UNCHANGED <<njobs, run, nruns, handle>>
         /\ job[j].phase \in {"loaded", "wait", "expired", "closing"}
         /\ \E p \in {"done", "offline", "dispatching", "expired", "closing", "announce"} :
              SetPhase(j, p)
  BY DEF Stepped, RefuseLapsed, RefuseOffline, MarkRunning, WaitTimeout, TimeoutRead,
         TimeoutWrite

\* The steps of the agent and of the gateway that only set the phase of a run.
Advanced(i) == Deliver(i) \/ ReadResult(i) \/ WriteResult(i)

LEMMA AdvancedFrame ==
  ASSUME NEW i \in Runs, Advanced(i)
  PROVE  /\ UNCHANGED <<job, njobs, nruns, handle>>
         /\ run[i].phase \in {"sent", "reported", "accepted"}
         /\ \E p \in {"queued", "ignored", "accepted", "written"} : RunPhase(i, p)
  BY DEF Advanced, Deliver, ReadResult, WriteResult

\* A job's wait may have ended, its process() may be over; nothing else moved.
Ended(j) ==
  /\ job'[j].task = job[j].task /\ job'[j].run = job[j].run
  /\ job'[j].stalled = job[j].stalled
  /\ \/ job'[j].phase = job[j].phase
     \/ /\ job[j].phase \in {"wait", "offline", "announce"}
        /\ job'[j].phase \in {"expired", "done"}

LEMMA AnnounceFrame ==
  ASSUME TypeOK, NEW j \in Jobs, AnnounceOffline(j) \/ TimeoutNotify(j)
  PROVE  UNCHANGED <<njobs, run, nruns, handle>> /\ \A k \in Jobs : Ended(k)
<1>1. PICK outcome \in {"FAILED", "TIMEOUT"} :
        job' = [Resolved(job, job[j].task, outcome) EXCEPT ![j].phase = "done"]
  BY DEF AnnounceOffline, TimeoutNotify
<1>2. /\ Resolved(job, job[j].task, outcome) \in [Jobs -> JobRecords]
      /\ \A k \in Jobs : LET r == Resolved(job, job[j].task, outcome)[k] IN
           /\ r.task = job[k].task /\ r.run = job[k].run /\ r.stalled = job[k].stalled
           /\ job[k].phase # "wait" => r.phase = job[k].phase
           /\ job[k].phase = "wait" => r.phase \in {"expired", "done", "wait"}
  BY ResolvedJob DEF TypeOK
<1>3. job[j].phase \in {"offline", "announce"}
  BY DEF AnnounceOffline, TimeoutNotify
<1>4. ASSUME NEW k \in Jobs PROVE Ended(k)
  BY <1>1, <1>2, <1>3 DEF Ended, JobRecords
<1>. QED
  BY <1>4 DEF AnnounceOffline, TimeoutNotify

LEMMA Steps ==
  ASSUME [Next]_vars
  PROVE  \/ Aside
         \/ \E c \in Clients : Enqueue(c) \/ CancelNotify(c)
         \/ \E j \in Jobs : \/ Stepped(j) \/ Pick(j) \/ AnnounceOffline(j)
                            \/ ResolveFails(j) \/ Dispatch(j) \/ TimeoutNotify(j)
         \/ \E i \in Runs : Advanced(i) \/ Start(i) \/ Finish(i) \/ NotifyResult(i)
         \/ \E t \in Tasks : DeliverCancel(t)
         \/ LoseMessage \/ AgentCrash \/ ServerCrash
  BY DEF Next, ClientStep, WorkerStep, AgentStep, ResultStep, Environment,
         Aside, Stepped, Advanced

-----------------------------------------------------------------------------
(* Job and run slots are taken in order *)

LEMMA NumberingStep ==
  ASSUME TypeOK, Numbering, [Next]_vars PROVE Numbering'
<1>1. CASE Aside
  BY <1>1, AsideFrame DEF Numbering
<1>2. ASSUME NEW c \in Clients, Enqueue(c) PROVE Numbering'
  BY <1>2, BoundsAssumption DEF Enqueue, Numbering, TypeOK, Jobs
<1>3. ASSUME NEW c \in Clients, CancelNotify(c) PROVE Numbering'
  BY <1>3, ResolvedJob DEF CancelNotify, Numbering, TypeOK
<1>4. ASSUME NEW j \in Jobs, Stepped(j) PROVE Numbering'
  BY <1>4, SteppedFrame, SetPhaseFrame DEF Numbering
<1>5. ASSUME NEW j \in Jobs, Pick(j) PROVE Numbering'
  BY <1>5 DEF Pick, Numbering, TypeOK, JobRecords
<1>6. ASSUME NEW j \in Jobs, AnnounceOffline(j) \/ TimeoutNotify(j) PROVE Numbering'
  BY <1>6, AnnounceFrame DEF Ended, Numbering
<1>7. ASSUME NEW j \in Jobs, ResolveFails(j) PROVE Numbering'
  BY <1>7 DEF ResolveFails, Numbering, TypeOK, JobRecords
<1>8. ASSUME NEW j \in Jobs, Dispatch(j) PROVE Numbering'
  <2>1. \A k \in Jobs : k > njobs => job'[k].phase = "none"
    BY <1>8 DEF Dispatch, Numbering, TypeOK, JobRecords
  <2>2. \A i \in Runs : i > nruns + 1 => run'[i].phase = "none"
    BY <1>8, BoundsAssumption DEF Dispatch, Numbering, TypeOK, Runs
  <2>. QED
    BY <1>8, <2>1, <2>2 DEF Dispatch, Numbering
<1>9. ASSUME NEW i \in Runs, Advanced(i) PROVE Numbering'
  BY <1>9, AdvancedFrame, RunPhaseFrame DEF Numbering
<1>10. ASSUME NEW i \in Runs, Start(i) PROVE Numbering'
  BY <1>10, RunPhaseFrame DEF Start, Numbering
<1>11. ASSUME NEW i \in Runs, Finish(i) PROVE Numbering'
  BY <1>11 DEF Finish, Numbering, TypeOK, RunRecords
<1>12. ASSUME NEW i \in Runs, NotifyResult(i) PROVE Numbering'
  BY <1>12, RunPhaseFrame, ResolvedJob DEF NotifyResult, Numbering, TypeOK
<1>13. ASSUME NEW t \in Tasks, DeliverCancel(t) PROVE Numbering'
  BY <1>13 DEF DeliverCancel, Numbering, TypeOK, RunRecords
<1>14. CASE LoseMessage
  BY <1>14, RunPhaseFrame DEF LoseMessage, Numbering
<1>15. CASE AgentCrash
  BY <1>15 DEF AgentCrash, Numbering
<1>16. CASE ServerCrash
  BY <1>16 DEF ServerCrash, AfterRestart, ActivePhases, Numbering, TypeOK, RunRecords
<1>. QED
  BY Steps, <1>1, <1>2, <1>3, <1>4, <1>5, <1>6, <1>7, <1>8, <1>9, <1>10, <1>11,
     <1>12, <1>13, <1>14, <1>15, <1>16

-----------------------------------------------------------------------------
(* The cancel registry of the agent *)

LEMMA HandleStep ==
  ASSUME TypeOK, Numbering, HandleIsLive, [Next]_vars PROVE HandleIsLive'
<1>. USE DEF HandleIsLive
<1>0. \A t \in Tasks : handle[t] # 0 => handle[t] \in Runs
  BY BoundsAssumption DEF TypeOK, Runs
<1>1. CASE Aside
  BY <1>1, AsideFrame
<1>2. ASSUME NEW c \in Clients, Enqueue(c) \/ CancelNotify(c) PROVE HandleIsLive'
  BY <1>2 DEF Enqueue, CancelNotify
<1>3. ASSUME NEW j \in Jobs, Stepped(j) PROVE HandleIsLive'
  BY <1>3, SteppedFrame
<1>4. ASSUME NEW j \in Jobs, AnnounceOffline(j) \/ TimeoutNotify(j) PROVE HandleIsLive'
  BY <1>4, AnnounceFrame
<1>5. ASSUME NEW j \in Jobs, Pick(j) \/ ResolveFails(j) PROVE HandleIsLive'
  BY <1>5 DEF Pick, ResolveFails
<1>6. ASSUME NEW j \in Jobs, Dispatch(j) PROVE HandleIsLive'
  <2>1. nruns + 1 \in Runs => run[nruns + 1].phase = "none"
    BY BoundsAssumption DEF Numbering, TypeOK, Runs
  <2>2. \A t \in Tasks : handle[t] # 0 => handle[t] # nruns + 1
    BY <1>0, <2>1
  <2>. QED
    BY <1>6, <1>0, <2>2 DEF Dispatch, TypeOK
<1>7. ASSUME NEW i \in Runs, Advanced(i) PROVE HandleIsLive'
  BY <1>7, <1>0, AdvancedFrame, RunPhaseFrame
<1>8. ASSUME NEW i \in Runs, Start(i) PROVE HandleIsLive'
  <2>1. /\ run[i].phase = "queued" /\ run'[i].phase = "running"
        /\ run'[i].task = run[i].task /\ run[i].task \in Tasks
        /\ \A k \in Runs : run'[k].task = run[k].task /\ (k # i => run'[k].phase = run[k].phase)
    BY <1>8, RunPhaseFrame DEF Start, TypeOK, RunRecords
  <2>2. handle' = [handle EXCEPT ![run[i].task] = i]
    BY <1>8 DEF Start
  <2>. QED
    BY <1>0, <2>1, <2>2 DEF TypeOK
<1>9. ASSUME NEW i \in Runs, Finish(i) PROVE HandleIsLive'
  <2>1. /\ run[i].task \in Tasks
        /\ \A k \in Runs : k # i => run'[k] = run[k]
    BY <1>9 DEF Finish, TypeOK, RunRecords
  <2>2. handle' = [handle EXCEPT ![run[i].task] = 0]
    BY <1>9 DEF Finish
  <2>. QED
    BY <1>0, <2>1, <2>2 DEF TypeOK
<1>10. ASSUME NEW i \in Runs, NotifyResult(i) PROVE HandleIsLive'
  BY <1>10, <1>0, RunPhaseFrame DEF NotifyResult
<1>11. ASSUME NEW t \in Tasks, DeliverCancel(t) PROVE HandleIsLive'
  BY <1>11, <1>0 DEF DeliverCancel, TypeOK, RunRecords
<1>12. CASE LoseMessage
  BY <1>12, <1>0, RunPhaseFrame DEF LoseMessage
<1>13. CASE AgentCrash
  BY <1>13 DEF AgentCrash
<1>14. CASE ServerCrash
  BY <1>14, <1>0 DEF ServerCrash, AfterRestart, TypeOK, RunRecords
<1>. QED
  BY Steps, <1>1, <1>2, <1>3, <1>4, <1>5, <1>6, <1>7, <1>8, <1>9, <1>10, <1>11,
     <1>12, <1>13, <1>14

-----------------------------------------------------------------------------
(* What a worker waits for *)

LEMMA WaiterStep ==
  ASSUME TypeOK, WaiterMatches, [Next]_vars PROVE WaiterMatches'
<1>. USE DEF WaiterMatches
<1>0. \A j \in Jobs : job[j].phase = "wait" => job[j].run \in Runs /\ job[j].run \in 1..nruns
  BY BoundsAssumption DEF TypeOK, Runs
<1>1. CASE Aside
  BY <1>1, AsideFrame
<1>2. ASSUME NEW c \in Clients, Enqueue(c) PROVE WaiterMatches'
  BY <1>2 DEF Enqueue, TypeOK
<1>3. ASSUME NEW c \in Clients, CancelNotify(c) PROVE WaiterMatches'
  BY <1>3, ResolvedJob DEF CancelNotify, TypeOK
<1>4. ASSUME NEW j \in Jobs, Stepped(j) PROVE WaiterMatches'
  BY <1>4, SteppedFrame, SetPhaseFrame
<1>5. ASSUME NEW j \in Jobs, AnnounceOffline(j) \/ TimeoutNotify(j) PROVE WaiterMatches'
  BY <1>5, AnnounceFrame DEF Ended
<1>6. ASSUME NEW j \in Jobs, Pick(j) \/ ResolveFails(j) PROVE WaiterMatches'
  <2>1. /\ UNCHANGED <<run, nruns>> /\ job'[j].phase # "wait"
        /\ \A k \in Jobs : k # j => job'[k] = job[k]
    BY <1>6 DEF Pick, ResolveFails, TypeOK, JobRecords
  <2>. QED
    BY <2>1
<1>7. ASSUME NEW j \in Jobs, Dispatch(j) PROVE WaiterMatches'
  <2>1. /\ nruns + 1 \in Runs /\ nruns \in Nat
        /\ \A k \in Jobs : k # j => job'[k] = job[k]
        /\ job'[j].run = nruns + 1 /\ job'[j].task = job[j].task
    BY <1>7, BoundsAssumption DEF Dispatch, TypeOK, Runs, JobRecords
  <2>2. /\ \A i \in Runs : i # nruns + 1 => run'[i] = run[i]
        /\ run'[nruns + 1].task = job[j].task
        /\ run'[nruns + 1].phase \in {"sent", "lost"}
    BY <1>7, <2>1 DEF Dispatch, TypeOK, NoRun
  <2>3. nruns' = nruns + 1
    BY <1>7 DEF Dispatch
  <2>. QED
    BY <1>0, <2>1, <2>2, <2>3
<1>8. ASSUME NEW i \in Runs, Advanced(i) PROVE WaiterMatches'
  BY <1>8, <1>0, AdvancedFrame, RunPhaseFrame
<1>9. ASSUME NEW i \in Runs, Start(i) PROVE WaiterMatches'
  BY <1>9, <1>0, RunPhaseFrame DEF Start
<1>10. ASSUME NEW i \in Runs, Finish(i) PROVE WaiterMatches'
  <2>1. \A k \in Runs : run'[k].task = run[k].task
                        /\ (run[k].phase # "notified" => run'[k].phase # "notified")
    BY <1>10 DEF Finish, TypeOK, RunRecords
  <2>. QED
    BY <1>10, <1>0, <2>1 DEF Finish
<1>11. ASSUME NEW i \in Runs, NotifyResult(i) PROVE WaiterMatches'
  <2>1. \A j \in Jobs : /\ job'[j].task = job[j].task /\ job'[j].run = job[j].run
                        /\ job'[j].phase = "wait" =>
                             job[j].phase = "wait" /\ job[j].task # run[i].task
    BY <1>11, ResolvedJob DEF NotifyResult, TypeOK
  <2>2. /\ UNCHANGED nruns
        /\ \A k \in Runs : /\ run'[k].task = run[k].task
                           /\ k # i => run'[k].phase = run[k].phase
    BY <1>11, RunPhaseFrame DEF NotifyResult
  <2>. QED
    BY <1>0, <2>1, <2>2
<1>12. ASSUME NEW t \in Tasks, DeliverCancel(t) PROVE WaiterMatches'
  <2>1. \A k \in Runs : run'[k].task = run[k].task /\ run'[k].phase = run[k].phase
    BY <1>12 DEF DeliverCancel, TypeOK, RunRecords
  <2>. QED
    BY <1>12, <1>0, <2>1 DEF DeliverCancel
<1>13. CASE LoseMessage
  BY <1>13, <1>0, RunPhaseFrame DEF LoseMessage
<1>14. CASE AgentCrash
  BY <1>14, <1>0 DEF AgentCrash, TypeOK, RunRecords
<1>15. CASE ServerCrash
  <2>1. \A j \in Jobs : job'[j].phase # "wait"
    BY <1>15 DEF ServerCrash, ActivePhases, Redelivered, TypeOK, JobRecords
  <2>. QED
    BY <2>1
<1>. QED
  BY Steps, <1>1, <1>2, <1>3, <1>4, <1>5, <1>6, <1>7, <1>8, <1>9, <1>10, <1>11,
     <1>12, <1>13, <1>14, <1>15

-----------------------------------------------------------------------------
(* What stands for a RUNNING row *)

LEMMA BackedStep ==
  ASSUME TypeOK, Numbering, RunningBacked, [Next]_vars PROVE RunningBacked'
<1>. USE DEF RunningBacked, JobBacks, RunBacks
<1>a. \A j \in Jobs : job[j].task \in Tasks
  BY DEF TypeOK, JobRecords
<1>b. \A i \in Runs : run[i].task \in Tasks
  BY DEF TypeOK, RunRecords
<1>1. CASE Aside
  <2>1. \A t \in Tasks : row'[t] = "RUNNING" => row[t] = "RUNNING"
    BY <1>1 DEF Aside, Create, CancelRead, RetryRead, MarkQueued, CancelWrite, RetryWrite,
                PresenceChanges, vars, TypeOK
  <2>. QED
    BY <1>1, <2>1, AsideFrame
<1>2. ASSUME NEW c \in Clients, Enqueue(c) PROVE RunningBacked'
  <2>1. njobs + 1 \in Jobs /\ job[njobs + 1].phase = "none"
    BY <1>2, BoundsAssumption DEF Enqueue, Numbering, TypeOK, Jobs
  <2>2. /\ \A k \in Jobs : k # njobs + 1 => job'[k] = job[k]
        /\ UNCHANGED <<row, run>>
    BY <1>2 DEF Enqueue, TypeOK
  <2>. QED
    BY <2>1, <2>2
<1>3. ASSUME NEW c \in Clients, CancelNotify(c) PROVE RunningBacked'
  BY <1>3, ResolvedJob DEF CancelNotify, TypeOK
<1>4. ASSUME NEW j \in Jobs, Stepped(j) PROVE RunningBacked'
  <2>1. UNCHANGED run
    BY <1>4, SteppedFrame
  <2>2. \A k \in Jobs : /\ job'[k].task = job[k].task
                        /\ k # j => job'[k].phase = job[k].phase
    BY <1>4, SteppedFrame, SetPhaseFrame
  <2>3. CASE RefuseLapsed(j) \/ RefuseOffline(j) \/ TimeoutWrite(j)
    <3>1. row'[job[j].task] # "RUNNING" /\ \A t \in Tasks : t # job[j].task => row'[t] = row[t]
      BY <2>3, <1>a DEF RefuseLapsed, RefuseOffline, TimeoutWrite, TypeOK
    <3>. QED
      BY <2>1, <2>2, <3>1
  <2>4. CASE MarkRunning(j)
    <3>1. /\ \A t \in Tasks : t # job[j].task => row'[t] = row[t]
          /\ job'[j].phase = "dispatching"
      BY <2>4, SetPhaseFrame DEF MarkRunning, TypeOK
    <3>. QED
      BY <2>1, <2>2, <3>1
  <2>5. CASE WaitTimeout(j) \/ TimeoutRead(j)
    BY <2>1, <2>2, <2>5 DEF WaitTimeout, TimeoutRead
  <2>. QED
    BY <1>4, <2>3, <2>4, <2>5 DEF Stepped
<1>5. ASSUME NEW j \in Jobs, AnnounceOffline(j) \/ TimeoutNotify(j) PROVE RunningBacked'
  <2>1. UNCHANGED row
    BY <1>5 DEF AnnounceOffline, TimeoutNotify
  <2>. QED
    BY <1>5, <2>1, AnnounceFrame DEF Ended
<1>6. ASSUME NEW j \in Jobs, Pick(j) \/ ResolveFails(j) PROVE RunningBacked'
  <2>1. /\ UNCHANGED <<row, run>> /\ job'[j].task = job[j].task
        /\ \A k \in Jobs : k # j => job'[k] = job[k]
    BY <1>6 DEF Pick, ResolveFails, TypeOK, JobRecords
  <2>2. row[job[j].task] = "RUNNING" => job'[j].phase \in {"waiting", "loaded", "failed"}
    BY <1>6 DEF Pick, ResolveFails, TypeOK, JobRecords
  <2>. QED
    BY <2>1, <2>2
<1>7. ASSUME NEW j \in Jobs, Dispatch(j) PROVE RunningBacked'
  <2>1. nruns + 1 \in Runs /\ run[nruns + 1].phase = "none"
    BY <1>7, BoundsAssumption DEF Dispatch, Numbering, TypeOK, Runs
  <2>2. /\ \A i \in Runs : i # nruns + 1 => run'[i] = run[i]
        /\ run'[nruns + 1].task = job[j].task
        /\ run'[nruns + 1].phase \in {"sent", "lost"}
    BY <1>7, <2>1 DEF Dispatch, TypeOK, NoRun
  <2>3. UNCHANGED row /\ \A k \in Jobs : k # j => job'[k] = job[k]
    BY <1>7 DEF Dispatch, TypeOK
  <2>. QED
    BY <2>1, <2>2, <2>3 DEF OpenPhases
<1>8. ASSUME NEW i \in Runs, Advanced(i) PROVE RunningBacked'
  <2>1. UNCHANGED job
    BY <1>8, AdvancedFrame
  <2>2. \A k \in Runs : /\ run'[k].task = run[k].task
                        /\ k # i => run'[k].phase = run[k].phase
    BY <1>8, AdvancedFrame, RunPhaseFrame
  <2>3. CASE Deliver(i)
    BY <2>1, <2>2, <2>3, RunPhaseFrame DEF Deliver, OpenPhases
  <2>4. CASE ReadResult(i)
    <3>1. UNCHANGED row /\ (row[run[i].task] = "RUNNING" => run'[i].phase = "accepted")
      BY <2>4, RunPhaseFrame DEF ReadResult, Terminal
    <3>. QED
      BY <2>1, <2>2, <3>1 DEF OpenPhases
  <2>5. CASE WriteResult(i)
    <3>1. /\ row'[run[i].task] # "RUNNING"
          /\ \A t \in Tasks : t # run[i].task => row'[t] = row[t]
      BY <2>5, <1>b DEF WriteResult, TypeOK, RunRecords
    <3>. QED
      BY <2>1, <2>2, <3>1
  <2>. QED
    BY <1>8, <2>3, <2>4, <2>5 DEF Advanced
<1>9. ASSUME NEW i \in Runs, Start(i) PROVE RunningBacked'
  BY <1>9, RunPhaseFrame DEF Start, OpenPhases
<1>10. ASSUME NEW i \in Runs, Finish(i) PROVE RunningBacked'
  <2>1. \A k \in Runs : /\ run'[k].task = run[k].task
                        /\ k # i => run'[k].phase = run[k].phase
                        /\ run'[i].phase \in {"reported", "lost"}
    BY <1>10 DEF Finish, TypeOK, RunRecords
  <2>2. UNCHANGED <<row, job>>
    BY <1>10 DEF Finish
  <2>. QED
    BY <2>1, <2>2 DEF OpenPhases
<1>11. ASSUME NEW i \in Runs, NotifyResult(i) PROVE RunningBacked'
  <2>1. \A j \in Jobs : /\ job'[j].task = job[j].task
                        /\ job[j].phase # "wait" => job'[j].phase = job[j].phase
    BY <1>11, ResolvedJob DEF NotifyResult, TypeOK
  <2>2. /\ UNCHANGED row
        /\ \A k \in Runs : /\ run'[k].task = run[k].task
                           /\ k # i => run'[k].phase = run[k].phase
        /\ run[i].phase = "written"
    BY <1>11, RunPhaseFrame DEF NotifyResult
  <2>. QED
    BY <2>1, <2>2 DEF OpenPhases
<1>12. ASSUME NEW t \in Tasks, DeliverCancel(t) PROVE RunningBacked'
  <2>1. \A k \in Runs : run'[k].task = run[k].task /\ run'[k].phase = run[k].phase
    BY <1>12 DEF DeliverCancel, TypeOK, RunRecords
  <2>. QED
    BY <1>12, <2>1 DEF DeliverCancel
<1>13. CASE LoseMessage
  <2>1. UNCHANGED <<row, job>>
        /\ \A k \in Runs : /\ run'[k].task = run[k].task
                           /\ run'[k].phase \in {run[k].phase, "lost"}
    BY <1>13, RunPhaseFrame DEF LoseMessage
  <2>. QED
    BY <2>1
<1>14. CASE AgentCrash
  <2>1. UNCHANGED <<row, job>>
        /\ \A k \in Runs : /\ run'[k].task = run[k].task
                           /\ run'[k].phase \in {run[k].phase, "lost"}
    BY <1>14 DEF AgentCrash, TypeOK, RunRecords
  <2>. QED
    BY <2>1
<1>15. CASE ServerCrash
  <2>1. \A j \in Jobs :
          /\ job'[j].task = job[j].task
          /\ job[j].phase \in {"waiting", "loaded", "dispatching"} =>
               job'[j].phase \in {"waiting", "failed"}
          /\ job[j].phase = "failed" => job'[j].phase = "failed"
    <3> SUFFICES ASSUME NEW j \in Jobs
                 PROVE  /\ job'[j].task = job[j].task
                        /\ job[j].phase \in {"waiting", "loaded", "dispatching"} =>
                             job'[j].phase \in {"waiting", "failed"}
                        /\ job[j].phase = "failed" => job'[j].phase = "failed"
      OBVIOUS
    <3>1. job'[j] = IF job[j].phase \in ActivePhases THEN Redelivered(job[j]) ELSE job[j]
      BY <1>15 DEF ServerCrash
    <3>2. Redelivered(job[j]).task = job[j].task /\ Redelivered(job[j]).phase \in {"waiting", "failed"}
      BY DEF Redelivered, TypeOK, JobRecords
    <3>. QED
      BY <3>1, <3>2 DEF ActivePhases
  <2>2. \A i \in Runs :
          /\ run'[i].task = run[i].task
          /\ run[i].phase \in OpenPhases \cup {"lost"} =>
               run'[i].phase \in OpenPhases \cup {"lost"}
    BY <1>15 DEF ServerCrash, AfterRestart, OpenPhases, TypeOK, RunRecords
  <2>3. UNCHANGED row
    BY <1>15 DEF ServerCrash
  <2>. QED
    BY <2>1, <2>2, <2>3
<1>. QED
  BY Steps, <1>1, <1>2, <1>3, <1>4, <1>5, <1>6, <1>7, <1>8, <1>9, <1>10, <1>11,
     <1>12, <1>13, <1>14, <1>15

-----------------------------------------------------------------------------
(* How often a task is sent: a job that is not before its dispatch may have *)
(* dispatched once, a stalled one once before it stalled, and a job belongs *)
(* to a creation or a retry.                                               *)

Before == {"waiting", "loaded", "dispatching"}
Of(j, t) == job[j].phase # "none" /\ job[j].task = t
JobsOf(t) == {j \in Jobs : Of(j, t)}
Once(t)  == {j \in Jobs : Of(j, t) /\ (job[j].stalled \/ job[j].phase \notin Before)}
Twice(t) == {j \in Jobs : Of(j, t) /\ job[j].stalled /\ job[j].phase \notin Before}

\* The calls that are about to add a job of the task.
Adding(t) == {c \in Clients : client[c].pc = "inserted" /\ client[c].task = t}

Entitled(t) == IF row[t] = "ABSENT" THEN 0 ELSE 1 + retryCount[t]

SentByJobs == \A t \in Tasks :
  Cardinality(Dispatches(t)) <= Cardinality(Once(t)) + Cardinality(Twice(t))
JobsAreOwed == \A t \in Tasks :
  Cardinality(JobsOf(t)) + Cardinality(Adding(t)) <= Entitled(t)
StalledByCrash == \A j \in Jobs : job[j].stalled => crashes > 0

DispatchInv == SentByJobs /\ JobsAreOwed /\ StalledByCrash

LEMMA FiniteParts ==
  ASSUME NEW t
  PROVE  /\ IsFiniteSet(Dispatches(t)) /\ IsFiniteSet(JobsOf(t))
         /\ IsFiniteSet(Once(t)) /\ IsFiniteSet(Twice(t)) /\ IsFiniteSet(Adding(t))
         /\ IsFiniteSet(Dispatches(t)') /\ IsFiniteSet(JobsOf(t)')
         /\ IsFiniteSet(Once(t)') /\ IsFiniteSet(Twice(t)') /\ IsFiniteSet(Adding(t)')
<1>1. IsFiniteSet(Jobs) /\ IsFiniteSet(Runs) /\ IsFiniteSet(Clients)
  BY ClientsAssumption, BoundsAssumption, FS_Interval DEF Jobs, Runs
<1>. QED
  BY <1>1, FS_Subset DEF Dispatches, JobsOf, Once, Twice, Adding

LEMMA OneMore ==
  ASSUME NEW S, NEW T, NEW c, IsFiniteSet(T), S \subseteq T \cup {c}
  PROVE  Cardinality(S) <= Cardinality(T) + 1
<1>1. IsFiniteSet(T \cup {c}) /\ Cardinality(T \cup {c}) \in {Cardinality(T), Cardinality(T) + 1}
  BY FS_AddElement
<1>2. IsFiniteSet(S) /\ Cardinality(S) <= Cardinality(T \cup {c})
  BY <1>1, FS_Subset
<1>3. Cardinality(S) \in Nat /\ Cardinality(T) \in Nat
  BY <1>2, FS_CardinalityType
<1>. QED
  BY <1>1, <1>2, <1>3

\* Neither jobs nor dispatches are added, and no job goes back but by stalling.
JobsKeep ==
  \A k \in Jobs : /\ job'[k].task = job[k].task
                  /\ job'[k].phase = "none" <=> job[k].phase = "none"
                  /\ job[k].stalled => job'[k].stalled
                  /\ job[k].phase \notin Before =>
                       job'[k].phase \notin Before \/ (job'[k].stalled /\ ~job[k].stalled)
                  /\ job'[k].stalled => job[k].stalled \/ crashes' > 0
RunsKeep ==
  \A i \in Runs : /\ run'[i].task = run[i].task
                  /\ run'[i].phase = "none" <=> run[i].phase = "none"
\* Nothing is owed less, and no more jobs are about to be added.
OwedKeep ==
  \A t \in Tasks : /\ row[t] # "ABSENT" => row'[t] # "ABSENT"
                   /\ retryCount'[t] = retryCount[t]
                   /\ \A c \in Clients : client'[c].pc = "inserted" /\ client'[c].task = t
                        => client[c].pc = "inserted" /\ client[c].task = t
CrashesKeep == crashes' \in Nat /\ (crashes > 0 => crashes' > 0)

LEMMA DispatchQuiet ==
  ASSUME TypeOK, DispatchInv, JobsKeep, RunsKeep, CrashesKeep
  PROVE  /\ SentByJobs' /\ StalledByCrash'
         /\ \A t \in Tasks : JobsOf(t)' = JobsOf(t)
<1>1. ASSUME NEW t \in Tasks
      PROVE  /\ Dispatches(t)' = Dispatches(t) /\ JobsOf(t)' = JobsOf(t)
             /\ Once(t) \subseteq Once(t)' /\ Twice(t) \subseteq Twice(t)'
  BY DEF JobsKeep, RunsKeep, Dispatches, JobsOf, Once, Twice, Of
<1>2. ASSUME NEW t \in Tasks
      PROVE  Cardinality(Dispatches(t)') <= Cardinality(Once(t)') + Cardinality(Twice(t)')
  <2>1. /\ Cardinality(Once(t)) <= Cardinality(Once(t)')
        /\ Cardinality(Twice(t)) <= Cardinality(Twice(t)')
    BY <1>1, FiniteParts, FS_Subset
  <2>2. /\ Cardinality(Once(t)) \in Nat /\ Cardinality(Once(t)') \in Nat
        /\ Cardinality(Twice(t)) \in Nat /\ Cardinality(Twice(t)') \in Nat
        /\ Cardinality(Dispatches(t)) \in Nat
    BY FiniteParts, FS_CardinalityType
  <2>3. Cardinality(Dispatches(t)) <= Cardinality(Once(t)) + Cardinality(Twice(t))
    BY DEF DispatchInv, SentByJobs
  <2>. QED
    BY <1>1, <2>1, <2>2, <2>3
<1>3. StalledByCrash'
  BY DEF StalledByCrash, DispatchInv, JobsKeep, CrashesKeep
<1>. QED
  BY <1>1, <1>2, <1>3 DEF SentByJobs

LEMMA OwedQuiet ==
  ASSUME TypeOK, DispatchInv, JobsKeep, RunsKeep, CrashesKeep, OwedKeep, TypeOK'
  PROVE  DispatchInv'
<1>1. /\ SentByJobs' /\ StalledByCrash'
      /\ \A t \in Tasks : JobsOf(t)' = JobsOf(t)
  BY DispatchQuiet
<1>2. ASSUME NEW t \in Tasks
      PROVE  Cardinality(JobsOf(t)') + Cardinality(Adding(t)') <= Entitled(t)'
  <2>1. Adding(t)' \subseteq Adding(t)
    BY DEF Adding, OwedKeep
  <2>2. Cardinality(Adding(t)') <= Cardinality(Adding(t))
    BY <2>1, FiniteParts, FS_Subset
  <2>3. /\ Cardinality(Adding(t)) \in Nat /\ Cardinality(Adding(t)') \in Nat
        /\ Cardinality(JobsOf(t)) \in Nat
    BY FiniteParts, FS_CardinalityType
  <2>4. Cardinality(JobsOf(t)) + Cardinality(Adding(t)) <= Entitled(t)
    BY DEF DispatchInv, JobsAreOwed
  <2>5. Entitled(t) \in Nat /\ Entitled(t)' \in Nat /\ Entitled(t) <= Entitled(t)'
    <3>1. retryCount[t] \in Nat /\ retryCount'[t] = retryCount[t]
      BY BoundsAssumption DEF TypeOK, OwedKeep
    <3>2. row[t] # "ABSENT" => row'[t] # "ABSENT"
      BY DEF OwedKeep
    <3>. QED
      BY <3>1, <3>2 DEF Entitled
  <2>. QED
    BY <1>1, <2>2, <2>3, <2>4, <2>5
<1>. QED
  BY <1>1, <1>2 DEF DispatchInv, JobsAreOwed

\* Which steps these are: all but four.
LEMMA QuietSteps ==
  ASSUME TypeOK, [Next]_vars
  PROVE  \/ JobsKeep /\ RunsKeep /\ OwedKeep /\ CrashesKeep
         \/ \E c \in Clients, t \in Tasks : Create(c, t)
         \/ \E c \in Clients : Enqueue(c) \/ RetryWrite(c)
         \/ \E j \in Jobs : Dispatch(j)
<1>. DEFINE Quiet == JobsKeep /\ RunsKeep /\ OwedKeep /\ CrashesKeep
<1>0. crashes \in Nat
  BY BoundsAssumption DEF TypeOK
<1>1. ASSUME UNCHANGED <<job, run>> PROVE JobsKeep /\ RunsKeep
  BY <1>1 DEF JobsKeep, RunsKeep
<1>2. ASSUME UNCHANGED <<row, retryCount, client>> PROVE OwedKeep
  BY <1>2 DEF OwedKeep
<1>3. ASSUME UNCHANGED crashes PROVE CrashesKeep
  BY <1>0, <1>3 DEF CrashesKeep
<1>4. ASSUME NEW c \in Clients, NEW t \in Tasks, CancelRead(c, t) \/ RetryRead(c, t)
      PROVE  Quiet
  <2>1. OwedKeep
    BY <1>4 DEF CancelRead, RetryRead, Begin, OwedKeep, TypeOK, Calls
  <2>. QED
    BY <1>1, <1>3, <1>4, <2>1 DEF CancelRead, RetryRead
<1>5. ASSUME NEW c \in Clients, MarkQueued(c) \/ CancelWrite(c)
      PROVE  Quiet
  <2>1. /\ \A t \in Tasks : row[t] # "ABSENT" => row'[t] # "ABSENT"
        /\ retryCount' = retryCount
    BY <1>5 DEF MarkQueued, CancelWrite, TypeOK
  <2>2. Return(c) \/ Move(c, "cancelled")
    BY <1>5 DEF MarkQueued, CancelWrite
  <2>3. \A d \in Clients : /\ client'[d].pc = "inserted" => client'[d] = client[d]
    BY <2>2 DEF Return, Move, Idle, TypeOK, Calls
  <2>4. OwedKeep
    BY <2>1, <2>3 DEF OwedKeep
  <2>. QED
    BY <1>1, <1>3, <1>5, <2>4 DEF MarkQueued, CancelWrite
<1>6. ASSUME NEW c \in Clients, CancelNotify(c)
      PROVE  Quiet
  <2>1. OwedKeep
    BY <1>6 DEF CancelNotify, Return, Idle, OwedKeep, TypeOK, Calls
  <2>2. JobsKeep
    BY <1>6, ResolvedJob DEF CancelNotify, JobsKeep, TypeOK, Before
  <2>3. RunsKeep
    BY <1>6 DEF CancelNotify, RunsKeep
  <2>. QED
    BY <1>3, <1>6, <2>1, <2>2, <2>3 DEF CancelNotify
<1>7. ASSUME NEW j \in Jobs, Stepped(j)
      PROVE  Quiet
  <2>1. /\ UNCHANGED <<retryCount, client, run, crashes>>
        /\ \A t \in Tasks : row[t] # "ABSENT" => row'[t] # "ABSENT"
    BY <1>7 DEF Stepped, RefuseLapsed, RefuseOffline, MarkRunning, WaitTimeout,
                TimeoutRead, TimeoutWrite, TypeOK
  <2>2. RunsKeep /\ OwedKeep
    BY <2>1 DEF RunsKeep, OwedKeep
  <2>3. JobsKeep
    <3>1. PICK p \in {"done", "offline", "dispatching", "expired", "closing", "announce"} :
            SetPhase(j, p)
      BY <1>7, SteppedFrame
    <3>2. p = "dispatching" => job[j].phase = "loaded"
      <4>1. CASE MarkRunning(j)
        BY <4>1 DEF MarkRunning
      <4>2. CASE ~MarkRunning(j)
        <5>1. \E q \in {"done", "offline", "expired", "closing", "announce"} : SetPhase(j, q)
          BY <1>7, <4>2 DEF Stepped, RefuseLapsed, RefuseOffline, WaitTimeout, TimeoutRead,
                            TimeoutWrite
        <5>2. job'[j].phase # "dispatching"
          BY <5>1, SetPhaseFrame
        <5>. QED
          BY <3>1, <5>2, SetPhaseFrame
      <4>. QED
        BY <4>1, <4>2
    <3>3. job[j].phase # "none"
      BY <1>7, SteppedFrame
    <3>. QED
      BY <3>1, <3>2, <3>3, SetPhaseFrame DEF JobsKeep, Before
  <2>. QED
    BY <1>3, <2>1, <2>2, <2>3
<1>8. ASSUME NEW j \in Jobs, AnnounceOffline(j) \/ TimeoutNotify(j)
      PROVE  Quiet
  <2>1. UNCHANGED <<row, retryCount, client, run, crashes>>
    BY <1>8 DEF AnnounceOffline, TimeoutNotify
  <2>2. JobsKeep
    BY <1>8, AnnounceFrame DEF Ended, JobsKeep, Before
  <2>. QED
    BY <1>2, <1>3, <2>1, <2>2 DEF RunsKeep
<1>9. ASSUME NEW j \in Jobs, Pick(j) \/ ResolveFails(j)
      PROVE  Quiet
  <2>1. UNCHANGED <<row, retryCount, client, run, crashes>>
    BY <1>9 DEF Pick, ResolveFails
  <2>2. /\ \A k \in Jobs : k # j => job'[k] = job[k]
        /\ job'[j].task = job[j].task /\ job'[j].stalled = job[j].stalled
        /\ job[j].phase \in Before /\ job'[j].phase # "none"
    BY <1>9 DEF Pick, ResolveFails, TypeOK, JobRecords, Before
  <2>3. JobsKeep
    BY <2>2 DEF JobsKeep, Before
  <2>. QED
    BY <1>2, <1>3, <2>1, <2>3 DEF RunsKeep
<1>10. ASSUME NEW i \in Runs, Advanced(i)
       PROVE  Quiet
  <2>1. /\ UNCHANGED <<retryCount, client, job, crashes>>
        /\ \A t \in Tasks : row[t] # "ABSENT" => row'[t] # "ABSENT"
    BY <1>10 DEF Advanced, Deliver, ReadResult, WriteResult, TypeOK, RunRecords
  <2>2. RunsKeep
    BY <1>10, AdvancedFrame, RunPhaseFrame DEF RunsKeep
  <2>. QED
    BY <1>3, <2>1, <2>2 DEF JobsKeep, OwedKeep
<1>11. ASSUME NEW i \in Runs, Start(i) \/ Finish(i)
       PROVE  Quiet
  <2>1. UNCHANGED <<row, retryCount, client, job, crashes>>
    BY <1>11 DEF Start, Finish
  <2>2. RunsKeep
    <3>1. CASE Start(i)
      BY <3>1, RunPhaseFrame DEF Start, RunsKeep
    <3>2. CASE Finish(i)
      BY <3>2 DEF Finish, RunsKeep, TypeOK, RunRecords
    <3>. QED
      BY <1>11, <3>1, <3>2
  <2>. QED
    BY <1>2, <1>3, <2>1, <2>2 DEF JobsKeep
<1>12. ASSUME NEW i \in Runs, NotifyResult(i)
       PROVE  Quiet
  <2>1. UNCHANGED <<row, retryCount, client, crashes>>
    BY <1>12 DEF NotifyResult
  <2>2. RunsKeep
    BY <1>12, RunPhaseFrame DEF NotifyResult, RunsKeep
  <2>3. JobsKeep
    BY <1>12, ResolvedJob DEF NotifyResult, JobsKeep, TypeOK, Before
  <2>. QED
    BY <1>2, <1>3, <2>1, <2>2, <2>3
<1>13. ASSUME NEW t \in Tasks, DeliverCancel(t)
       PROVE  Quiet
  <2>1. UNCHANGED <<row, retryCount, client, job, crashes>>
    BY <1>13 DEF DeliverCancel
  <2>2. RunsKeep
    BY <1>13 DEF DeliverCancel, RunsKeep, TypeOK, RunRecords
  <2>. QED
    BY <1>2, <1>3, <2>1, <2>2 DEF JobsKeep
<1>14. CASE LoseMessage \/ AgentCrash
  <2>1. UNCHANGED <<row, retryCount, client, job, crashes>>
    BY <1>14 DEF LoseMessage, AgentCrash
  <2>2. RunsKeep
    <3>1. CASE LoseMessage
      BY <3>1, RunPhaseFrame DEF LoseMessage, RunsKeep
    <3>2. CASE AgentCrash
      BY <3>2 DEF AgentCrash, RunsKeep, TypeOK, RunRecords
    <3>. QED
      BY <1>14, <3>1, <3>2
  <2>. QED
    BY <1>2, <1>3, <2>1, <2>2 DEF JobsKeep
<1>15. CASE ServerCrash
  <2>1. /\ UNCHANGED <<row, retryCount>> /\ crashes' = crashes + 1
        /\ \A c \in Clients : client'[c].pc = "idle"
    BY <1>15 DEF ServerCrash, Idle
  <2>2. OwedKeep /\ CrashesKeep
    BY <1>0, <2>1 DEF OwedKeep, CrashesKeep
  <2>3. RunsKeep
    BY <1>15 DEF ServerCrash, AfterRestart, RunsKeep, TypeOK, RunRecords
  <2>4. JobsKeep
    <3>1. ASSUME NEW k \in Jobs
          PROVE  /\ job'[k] = IF job[k].phase \in ActivePhases THEN Redelivered(job[k]) ELSE job[k]
                 /\ Redelivered(job[k]).task = job[k].task /\ Redelivered(job[k]).stalled
                 /\ Redelivered(job[k]).phase = IF job[k].stalled THEN "failed" ELSE "waiting"
      BY <1>15 DEF ServerCrash, Redelivered, TypeOK, JobRecords
    <3>2. crashes' > 0
      BY <1>0, <2>1
    <3>. QED
      BY <3>1, <3>2 DEF JobsKeep, Before, ActivePhases
  <2>. QED
    BY <2>2, <2>3, <2>4
<1>16. CASE PresenceChanges \/ UNCHANGED vars
  BY <1>1, <1>2, <1>3, <1>16 DEF PresenceChanges, vars
<1>. HIDE DEF Quiet
<1>. QED
  BY Steps, <1>4, <1>5, <1>6, <1>7, <1>8, <1>9, <1>10, <1>11, <1>12, <1>13, <1>14, <1>15,
     <1>16 DEF Aside, Quiet

\* create: the first job of a task may be added.
LEMMA CreateOwes ==
  ASSUME TypeOK, TypeOK', DispatchInv, NEW c \in Clients, NEW t \in Tasks, Create(c, t)
  PROVE  DispatchInv'
<1>1. /\ UNCHANGED <<retryCount, job, run, crashes>> /\ row[t] = "ABSENT"
      /\ row'[t] # "ABSENT" /\ \A u \in Tasks : u # t => row'[u] = row[u]
  BY DEF Create, TypeOK
<1>2. /\ \A d \in Clients : d # c => client'[d] = client[d]
      /\ client'[c].pc = "inserted" => client'[c].task = t \/ client'[c] = client[c]
  BY DEF Create, Begin, TypeOK
<1>3. /\ SentByJobs' /\ StalledByCrash' /\ \A u \in Tasks : JobsOf(u)' = JobsOf(u)
  <2>1. JobsKeep /\ RunsKeep /\ CrashesKeep
    BY <1>1, BoundsAssumption DEF JobsKeep, RunsKeep, CrashesKeep, TypeOK
  <2>. QED
    BY <2>1, DispatchQuiet
<1>4. ASSUME NEW u \in Tasks
      PROVE  Cardinality(JobsOf(u)') + Cardinality(Adding(u)') <= Entitled(u)'
  <2>1. /\ Cardinality(Adding(u)) \in Nat /\ Cardinality(Adding(u)') \in Nat
        /\ Cardinality(JobsOf(u)) \in Nat
    BY FiniteParts, FS_CardinalityType
  <2>2. Cardinality(JobsOf(u)) + Cardinality(Adding(u)) <= Entitled(u)
    BY DEF DispatchInv, JobsAreOwed
  <2>3. CASE u = t
    <3>1. Adding(u)' \subseteq Adding(u) \cup {c}
      BY <1>2 DEF Adding
    <3>2. Cardinality(Adding(u)') <= Cardinality(Adding(u)) + 1
      BY <3>1, FiniteParts, OneMore
    <3>3. Entitled(u) = 0 /\ Entitled(u)' = 1 + retryCount[u] /\ retryCount[u] \in Nat
      BY <1>1, <2>3, BoundsAssumption DEF Entitled, TypeOK
    <3>. QED
      BY <1>3, <2>1, <2>2, <3>2, <3>3
  <2>4. CASE u # t
    <3>1. Adding(u)' \subseteq Adding(u)
      BY <1>2, <2>4 DEF Adding
    <3>2. Cardinality(Adding(u)') <= Cardinality(Adding(u))
      BY <3>1, FiniteParts, FS_Subset
    <3>3. Entitled(u)' = Entitled(u) /\ Entitled(u) \in Nat
      BY <1>1, <2>4, BoundsAssumption DEF Entitled, TypeOK
    <3>. QED
      BY <1>3, <2>1, <2>2, <3>2, <3>3
  <2>. QED
    BY <2>3, <2>4
<1>. QED
  BY <1>3, <1>4 DEF DispatchInv, JobsAreOwed

\* retry: one more job may be added, and is owed.
LEMMA RetryOwes ==
  ASSUME TypeOK, TypeOK', DispatchInv, NEW c \in Clients, RetryWrite(c)
  PROVE  DispatchInv'
<1>. DEFINE t == client[c].task
<1>1. /\ UNCHANGED <<job, run, crashes>> /\ t \in Tasks
      /\ row'[t] # "ABSENT" /\ \A u \in Tasks : u # t => row'[u] = row[u]
      /\ retryCount'[t] = retryCount[t] + 1
      /\ \A u \in Tasks : u # t => retryCount'[u] = retryCount[u]
  BY DEF RetryWrite, TypeOK, Calls
<1>2. /\ \A d \in Clients : d # c => client'[d] = client[d]
      /\ client'[c].task = t
  BY DEF RetryWrite, Move, TypeOK, Calls
<1>. HIDE DEF t
<1>3. /\ SentByJobs' /\ StalledByCrash' /\ \A u \in Tasks : JobsOf(u)' = JobsOf(u)
  <2>1. JobsKeep /\ RunsKeep /\ CrashesKeep
    BY <1>1, BoundsAssumption DEF JobsKeep, RunsKeep, CrashesKeep, TypeOK
  <2>. QED
    BY <2>1, DispatchQuiet
<1>4. ASSUME NEW u \in Tasks
      PROVE  Cardinality(JobsOf(u)') + Cardinality(Adding(u)') <= Entitled(u)'
  <2>1. /\ Cardinality(Adding(u)) \in Nat /\ Cardinality(Adding(u)') \in Nat
        /\ Cardinality(JobsOf(u)) \in Nat /\ retryCount[u] \in Nat
    BY FiniteParts, FS_CardinalityType, BoundsAssumption DEF TypeOK
  <2>2. Cardinality(JobsOf(u)) + Cardinality(Adding(u)) <= Entitled(u)
    BY DEF DispatchInv, JobsAreOwed
  <2>3. CASE u = t
    <3>1. Adding(u)' \subseteq Adding(u) \cup {c}
      BY <1>2 DEF Adding
    <3>2. Cardinality(Adding(u)') <= Cardinality(Adding(u)) + 1
      BY <3>1, FiniteParts, OneMore
    <3>3. Entitled(u) <= 1 + retryCount[u] /\ Entitled(u)' = 1 + (retryCount[u] + 1)
          /\ Entitled(u) \in Nat
      BY <1>1, <2>1, <2>3 DEF Entitled
    <3>. QED
      BY <1>3, <2>1, <2>2, <3>2, <3>3
  <2>4. CASE u # t
    <3>1. Adding(u)' \subseteq Adding(u)
      BY <1>2, <2>4 DEF Adding
    <3>2. Cardinality(Adding(u)') <= Cardinality(Adding(u))
      BY <3>1, FiniteParts, FS_Subset
    <3>3. Entitled(u)' = Entitled(u) /\ Entitled(u) \in Nat
      BY <1>1, <2>1, <2>4 DEF Entitled
    <3>. QED
      BY <1>3, <2>1, <2>2, <3>2, <3>3
  <2>. QED
    BY <2>3, <2>4
<1>. QED
  BY <1>3, <1>4 DEF DispatchInv, JobsAreOwed

\* enqueueExecute: the call that was about to add a job has added it.
LEMMA EnqueueOwes ==
  ASSUME TypeOK, TypeOK', Numbering, DispatchInv, NEW c \in Clients, Enqueue(c)
  PROVE  DispatchInv'
<1>. DEFINE t == client[c].task
            j == njobs + 1
<1>1. /\ UNCHANGED <<row, retryCount, run, crashes>> /\ t \in Tasks
      /\ j \in Jobs /\ job[j].phase = "none" /\ client[c].pc = "inserted"
  BY BoundsAssumption DEF Enqueue, TypeOK, Calls, Numbering, Jobs
<1>2. /\ \A k \in Jobs : k # j => job'[k] = job[k]
      /\ job'[j].phase = "waiting" /\ job'[j].task = t /\ job'[j].stalled = FALSE
  BY <1>1 DEF Enqueue, NoJob, TypeOK
<1>3. /\ \A d \in Clients : d # c => client'[d] = client[d]
      /\ client'[c].pc = "enqueued"
  BY DEF Enqueue, Move, TypeOK, Calls
<1>4. client[c].task = t
  OBVIOUS
<1>. HIDE DEF t, j
<1>5. ASSUME NEW u \in Tasks
      PROVE  /\ Dispatches(u)' = Dispatches(u) /\ Once(u)' = Once(u) /\ Twice(u)' = Twice(u)
  <2>1. Dispatches(u)' = Dispatches(u)
    BY <1>1 DEF Dispatches
  <2>2. Once(u)' = Once(u) /\ Twice(u)' = Twice(u)
    BY <1>1, <1>2 DEF Once, Twice, Of, Before
  <2>. QED
    BY <2>1, <2>2
<1>6. SentByJobs'
  BY <1>5 DEF SentByJobs, DispatchInv
<1>7. StalledByCrash'
  BY <1>1, <1>2 DEF StalledByCrash, DispatchInv
<1>8. ASSUME NEW u \in Tasks
      PROVE  Cardinality(JobsOf(u)') + Cardinality(Adding(u)') <= Entitled(u)'
  <2>1. /\ Cardinality(Adding(u)) \in Nat /\ Cardinality(Adding(u)') \in Nat
        /\ Cardinality(JobsOf(u)) \in Nat /\ Cardinality(JobsOf(u)') \in Nat
    BY FiniteParts, FS_CardinalityType
  <2>2. Cardinality(JobsOf(u)) + Cardinality(Adding(u)) <= Entitled(u)
    BY DEF DispatchInv, JobsAreOwed
  <2>3. Entitled(u)' = Entitled(u) /\ Entitled(u) \in Nat
    BY <1>1, BoundsAssumption DEF Entitled, TypeOK
  <2>4. CASE u = t
    <3>1. JobsOf(u)' = JobsOf(u) \cup {j} /\ j \notin JobsOf(u)
      BY <1>1, <1>2, <2>4 DEF JobsOf, Of
    <3>2. Adding(u)' = Adding(u) \ {c} /\ c \in Adding(u)
      BY <1>1, <1>3, <1>4, <2>4 DEF Adding
    <3>3. Cardinality(JobsOf(u)') = Cardinality(JobsOf(u)) + 1
      BY <3>1, FiniteParts, FS_AddElement
    <3>4. Cardinality(Adding(u)') = Cardinality(Adding(u)) - 1
      BY <3>2, FiniteParts, FS_RemoveElement
    <3>. QED
      BY <2>1, <2>2, <2>3, <3>3, <3>4
  <2>5. CASE u # t
    <3>1. JobsOf(u)' = JobsOf(u) /\ Adding(u)' = Adding(u)
      BY <1>1, <1>2, <1>3, <1>4, <2>5 DEF JobsOf, Of, Adding
    <3>. QED
      BY <2>2, <2>3, <3>1
  <2>. QED
    BY <2>4, <2>5
<1>. QED
  BY <1>6, <1>7, <1>8 DEF DispatchInv, JobsAreOwed

\* emitToAgent: the job that dispatches has not before, or not since it stalled.
LEMMA DispatchOwes ==
  ASSUME TypeOK, TypeOK', Numbering, DispatchInv, NEW j \in Jobs, Dispatch(j)
  PROVE  DispatchInv'
<1>. DEFINE t == job[j].task
            i == nruns + 1
<1>1. /\ UNCHANGED <<row, retryCount, client, crashes>> /\ t \in Tasks
      /\ i \in Runs /\ run[i].phase = "none" /\ job[j].phase = "dispatching"
  <2>1. UNCHANGED <<row, retryCount, client, crashes>> /\ job[j].phase = "dispatching"
    BY DEF Dispatch
  <2>2. t \in Tasks
    BY DEF TypeOK, JobRecords
  <2>3. i \in Runs /\ run[i].phase = "none"
    BY BoundsAssumption DEF Dispatch, TypeOK, Numbering, Runs
  <2>. QED
    BY <2>1, <2>2, <2>3
<1>2. /\ \A k \in Runs : k # i => run'[k] = run[k]
      /\ run'[i].phase # "none" /\ run'[i].task = t
  BY <1>1 DEF Dispatch, NoRun, TypeOK
<1>3. /\ \A k \in Jobs : k # j => job'[k] = job[k]
      /\ job'[j].phase = "wait" /\ job'[j].task = t /\ job'[j].stalled = job[j].stalled
  BY DEF Dispatch, TypeOK, JobRecords
<1>4. job[j].task = t
  OBVIOUS
<1>. HIDE DEF t, i
<1>5. ASSUME NEW u \in Tasks
      PROVE  JobsOf(u)' = JobsOf(u) /\ Adding(u)' = Adding(u) /\ Entitled(u)' = Entitled(u)
  BY <1>1, <1>3, <1>4 DEF JobsOf, Of, Adding, Entitled
<1>6. JobsAreOwed'
  BY <1>5 DEF JobsAreOwed, DispatchInv
<1>7. StalledByCrash'
  BY <1>1, <1>3 DEF StalledByCrash, DispatchInv
<1>8. ASSUME NEW u \in Tasks
      PROVE  Cardinality(Dispatches(u)') <= Cardinality(Once(u)') + Cardinality(Twice(u)')
  <2>1. /\ Cardinality(Once(u)) \in Nat /\ Cardinality(Twice(u)) \in Nat
        /\ Cardinality(Dispatches(u)) \in Nat
    BY FiniteParts, FS_CardinalityType
  <2>2. Cardinality(Dispatches(u)) <= Cardinality(Once(u)) + Cardinality(Twice(u))
    BY DEF DispatchInv, SentByJobs
  <2>3. CASE u = t
    <3>1. Dispatches(u)' = Dispatches(u) \cup {i} /\ i \notin Dispatches(u)
      BY <1>1, <1>2, <2>3 DEF Dispatches
    <3>2. Cardinality(Dispatches(u)') = Cardinality(Dispatches(u)) + 1
      BY <3>1, FiniteParts, FS_AddElement
    <3>3. CASE job[j].stalled
      <4>1. /\ Once(u)' = Once(u)
            /\ Twice(u)' = Twice(u) \cup {j} /\ j \notin Twice(u)
        BY <1>1, <1>3, <1>4, <2>3, <3>3 DEF Once, Twice, Of, Before
      <4>2. Cardinality(Twice(u)') = Cardinality(Twice(u)) + 1
        BY <4>1, FiniteParts, FS_AddElement
      <4>. QED
        BY <2>1, <2>2, <3>2, <4>1, <4>2
    <3>4. CASE ~job[j].stalled
      <4>1. /\ Twice(u)' = Twice(u)
            /\ Once(u)' = Once(u) \cup {j} /\ j \notin Once(u)
        BY <1>1, <1>3, <1>4, <2>3, <3>4 DEF Once, Twice, Of, Before
      <4>2. Cardinality(Once(u)') = Cardinality(Once(u)) + 1
        BY <4>1, FiniteParts, FS_AddElement
      <4>. QED
        BY <2>1, <2>2, <3>2, <4>1, <4>2
    <3>. QED
      BY <3>3, <3>4
  <2>4. CASE u # t
    <3>1. /\ Dispatches(u)' = Dispatches(u)
          /\ Once(u)' = Once(u) /\ Twice(u)' = Twice(u)
      <4>1. Dispatches(u)' = Dispatches(u)
        BY <1>1, <1>2, <2>4 DEF Dispatches
      <4>2. Once(u)' = Once(u) /\ Twice(u)' = Twice(u)
        BY <1>1, <1>3, <1>4, <2>4 DEF Once, Twice, Of
      <4>. QED
        BY <4>1, <4>2
    <3>. QED
      BY <2>2, <3>1
  <2>. QED
    BY <2>3, <2>4
<1>. QED
  BY <1>6, <1>7, <1>8 DEF DispatchInv, SentByJobs

LEMMA DispatchStep ==
  ASSUME TypeOK, TypeOK', Numbering, DispatchInv, [Next]_vars
  PROVE  DispatchInv'
  BY QuietSteps, OwedQuiet, CreateOwes, RetryOwes, EnqueueOwes, DispatchOwes

-----------------------------------------------------------------------------
(* Whose a PENDING row is *)

LEMMA PendingStep ==
  ASSUME TypeOK, PendingIsOwned, [Next]_vars
  PROVE  PendingIsOwned'
<1>. USE DEF PendingIsOwned
<1>0. crashes \in Nat
  BY BoundsAssumption DEF TypeOK
<1>1. ASSUME UNCHANGED <<row, client, crashes>> PROVE PendingIsOwned'
  BY <1>1
<1>2. ASSUME NEW c \in Clients, NEW t \in Tasks, Create(c, t) PROVE PendingIsOwned'
  <2>1. /\ \A u \in Tasks : u # t => row'[u] = row[u]
        /\ row'[t] = "PENDING" => client'[c].pc = "inserted" /\ client'[c].task = t
        /\ \A d \in Clients : d # c => client'[d] = client[d]
        /\ client[c].pc = "idle" /\ UNCHANGED crashes
    BY <1>2 DEF Create, Begin, TypeOK
  <2>. QED
    BY <2>1
<1>3. ASSUME NEW c \in Clients, NEW t \in Tasks, CancelRead(c, t) \/ RetryRead(c, t)
      PROVE  PendingIsOwned'
  <2>1. /\ \A d \in Clients : d # c => client'[d] = client[d]
        /\ client[c].pc = "idle" /\ UNCHANGED <<row, crashes>>
    BY <1>3 DEF CancelRead, RetryRead, Begin, TypeOK
  <2>. QED
    BY <2>1
<1>4. ASSUME NEW c \in Clients, Enqueue(c) PROVE PendingIsOwned'
  <2>1. /\ \A d \in Clients : d # c => client'[d] = client[d]
        /\ client'[c].pc = "enqueued" /\ client'[c].task = client[c].task
        /\ UNCHANGED <<row, crashes>>
    BY <1>4 DEF Enqueue, Move, TypeOK, Calls
  <2>. QED
    BY <2>1
<1>5. ASSUME NEW c \in Clients, MarkQueued(c) PROVE PendingIsOwned'
  <2>1. /\ \A d \in Clients : d # c => client'[d] = client[d]
        /\ client[c].task \in Tasks /\ row'[client[c].task] = "QUEUED"
        /\ \A u \in Tasks : u # client[c].task => row'[u] = row[u]
        /\ UNCHANGED crashes
    BY <1>5 DEF MarkQueued, Return, TypeOK, Calls
  <2>. QED
    BY <2>1
<1>6. ASSUME NEW c \in Clients, CancelWrite(c) \/ CancelNotify(c) PROVE PendingIsOwned'
  <2>1. /\ \A d \in Clients : d # c => client'[d] = client[d]
        /\ client[c].pc \in {"cancelling", "cancelled"}
        /\ \A u \in Tasks : row'[u] = "PENDING" => row[u] = "PENDING"
        /\ UNCHANGED crashes
    BY <1>6 DEF CancelWrite, CancelNotify, Return, Move, TypeOK, Calls
  <2>. QED
    BY <2>1
<1>7. ASSUME NEW c \in Clients, RetryWrite(c) PROVE PendingIsOwned'
  <2>1. /\ \A d \in Clients : d # c => client'[d] = client[d]
        /\ client[c].pc = "retrying"
        /\ client'[c].pc = "inserted" /\ client'[c].task = client[c].task
        /\ \A u \in Tasks : u # client[c].task => row'[u] = row[u]
        /\ UNCHANGED crashes
    BY <1>7 DEF RetryWrite, Move, TypeOK, Calls
  <2>. QED
    BY <2>1
<1>8. ASSUME NEW j \in Jobs, Stepped(j) PROVE PendingIsOwned'
  <2>1. /\ UNCHANGED <<client, crashes>>
        /\ \A u \in Tasks : row'[u] = "PENDING" => row[u] = "PENDING"
    BY <1>8 DEF Stepped, RefuseLapsed, RefuseOffline, MarkRunning, WaitTimeout, TimeoutRead,
                TimeoutWrite, TypeOK
  <2>. QED
    BY <2>1
<1>9. ASSUME NEW j \in Jobs,
             \/ Pick(j) \/ AnnounceOffline(j) \/ ResolveFails(j) \/ Dispatch(j)
             \/ TimeoutNotify(j)
      PROVE  PendingIsOwned'
  BY <1>1, <1>9 DEF Pick, AnnounceOffline, ResolveFails, Dispatch, TimeoutNotify
<1>10. ASSUME NEW i \in Runs, WriteResult(i) PROVE PendingIsOwned'
  <2>1. /\ UNCHANGED <<client, crashes>>
        /\ \A u \in Tasks : row'[u] = "PENDING" => row[u] = "PENDING"
    BY <1>10 DEF WriteResult, TypeOK, RunRecords
  <2>. QED
    BY <2>1
<1>11. ASSUME NEW i \in Runs,
              Deliver(i) \/ ReadResult(i) \/ Start(i) \/ Finish(i) \/ NotifyResult(i)
       PROVE  PendingIsOwned'
  BY <1>1, <1>11 DEF Deliver, ReadResult, Start, Finish, NotifyResult
<1>12. ASSUME NEW t \in Tasks, DeliverCancel(t) PROVE PendingIsOwned'
  BY <1>1, <1>12 DEF DeliverCancel
<1>13. CASE PresenceChanges \/ LoseMessage \/ AgentCrash \/ UNCHANGED vars
  BY <1>1, <1>13 DEF PresenceChanges, LoseMessage, AgentCrash, vars
<1>14. CASE ServerCrash
  BY <1>0, <1>14 DEF ServerCrash
<1>. QED
  BY Steps, <1>2, <1>3, <1>4, <1>5, <1>6, <1>7, <1>8, <1>9, <1>10, <1>11, <1>12, <1>13,
     <1>14 DEF Aside, Advanced

-----------------------------------------------------------------------------
(* The safety theorems *)

LEMMA InitInvariant == Init => IInv
<1> SUFFICES ASSUME Init PROVE IInv
  OBVIOUS
<1>1. /\ \A j \in Jobs : job[j].phase = "none"
      /\ \A i \in Runs : run[i].phase = "none"
      /\ \A t \in Tasks : row[t] = "ABSENT" /\ handle[t] = 0
  BY DEF Init, NoJob, NoRun
<1>. QED
  BY <1>1, TypeInit DEF IInv, Numbering, WaiterMatches, RunningBacked, HandleIsLive

\* The inductive invariant holds of every behaviour.
THEOREM Invariant == Spec => []IInv
<1>1. IInv /\ [Next]_vars => IInv'
  BY TypeStep, NumberingStep, WaiterStep, BackedStep, HandleStep DEF IInv
<1>. QED
  BY InitInvariant, <1>1, PTL DEF Spec

\* A RUNNING row is never forgotten: a job, a dispatch that may still report
\* or a lost message accounts for it, whatever the interleaving of cancels,
\* retries, timeouts, results and restarts.
THEOREM RunningIsAccounted == Spec => []RunningAccounted
<1>1. IInv => RunningAccounted
  BY DEF IInv, RunningBacked, JobBacks, RunBacks, RunningAccounted, LivePhases, ActivePhases
<1>. QED
  BY <1>1, Invariant, PTL

\* A worker never waits for a dispatch whose result has been announced.
THEOREM NoResultIsMissed == Spec => []NoMissedResult
<1>1. IInv => NoMissedResult
  BY DEF IInv, WaiterMatches, NoMissedResult
<1>. QED
  BY <1>1, Invariant, PTL

\* A handle of the agent's cancel registry always belongs to a running run.
THEOREM HandlesAreLive == Spec => []HandleIsLive
<1>1. IInv => HandleIsLive
  BY DEF IInv
<1>. QED
  BY <1>1, Invariant, PTL

\* The agent gets task:execute for a task at most once for its creation and once
\* for each retry, and twice for each of these if the server was restarted: the
\* row's retryCount bounds the jobs, whatever calls overlap, a job that BullMQ
\* delivers again after a restart sends once more, and its attempts after an
\* error never do.
THEOREM DispatchIsBounded == Spec => []DispatchBound
<1>1. Init => DispatchInv
  <2>. SUFFICES ASSUME Init PROVE DispatchInv
    OBVIOUS
  <2>1. /\ \A j \in Jobs : job[j].phase = "none" /\ job[j].stalled = FALSE
        /\ \A i \in Runs : run[i].phase = "none"
        /\ \A t \in Tasks : row[t] = "ABSENT"
        /\ \A c \in Clients : client[c].pc = "idle"
    BY DEF Init, NoJob, NoRun, Idle
  <2>2. \A t \in Tasks : /\ Dispatches(t) = {} /\ Once(t) = {} /\ Twice(t) = {}
                         /\ JobsOf(t) = {} /\ Adding(t) = {} /\ Entitled(t) = 0
    BY <2>1 DEF Dispatches, Once, Twice, JobsOf, Of, Adding, Entitled
  <2>3. Cardinality({}) = 0
    BY FS_EmptySet
  <2>4. SentByJobs /\ JobsAreOwed
    BY <2>2, <2>3 DEF SentByJobs, JobsAreOwed
  <2>. QED
    BY <2>1, <2>4 DEF DispatchInv, StalledByCrash
<1>2. IInv /\ DispatchInv /\ [Next]_vars => DispatchInv'
  BY TypeStep, DispatchStep DEF IInv
<1>3. TypeOK /\ DispatchInv => DispatchBound
  <2>. SUFFICES ASSUME TypeOK, DispatchInv, NEW t \in Tasks
                PROVE  Cardinality(Dispatches(t))
                         <= (1 + retryCount[t]) * (IF crashes = 0 THEN 1 ELSE 2)
    BY DEF DispatchBound
  <2>1. /\ Cardinality(Dispatches(t)) \in Nat /\ Cardinality(Once(t)) \in Nat
        /\ Cardinality(Twice(t)) \in Nat /\ Cardinality(JobsOf(t)) \in Nat
        /\ Cardinality(Adding(t)) \in Nat
    BY FiniteParts, FS_CardinalityType
  <2>2. Once(t) \subseteq JobsOf(t) /\ Twice(t) \subseteq JobsOf(t)
    BY DEF Once, Twice, JobsOf
  <2>3. Cardinality(Once(t)) <= Cardinality(JobsOf(t)) /\ Cardinality(Twice(t)) <= Cardinality(JobsOf(t))
    BY <2>2, FiniteParts, FS_Subset
  <2>4. retryCount[t] \in Nat /\ crashes \in Nat
    BY BoundsAssumption DEF TypeOK
  <2>5. Cardinality(JobsOf(t)) <= 1 + retryCount[t]
    <3>1. Cardinality(JobsOf(t)) + Cardinality(Adding(t)) <= Entitled(t)
      BY DEF DispatchInv, JobsAreOwed
    <3>2. Entitled(t) \in Nat /\ Entitled(t) <= 1 + retryCount[t]
      BY <2>4 DEF Entitled
    <3>. QED
      BY <2>1, <2>4, <3>1, <3>2
  <2>6. Cardinality(Dispatches(t)) <= Cardinality(Once(t)) + Cardinality(Twice(t))
    BY DEF DispatchInv, SentByJobs
  <2>7. CASE crashes = 0
    <3>1. Twice(t) = {}
      BY <2>4, <2>7 DEF Twice, DispatchInv, StalledByCrash
    <3>2. Cardinality(Twice(t)) = 0
      BY <3>1, FS_EmptySet
    <3>. QED
      BY <2>1, <2>3, <2>4, <2>5, <2>6, <2>7, <3>2
  <2>8. CASE crashes # 0
    BY <2>1, <2>3, <2>4, <2>5, <2>6, <2>8
  <2>. QED
    BY <2>7, <2>8
<1>4. IInv => TypeOK
  BY DEF IInv
<1>. QED
  BY <1>1, <1>2, <1>3, <1>4, Invariant, PTL DEF Spec

\* Unless the server was restarted, a row that says PENDING belongs to a create
\* or a retry that is under way and will add its job.
THEOREM PendingIsAlwaysOwned == Spec => []PendingIsOwned
<1>1. Init => PendingIsOwned
  BY DEF Init, PendingIsOwned
<1>2. IInv /\ PendingIsOwned /\ [Next]_vars => PendingIsOwned'
  BY PendingStep DEF IInv
<1>. QED
  BY <1>1, <1>2, Invariant, PTL DEF Spec
=============================================================================
