----------------------------- MODULE WorkflowRun -----------------------------
(***************************************************************************)
(* One run of a workflow: the event-driven scheduler that walks the graph  *)
(* (executeGraphIndependent), the step handler with its rows and its task  *)
(* (AutomationService.runStep), and executeRunBody, which closes the run.  *)
(*                                                                         *)
(* Steps run at the same time, each a sequence of actions cut at its       *)
(* awaits; the scheduler's counters change in the turn a step returns in.  *)
(***************************************************************************)
EXTENDS WorkflowGraph, Integers, SequencesExt

CONSTANTS
  MaxFaults \* bound: database calls that fail

ASSUME FaultsAssumption == MaxFaults \in Nat

VARIABLES
  graph,    \* the workflow as findOne read it
  pending,  \* pendingParents
  arrived,  \* parentCtxs
  inv,      \* the calls of runOne so far, in order
  inFlight,
  settled,  \* donePromise is resolved
  engine,   \* where executeRunBody stands
  stale,    \* the rows finalizeStaleStepRuns found
  run,      \* WorkflowRun.status
  flow,     \* [starts -> WorkflowFlowRun.status]
  faults

vars == <<graph, pending, arrived, inv, inFlight, settled, engine, stale, run, flow, faults>>

\* StepContext, reduced to the map _loopIndex: whether the scope has one, and
\* what it says (a deleted entry reads as 0).
EmptyCtx == [known |-> FALSE, at |-> [s \in Steps |-> 0]]

\* mergeStepContexts: Object.assign over the scopes, the last map wins.
MergeStepContexts(ctxs) ==
  LET known == {k \in DOMAIN ctxs : ctxs[k].known}
  IN  IF known = {} THEN EmptyCtx ELSE ctxs[Max(known)]

\* The call of runOne for a step: what it gets and what runStep will make of it.
Item(s, via, ctx, path, depth) ==
  [step |-> s, via |-> via, ctx |-> ctx, path |-> path, depth |-> depth,
   pc |-> "called", row |-> "none", task |-> "none", branch |-> "none",
   failed |-> FALSE, passed |-> {}, out |-> ctx]

Init ==
  /\ graph \in Graphs
  /\ pending = [s \in Steps |-> 0] /\ arrived = [s \in Steps |-> <<>>]
  /\ inv = <<>> /\ inFlight = 0 /\ settled = FALSE
  /\ engine = "reading" /\ stale = {}
  /\ run = "RUNNING" /\ flow = [s \in Starts(graph) |-> "RUNNING"]
  /\ faults = 0

Calls == DOMAIN inv

-----------------------------------------------------------------------------
(* AutomationService.runStep *)

Update(i, call) == inv' = [inv EXCEPT ![i] = call]
Kind(i) == graph.kind[inv[i].step]
InStep  == UNCHANGED <<graph, pending, arrived, inFlight, settled, engine, stale, run>>

\* The task of a step, created before its row is written, or after for EXCEL.
\* A refusal (no agent, plan lapsed) is thrown.
CreateTask(i) ==
  /\ \/ inv[i].pc = "called" /\ Kind(i) = "TASK"
     \/ inv[i].pc = "tracked"
  /\ \/ Update(i, [inv[i] EXCEPT !.pc = "created", !.task = "active"])
     \/ Update(i, [inv[i] EXCEPT !.pc = "returned", !.failed = TRUE])
  /\ InStep /\ UNCHANGED <<flow, faults>>

\* upsertStepRun to RUNNING: trackStart, and once the task is known.
TrackStart(i) ==
  /\ \/ inv[i].pc = "created"
     \/ inv[i].pc = "called" /\ Kind(i) # "TASK"
  /\ Update(i, [inv[i] EXCEPT !.row = "RUNNING",
                              !.pc = IF @ = "called" /\ Kind(i) = "EXCEL" THEN "tracked"
                                     ELSE "working"])
  /\ InStep /\ UNCHANGED <<flow, faults>>

\* waitForTask: the waiter, the poll of the row or their deadline, which closes
\* a task that is still active. A poll that throws closes it as well, but for
\* EXCEL (see StepThrows).
WaitForTask(i) ==
  /\ inv[i].pc = "working" /\ Kind(i) \in {"TASK", "EXCEL"}
  /\ \E outcome \in {"COMPLETED", "FAILED"} :
       Update(i, [inv[i] EXCEPT !.pc = "ending", !.task = outcome, !.failed = outcome = "FAILED"])
  /\ InStep /\ UNCHANGED <<flow, faults>>

\* A step the server executes itself ends, reports its failure (TELEGRAM) or
\* throws on its configuration with the row still RUNNING (VARIABLE).
WorkLocally(i) ==
  /\ inv[i].pc = "working" /\ Kind(i) = "LOCAL"
  /\ \/ \E failed \in BOOLEAN : Update(i, [inv[i] EXCEPT !.pc = "ending", !.failed = failed])
     \/ Update(i, [inv[i] EXCEPT !.pc = "returned", !.failed = TRUE])
  /\ InStep /\ UNCHANGED <<flow, faults>>

\* evaluateCondition on variables and exit codes, which are not modelled.
EvaluateCondition(i) ==
  /\ inv[i].pc = "working" /\ Kind(i) = "CONDITION"
  /\ \E branch \in {"true", "false"} :
       Update(i, [inv[i] EXCEPT !.pc = "ending", !.branch = branch])
  /\ InStep /\ UNCHANGED <<flow, faults>>

\* The LOOP step: body as long as the index in the context is below the count.
CountLoop(i) ==
  LET s == inv[i].step
      n == inv[i].ctx.at[s]
      more == n < graph.count[s]
  IN
  /\ inv[i].pc = "working" /\ Kind(i) = "LOOP"
  /\ Update(i, [inv[i] EXCEPT
       !.pc = "ending", !.branch = IF more THEN "body" ELSE "done",
       !.out = [known |-> TRUE, at |-> [inv[i].ctx.at EXCEPT ![s] = IF more THEN n + 1 ELSE 0]]])
  /\ InStep /\ UNCHANGED <<flow, faults>>

\* trackEnd: the row, and for a failure the flow (whatever onFailure says).
TrackEnd(i) ==
  /\ inv[i].pc = "ending"
  /\ Update(i, [inv[i] EXCEPT !.pc = IF inv[i].failed THEN "stopping" ELSE "returned",
                              !.row = IF inv[i].failed THEN "FAILED" ELSE "COMPLETED"])
  /\ InStep /\ UNCHANGED <<flow, faults>>

MarkFlowStopped(i) ==
  /\ inv[i].pc = "stopping"
  /\ flow' = [flow EXCEPT ![inv[i].path] = "STOPPED"]
  /\ Update(i, [inv[i] EXCEPT !.pc = "returned"])
  /\ InStep /\ UNCHANGED faults

\* A database call of the step fails: the scheduler catches the error, and the
\* step has failed with the context it was given and no branch. A task nobody
\* waits for any more is closed by its own worker.
StepThrows(i) ==
  /\ \/ inv[i].pc \in {"created", "ending", "stopping"}
     \/ inv[i].pc = "called" /\ Kind(i) # "TASK"
     \/ inv[i].pc = "working" /\ Kind(i) = "EXCEL"
  /\ faults < MaxFaults /\ faults' = faults + 1
  /\ Update(i, [inv[i] EXCEPT !.pc = "returned", !.failed = TRUE, !.branch = "none", !.out = inv[i].ctx,
                              !.task = IF @ = "active" THEN "abandoned" ELSE @])
  /\ InStep /\ UNCHANGED flow

RunStep(i) ==
  \/ CreateTask(i) \/ TrackStart(i) \/ WaitForTask(i) \/ WorkLocally(i)
  \/ EvaluateCondition(i) \/ CountLoop(i) \/ TrackEnd(i) \/ MarkFlowStopped(i)

-----------------------------------------------------------------------------
(* executeGraphIndependent *)

\* Mutants: the target of an edge is started by the last parent but one; a child
\* is recorded at its parent's depth.
IsReadyEarly(left) == left <= 1
SameDepth(depth) == depth

IsReady(left) == left <= 0
ChildDepth(depth) == depth + 1

\* Mutant of LeaveRunOne: a step without children keeps its place in the counter.
LeaveRunOneNever(launched) ==
  inFlight' = inFlight + launched - (IF launched = 0 THEN 0 ELSE 1)

LeaveRunOne(launched) == inFlight' = inFlight + launched - 1

\* Mutant of MaybeDone: the counter is looked at before the children are in it.
MaybeDoneEarly == settled' = (settled \/ inFlight = 1)

MaybeDone == settled' = (settled \/ inFlight' = 0)

\* scheduleChildren and the end of runOne, in the turn the step returns in.
\* An edge back to a loop starts it at once; over any other edge the target is
\* started when no parent is pending any more, with the contexts that arrived.
Return(i) ==
  LET me   == inv[i]
      outs == IF me.failed /\ me.step \in graph.stop THEN {}
              ELSE FilterOut(graph, me.step, me.branch)
      back == outs \cap LoopBack[graph]
      met  == {e.to : e \in outs \ back}
      left == [s \in Steps |-> IF s \in met THEN pending[s] - 1 ELSE pending[s]]
      ctxs == [s \in Steps |-> IF s \in met THEN Append(arrived[s], me.out) ELSE arrived[s]]
      ready == {s \in met : IsReady(left[s])}
      child(s, via, ctx) == Item(s, via, ctx, me.path, ChildDepth(me.depth))
      children == SetToSeq({child(e.to, "back", me.out) : e \in back}
                           \cup {child(s, "join", MergeStepContexts(ctxs[s])) : s \in ready})
  IN
  /\ me.pc = "returned"
  /\ inv' = [inv EXCEPT ![i] = [@ EXCEPT !.pc = "done", !.passed = outs]] \o children
  /\ pending' = left
  /\ arrived' = [s \in Steps |-> IF s \in ready THEN <<>> ELSE ctxs[s]]
  /\ LeaveRunOne(Len(children)) /\ MaybeDone
  /\ UNCHANGED <<graph, engine, stale, run, flow, faults>>

\* The start: the counters, and every start step in the same turn.
Launch ==
  LET starts == SetToSeq({Item(s, "trigger", EmptyCtx, s, 0) : s \in Starts(graph)}) IN
  /\ engine = "reading"
  /\ pending' = [s \in Steps |-> Cardinality(Joins(graph, s))]
  /\ inv' = starts /\ inFlight' = Len(starts)
  /\ engine' = "graph"
  /\ UNCHANGED <<graph, arrived, settled, stale, run, flow, faults>>

-----------------------------------------------------------------------------
(* executeRunBody and finalizeStaleStepRuns *)

Engine == UNCHANGED <<graph, pending, arrived, inFlight, settled, faults>>

Settle ==
  /\ engine = "graph" /\ settled
  /\ engine' = "finding"
  /\ Engine /\ UNCHANGED <<inv, stale, run, flow>>

\* The same on both ways: after the graph, and after an error.
FindStale ==
  /\ engine \in {"finding", "caught"}
  /\ engine' = IF engine = "finding" THEN "closing" ELSE "undoing"
  /\ stale' = {i \in Calls : inv[i].row = "RUNNING"}
  /\ Engine /\ UNCHANGED <<inv, run, flow>>

\* Mutant of CloseStale: the row's task is not asked.
CloseStaleBlind(i) ==
  /\ engine \in {"closing", "undoing"} /\ i \in stale
  /\ stale' = stale \ {i}
  /\ Update(i, [inv[i] EXCEPT !.row = IF engine = "closing" THEN "COMPLETED" ELSE "FAILED"])
  /\ Engine /\ UNCHANGED <<engine, run, flow>>

\* What became of the task decides; without a task, the way the run ended.
CloseStale(i) ==
  LET task == inv[i].task IN
  /\ engine \in {"closing", "undoing"} /\ i \in stale
  /\ stale' = stale \ {i}
  /\ Update(i, [inv[i] EXCEPT !.row = IF task \in {"COMPLETED", "FAILED"} THEN task
                                      ELSE IF engine = "closing" THEN "COMPLETED" ELSE "FAILED"])
  /\ Engine /\ UNCHANGED <<engine, run, flow>>

CloseRun ==
  /\ engine \in {"closing", "undoing"} /\ stale = {}
  /\ \/ engine = "closing" /\ run' = "COMPLETED" /\ engine' = "flows"
     \/ engine = "undoing" /\ run' = "FAILED" /\ engine' = "end"
  /\ Engine /\ UNCHANGED <<inv, stale, flow>>

CloseFlows ==
  /\ engine = "flows"
  /\ flow' = [s \in DOMAIN flow |-> IF flow[s] = "RUNNING" THEN "COMPLETED" ELSE flow[s]]
  /\ engine' = "touching"
  /\ Engine /\ UNCHANGED <<inv, stale, run>>

\* workflow.updatedAt and the last telegram message.
Touch ==
  /\ engine = "touching"
  /\ engine' = "end"
  /\ Engine /\ UNCHANGED <<inv, stale, run, flow>>

\* A database call of executeRunBody fails: to the catch branch, and from
\* there out of the function, which nobody awaits.
EngineThrows ==
  /\ \/ engine \in {"reading", "finding", "closing", "flows", "touching"} /\ engine' = "caught"
     \/ engine \in {"caught", "undoing"} /\ engine' = "dead"
  /\ faults < MaxFaults /\ faults' = faults + 1
  /\ UNCHANGED <<graph, pending, arrived, inv, inFlight, settled, stale, run, flow>>

EngineStep ==
  \/ Launch \/ Settle \/ FindStale \/ CloseRun \/ CloseFlows \/ Touch
  \/ \E i \in stale : CloseStale(i)

-----------------------------------------------------------------------------
Next ==
  \/ \E i \in Calls : RunStep(i) \/ Return(i) \/ StepThrows(i)
  \/ EngineStep \/ EngineThrows

Spec == Init /\ [][Next]_vars

\* A handler whose await is answered goes on, and a task ends at the latest by
\* the deadline of waitForTask.
Fairness ==
  /\ WF_vars(\E i \in Calls : RunStep(i) \/ Return(i))
  /\ WF_vars(EngineStep)

FairSpec == Spec /\ Fairness

-----------------------------------------------------------------------------
(* Properties *)

\* The run is closed over nobody's head: once executeRunBody goes on, every
\* step that was started has returned and no other starts.
SettledIsOver ==
  engine \notin {"reading", "graph"} => \A i \in Calls : inv[i].pc = "done"

\* A step that runs twice is recorded twice: no two calls have the step, flow
\* and depth that upsertStepRun finds a row by, so neither of them writes on
\* the other's row and its find-then-create does not race.
KeysUnique ==
  \A i, j \in Calls :
    i # j => \/ inv[i].step # inv[j].step
             \/ inv[i].path # inv[j].path
             \/ inv[i].depth # inv[j].depth

\* However the writes of a step failed, the history is consistent once the run
\* has ended: no row is left RUNNING, and a row whose task was waited for says
\* what became of the task.
RowsTellTasks ==
  run # "RUNNING" => \A i \in Calls :
    /\ inv[i].row # "RUNNING"
    /\ inv[i].task \in {"COMPLETED", "FAILED"} => inv[i].row = inv[i].task

\* A run ends, unless the very error handling of executeRunBody fails.
RunEnds == <>(run # "RUNNING" \/ engine = "dead")

\* The counters of the scheduler implement the net of the graph: what has been
\* passed and what has been started determine what may start, and the engine
\* goes on exactly when nothing runs and nothing is due.
In(s, via) == {i \in Calls : inv[i].step = s /\ inv[i].via = via /\ inv[i].pc # "called"}
Net == INSTANCE WorkflowNet WITH
  fired   <- [e \in graph.edge |->
                Cardinality({i \in Calls : inv[i].pc = "done" /\ e \in inv[i].passed})],
  entered <- [s \in Steps |-> [ground \in {"trigger", "join", "back"} |->
                Cardinality(In(s, ground))]],
  running <- [s \in Steps |->
                Cardinality({i \in Calls : /\ inv[i].step = s
                                           /\ inv[i].pc \notin {"called", "done"}})],
  over    <- settled /\ engine # "graph"
RefinesNet == Net!NetSpec
=============================================================================
