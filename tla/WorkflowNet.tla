----------------------------- MODULE WorkflowNet -----------------------------
(***************************************************************************)
(* What the execution of a workflow promises, whatever counters and maps   *)
(* the scheduler keeps for it: a step waits for every edge that joins in   *)
(* it, each passage of an edge starts its target once, and the run is over *)
(* exactly when nothing runs and nothing more can start.                   *)
(***************************************************************************)
EXTENDS WorkflowGraph, FiniteSetsExt

VARIABLES
  graph,   \* the workflow, fixed
  fired,   \* [edges -> how often the edge was passed]
  entered, \* [steps -> how often the step was started, on each ground]
  running, \* [steps -> how many executions of the step are under way]
  over     \* nothing runs and nothing will

netVars == <<graph, fired, entered, running, over>>

Grounds == {"trigger", "join", "back"}

NetInit ==
  /\ graph \in Graphs
  /\ fired = [e \in graph.edge |-> 0]
  /\ entered = [s \in Steps |-> [ground \in Grounds |-> 0]]
  /\ running = [s \in Steps |-> 0]
  /\ over = FALSE

\* The edges back to a loop.
BackTo(s) == {e \in LoopBack[graph] : e.to = s}

\* The passages of some edges, each told by its edge and its number.
Passages(edges) == UNION {{e} \X (1..fired[e]) : e \in edges}

\* A start of the workflow runs at once, a step that others lead to once all
\* of them have, a loop once more for each passage of an edge back to it.
Due(s, ground) ==
  CASE ground = "trigger" -> IF s \in Starts(graph) THEN 1 ELSE 0
    [] ground = "join" -> IF Joins(graph, s) = {} THEN 0
                          ELSE Min({fired[e] : e \in Joins(graph, s)})
    [] ground = "back" -> Cardinality(Passages(BackTo(s)))

NetStart(s, ground) ==
  /\ ~over /\ entered[s][ground] < Due(s, ground)
  /\ entered' = [entered EXCEPT ![s][ground] = @ + 1]
  /\ running' = [running EXCEPT ![s] = @ + 1]
  /\ UNCHANGED <<graph, fired, over>>

\* A step ends by passing the edges of the branch it chose; none when it
\* failed and stops its flow.
NetFinish(s, passed) ==
  /\ ~over /\ running[s] > 0
  /\ \/ \E branch \in Handles : passed = FilterOut(graph, s, branch)
     \/ s \in graph.stop /\ passed = {}
  /\ running' = [running EXCEPT ![s] = @ - 1]
  /\ fired' = [e \in graph.edge |-> IF e \in passed THEN fired[e] + 1 ELSE fired[e]]
  /\ UNCHANGED <<graph, entered, over>>

NetClose ==
  /\ ~over
  /\ \A s \in Steps : /\ running[s] = 0
                      /\ \A ground \in Grounds : entered[s][ground] = Due(s, ground)
  /\ over' = TRUE
  /\ UNCHANGED <<graph, fired, entered, running>>

NetNext ==
  \/ \E s \in Steps, ground \in Grounds : NetStart(s, ground)
  \/ \E s \in Steps : \E passed \in SUBSET Out(graph, s) : NetFinish(s, passed)
  \/ NetClose

NetSpec == NetInit /\ [][NetNext]_netVars
=============================================================================
