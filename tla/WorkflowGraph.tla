---------------------------- MODULE WorkflowGraph ----------------------------
(***************************************************************************)
(* The operators on a workflow's graph that the scheduler is built from    *)
(* (workflow-runtime/graph-utils.ts). A graph is a record                  *)
(*   edge   set of [from, to, handle], its source a step or the trigger    *)
(*   kind   the type of each step, as far as scheduling tells types apart  *)
(*   stop   the steps with onFailure STOP                                  *)
(*   count  how often a LOOP step runs its body                            *)
(***************************************************************************)
EXTENDS Naturals, FiniteSets

CONSTANTS
  Steps,   \* step ids
  Trigger, \* WF_TRIGGER_ID
  Graphs   \* the workflows looked at

Kinds   == {"TASK", "EXCEL", "LOCAL", "CONDITION", "LOOP"}
Handles == {"default", "true", "false", "body", "done"}
EdgeOf  == [from : Steps \cup {Trigger}, to : Steps, handle : Handles]

\* Only a choice may link two steps twice, once for each of its handles.
ASSUME StepsAssumption == Trigger \notin Steps /\ IsFiniteSet(Steps)
ASSUME GraphsAssumption ==
  \A g \in Graphs :
    /\ g.edge \subseteq EdgeOf /\ g.edge # {}
    /\ g.kind \in [Steps -> Kinds] /\ g.count \in [Steps -> Nat] /\ g.stop \subseteq Steps
    /\ \A e, f \in g.edge : e.from = f.from /\ e.to = f.to =>
         \/ e = f
         \/ e.from # Trigger /\ g.kind[e.from] \in {"CONDITION", "LOOP"}

-----------------------------------------------------------------------------
\* buildAdjacency. A step no edge touches is not part of the workflow here.
Out(g, s)  == {e \in g.edge : e.from = s}
Used(g)    == {s \in Steps : \E e \in g.edge : s \in {e.from, e.to}}

\* The search of buildLoopBackEdgeKeys: the steps that can be reached from the
\* body edges of a loop without passing through the loop itself.
Body(g, loop) ==
  LET closed(S) == /\ {e.to : e \in {f \in Out(g, loop) : f.handle = "body"}} \subseteq S
                   /\ \A e \in g.edge : e.from \in S /\ e.to # loop => e.to \in S
  IN  {s \in Steps : \A S \in SUBSET Steps : closed(S) => s \in S}

LoopBackOf(g) == {e \in g.edge : g.kind[e.to] = "LOOP" /\ e.from \in Body(g, e.to)}
LoopBack == [g \in Graphs |-> LoopBackOf(g)] \* evaluated once for each graph

\* The edges that buildStepIndegree counts for a step: neither those of the
\* trigger nor the loop-back ones.
Joins(g, s) == {e \in g.edge : e.to = s /\ e.from # Trigger /\ e \notin LoopBack[g]}

\* getStartStepIds: what the trigger leads to, or the roots, or every step.
Starts(g) ==
  LET fromTrigger == {e.to : e \in Out(g, Trigger)}
      roots       == {s \in Used(g) : \A e \in g.edge : e.to # s}
  IN  IF fromTrigger # {} THEN fromTrigger ELSE IF roots # {} THEN roots ELSE Used(g)

\* filterOutEdges: a CONDITION without a branch (it failed) goes the way of
\* false, a LOOP without one the way of done.
FilterOut(g, s, branch) ==
  LET by(handle) == {e \in Out(g, s) : e.handle = handle} IN
  CASE g.kind[s] = "CONDITION" -> by(IF branch = "true" THEN "true" ELSE "false")
    [] g.kind[s] = "LOOP"      -> by(IF branch = "body" THEN "body" ELSE "done")
    [] OTHER -> IF by("default") # {} THEN by("default") ELSE Out(g, s)

-----------------------------------------------------------------------------
\* The workflows whose joins of several edges are met once: their parents lie
\* in a part K of the graph that no loop leads into and that is entered at its
\* start steps only, so each of its steps is started at most once.
OnceThrough(g, K) ==
  /\ \A s \in Steps : Cardinality(Joins(g, s)) > 1 => \A e \in Joins(g, s) : e.from \in K
  /\ \A s \in K : /\ \A e \in LoopBack[g] : e.to # s
                  /\ s \in Starts(g) => Joins(g, s) = {}
                  /\ \A e \in Joins(g, s) : e.from \in K
JoinsOnce(g) == \E K \in SUBSET Steps : OnceThrough(g, K)

\* The workflows that never go two ways at once, whatever loops they have.
NoForks(g) ==
  \A s \in Steps, branch \in Handles : \A e, f \in FilterOut(g, s, branch) : e = f
=============================================================================
