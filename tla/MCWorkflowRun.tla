--------------------------- MODULE MCWorkflowRun ---------------------------
(* Model-checking definitions for WorkflowRun: the workflows it is run on. *)
EXTENDS WorkflowRun

CONSTANTS a, b, c, d

E(from, to, handle) == [from |-> from, to |-> to, handle |-> handle]
Graph(kind, stop, edge) ==
  [edge |-> edge \cup {E(Trigger, a, "default")}, stop |-> stop,
   kind |-> kind @@ [s \in Steps |-> "TASK"], count |-> [s \in Steps |-> 2]]

\* A fork that joins; one branch may stop.
Diamond == Graph(<<>>, {b},
  {E(a, b, "default"), E(a, c, "default"), E(b, d, "default"), E(c, d, "default")})
\* Two starts that join, the other one a step of the server's own.
TwoStarts == Graph(b :> "LOCAL" @@ d :> "EXCEL", {a},
  {E(Trigger, b, "default"), E(a, c, "default"), E(b, c, "default"), E(b, d, "default")})
\* A choice whose branches meet again, and a branch that both ways lead to.
Choice == Graph(a :> "CONDITION", {},
  {E(a, b, "true"), E(a, c, "false"), E(b, d, "default"), E(c, d, "default")})
\* A loop whose body has a choice: two edges lead back.
Loop == Graph(a :> "LOOP" @@ b :> "CONDITION", {c},
  {E(a, b, "body"), E(b, c, "true"), E(b, a, "false"), E(c, a, "default"), E(a, d, "done")})
\* A loop in the body of a loop.
Nested == Graph(a :> "LOOP" @@ b :> "LOOP" @@ c :> "LOCAL", {},
  {E(a, b, "body"), E(b, c, "body"), E(c, b, "default"), E(b, a, "done"), E(a, d, "done")})

MCGraphs == {Diamond, TwoStarts, Choice, Loop, Nested}

\* The hypotheses of the theorems about RefinesNet and KeysUnique hold of them.
ASSUME JoinsAssumption == \A g \in MCGraphs : JoinsOnce(g)
ASSUME KeysAssumption == \A g \in MCGraphs : OnceThrough(g, Steps) \/ NoForks(g)
=============================================================================
