------------------------- MODULE WorkflowRunProofs -------------------------
(***************************************************************************)
(* Theorems about WorkflowRun, for any set of workflows and any number of  *)
(* database errors.                                                        *)
(*                                                                         *)
(* For every workflow: inFlight is the number of calls that are not done   *)
(* (Counted), because Return counts its children in and itself out in one  *)
(* turn; and what a call says of its row and its task fits (Told), until   *)
(* the engine, which is alone by then, closes the rows that were left.     *)
(*                                                                         *)
(* That the scheduler implements WorkflowNet is a matter of what calls owe *)
(* each other (OwedInv): a step was called as often as the edges that were *)
(* passed say (Owed), and pendingParents is the number of parents that did *)
(* not pass their edge yet (Awaited). The code never resets the counter of *)
(* a join, so Awaited is true of a join that is met once only: hence the   *)
(* hypothesis JoinsOnce, which TLC evaluates on the workflows it is run    *)
(* on. A join in the body of a loop is outside it, and there the scheduler *)
(* does start a step that no edge owes.                                    *)
(***************************************************************************)
EXTENDS WorkflowRun, FiniteSetTheorems, SequenceTheorems, WellFoundedInduction, TLAPS

Pcs == {"called", "created", "tracked", "working", "ending", "stopping", "returned", "done"}
RowStates == {"none", "RUNNING", "COMPLETED", "FAILED"}
Tasks == {"none", "active", "COMPLETED", "FAILED", "abandoned"}
Ended == {"COMPLETED", "FAILED"}
Contexts == [known : BOOLEAN, at : [Steps -> Nat]]

Items(g) ==
  [step : Steps, via : {"trigger", "join", "back"}, ctx : Contexts, path : Starts(g),
   depth : Nat, pc : Pcs, row : RowStates, task : Tasks, branch : Handles \cup {"none"},
   failed : BOOLEAN, passed : SUBSET g.edge, out : Contexts]

TypeOK ==
  /\ graph \in Graphs
  /\ pending \in [Steps -> Int] /\ arrived \in [Steps -> Seq(Contexts)]
  /\ inv \in Seq(Items(graph)) /\ inFlight \in Int /\ settled \in BOOLEAN
  /\ engine \in {"reading", "graph", "finding", "caught", "closing", "undoing",
                 "flows", "touching", "end", "dead"}
  /\ stale \subseteq Calls
  /\ run \in {"RUNNING", "COMPLETED", "FAILED"}
  /\ flow \in [Starts(graph) -> {"RUNNING", "COMPLETED", "STOPPED"}]
  /\ faults \in 0..MaxFaults

Active == {i \in Calls : inv[i].pc # "done"}

Counted ==
  /\ inFlight = Cardinality(Active)
  /\ settled => Active = {}
  /\ engine = "reading" => inv = <<>> /\ ~settled
  /\ engine \notin {"reading", "graph"} => Active = {}

\* What a call's record says of its row and of its task.
Tells(call) ==
  /\ call.task \in Ended => call.row \in {"RUNNING", call.task}
  /\ call.pc \in {"called", "created", "tracked", "working"} => call.task \notin Ended
  /\ call.pc \in {"working", "ending"} => call.row = "RUNNING"
  /\ call.pc = "ending" /\ call.task \in Ended => (call.failed <=> (call.task = "FAILED"))

Told ==
  /\ \A i \in Calls : Tells(inv[i])
  /\ engine \in {"closing", "undoing"} => \A i \in Calls : inv[i].row = "RUNNING" => i \in stale
  /\ run # "RUNNING" => /\ engine \notin {"reading", "graph"}
                        /\ \A i \in Calls : inv[i].row # "RUNNING"
  /\ engine \in {"flows", "touching", "end"} => run # "RUNNING"

IInv == TypeOK /\ Counted /\ Told

-----------------------------------------------------------------------------
(* Data *)

LEMMA ImageFinite ==
  ASSUME NEW f, NEW S, IsFiniteSet(S)
  PROVE  IsFiniteSet({f[x] : x \in S})
<1> DEFINE T == {f[x] : x \in S}
           g == [x \in S |-> f[x]]
<1>1. g \in Surjection(S, T)
  BY DEF Surjection
<1> QED BY <1>1, FS_Surjection

\* Positions that follow one another are as many as one would count.
LEMMA Interval ==
  ASSUME NEW m \in Nat, NEW n \in Nat
  PROVE  /\ IsFiniteSet((m + 1) .. (m + n)) /\ Cardinality((m + 1) .. (m + n)) = n
         /\ IsFiniteSet(1..n) /\ Cardinality(1..n) = n
<1>1. /\ IsFiniteSet((m + 1) .. (m + n))
      /\ Cardinality((m + 1) .. (m + n)) = IF m + 1 > m + n THEN 0 ELSE (m + n) - (m + 1) + 1
  <2>1. m + 1 \in Int /\ m + n \in Int
    OBVIOUS
  <2> QED BY <2>1, FS_Interval, Zenon
<1>2. IsFiniteSet(1..n) /\ Cardinality(1..n) = IF 1 > n THEN 0 ELSE n - 1 + 1
  <2>1. 1 \in Int /\ n \in Int
    OBVIOUS
  <2> QED BY <2>1, FS_Interval, Zenon
<1> QED BY <1>1, <1>2

\* Two sets with nothing in common are together as many as both.
LEMMA DisjointUnion ==
  ASSUME NEW S, NEW T, IsFiniteSet(S), IsFiniteSet(T), S \cap T = {}
  PROVE  /\ IsFiniteSet(S \cup T) /\ Cardinality(S) \in Nat /\ Cardinality(T) \in Nat
         /\ Cardinality(S \cup T) = Cardinality(S) + Cardinality(T)
<1>1. Cardinality(S \cup T) = Cardinality(S) + Cardinality(T) - Cardinality(S \cap T)
  BY FS_Union
<1>2. Cardinality(S \cap T) = 0
  BY FS_EmptySet
<1> QED BY <1>1, <1>2, FS_Union, FS_CardinalityType

LEMMA EdgesFinite ==
  ASSUME NEW g \in Graphs
  PROVE  IsFiniteSet(g.edge) /\ g.edge \subseteq EdgeOf
<1> DEFINE P == (Steps \cup {Trigger}) \X Steps \X Handles
           A == (Steps \cup {Trigger}) \X Steps
           B == A \X Handles
           f == [t \in B |-> [from |-> t[1][1], to |-> t[1][2], handle |-> t[2]]]
<1>1. IsFiniteSet(Steps) /\ IsFiniteSet(Steps \cup {Trigger})
  BY StepsAssumption, FS_AddElement
<1>2. IsFiniteSet(Handles)
  <2>1. IsFiniteSet({"default"})
    BY FS_Singleton
  <2>2. IsFiniteSet({"default"} \cup {"true"})
    BY <2>1, FS_AddElement
  <2>3. IsFiniteSet({"default"} \cup {"true"} \cup {"false"})
    BY <2>2, FS_AddElement
  <2>4. IsFiniteSet({"default"} \cup {"true"} \cup {"false"} \cup {"body"})
    BY <2>3, FS_AddElement
  <2>5. IsFiniteSet({"default"} \cup {"true"} \cup {"false"} \cup {"body"} \cup {"done"})
    BY <2>4, FS_AddElement
  <2>6. Handles = {"default"} \cup {"true"} \cup {"false"} \cup {"body"} \cup {"done"}
    BY DEF Handles
  <2> QED BY <2>5, <2>6
<1>3. IsFiniteSet(A)
  BY <1>1, FS_Product
<1>4. IsFiniteSet(B)
  BY <1>2, <1>3, FS_Product
<1>5. f \in Surjection(B, EdgeOf)
  <2>1. f \in [B -> EdgeOf]
    BY DEF EdgeOf
  <2>2. ASSUME NEW e \in EdgeOf
        PROVE  \E t \in B : f[t] = e
    <3>1. <<<<e.from, e.to>>, e.handle>> \in B
      BY DEF EdgeOf
    <3>2. f[<<<<e.from, e.to>>, e.handle>>] = e
      BY <3>1 DEF EdgeOf
    <3> QED BY <3>1, <3>2
  <2> QED BY <2>1, <2>2 DEF Surjection
<1>6. IsFiniteSet(EdgeOf)
  BY <1>4, <1>5, FS_Surjection
<1>7. g.edge \subseteq EdgeOf
  BY GraphsAssumption
<1> QED BY <1>6, <1>7, FS_Subset

LEMMA SetToSeqIsSeq ==
  ASSUME NEW S, IsFiniteSet(S)
  PROVE  /\ SetToSeq(S) \in [1..Cardinality(S) -> S]
         /\ IsInjective(SetToSeq(S))
         /\ SetToSeq(S) \in Seq(S)
         /\ Len(SetToSeq(S)) = Cardinality(S)
         /\ Cardinality(S) \in Nat
         /\ \A x \in S : \E k \in 1..Cardinality(S) : SetToSeq(S)[k] = x
<1>1. Cardinality(S) \in Nat /\ ExistsBijection(1..Cardinality(S), S)
  BY FS_CardinalityType
<1>2. PICK f \in Bijection(1..Cardinality(S), S) : TRUE
  BY <1>1 DEF ExistsBijection
<1>3. f \in [1..Cardinality(S) -> S] /\ IsInjective(f)
  BY <1>2 DEF Bijection, Injection, IsInjective
<1>4. SetToSeq(S) \in [1..Cardinality(S) -> S] /\ IsInjective(SetToSeq(S))
  BY <1>3 DEF SetToSeq
<1> HIDE DEF SetToSeq
<1>5. SetToSeq(S) \in Seq(S)
  BY <1>1, <1>4, SeqDef
<1>6. IsFiniteSet(1..Cardinality(S)) /\ Cardinality(1..Cardinality(S)) = Cardinality(S)
  BY <1>1, Interval
<1>7. SetToSeq(S) \in Injection(1..Cardinality(S), S)
  BY <1>4 DEF Injection, IsInjective
<1>8. SetToSeq(S) \in Surjection(1..Cardinality(S), S)
  BY <1>6, <1>7, FS_Injection
<1>9. \A x \in S : \E k \in 1..Cardinality(S) : SetToSeq(S)[k] = x
  BY <1>8 DEF Surjection
<1> QED BY <1>1, <1>4, <1>5, <1>9, LenProperties

\* The largest of the positions, which mergeStepContexts takes, is one of them.
LEMMA MaxIsIn ==
  ASSUME NEW n \in Nat, NEW K \in SUBSET (1..n), K # {}
  PROVE  Max(K) \in K
<1> DEFINE T == {n - k : k \in K}
<1>1. T \subseteq Nat /\ T # {}
  <2>1. \A k \in K : k \in 1..n /\ n - k \in Nat
    OBVIOUS
  <2>2. T # {}
    OBVIOUS
  <2> QED BY <2>1, <2>2
<1>2. PICK x \in T : \A y \in T : ~ (<<y, x>> \in OpToRel(<, Nat))
  BY <1>1, NatLessThanWellFounded, WFMin
<1>3. PICK k \in K : x = n - k
  OBVIOUS
<1>4. \A j \in K : k >= j
  <2> TAKE j \in K
  <2>1. n - j \in T
    OBVIOUS
  <2>2. ~(n - j < n - k)
    BY <2>1, <1>1, <1>2, <1>3 DEF OpToRel
  <2> QED BY <2>2
<1> QED BY <1>4 DEF Max

LEMMA MergeTyped ==
  ASSUME NEW ctxs \in Seq(Contexts)
  PROVE  MergeStepContexts(ctxs) \in Contexts
<1> DEFINE K == {k \in DOMAIN ctxs : ctxs[k].known}
<1>1. K \in SUBSET (1..Len(ctxs)) /\ Len(ctxs) \in Nat
  BY LenProperties
<1>2. CASE K = {}
  BY <1>2 DEF MergeStepContexts, EmptyCtx, Contexts
<1>3. CASE K # {}
  <2>1. Max(K) \in K
    BY <1>1, <1>3, MaxIsIn
  <2>2. ctxs[Max(K)] \in Contexts
    BY <2>1, <1>1, ElementOfSeq
  <2> QED BY <2>2, <1>3 DEF MergeStepContexts
<1> QED BY <1>2, <1>3

LEMMA FilterOutIsOut ==
  ASSUME NEW g \in Graphs, NEW s, NEW branch
  PROVE  FilterOut(g, s, branch) \subseteq Out(g, s)
BY DEF FilterOut, Out

LEMMA StartsAreSteps ==
  ASSUME NEW g \in Graphs
  PROVE  Starts(g) \subseteq Steps
BY EdgesFinite DEF Starts, Out, Used, EdgeOf

-----------------------------------------------------------------------------
(* What a step of a call does *)

\* Where a call comes from and what it was given do not change.
Same(old, new) ==
  /\ new.step = old.step /\ new.via = old.via /\ new.ctx = old.ctx
  /\ new.path = old.path /\ new.depth = old.depth /\ new.passed = old.passed

Moves(i, call) ==
  /\ inv' = [inv EXCEPT ![i] = call]
  /\ call \in Items(graph) /\ Same(inv[i], call)
  /\ inv[i].pc \notin {"returned", "done"}
  /\ call.pc \notin {"called", "done"}
  /\ Tells(inv[i]) => Tells(call)

LEMMA CallTyped ==
  ASSUME TypeOK, NEW i \in Calls
  PROVE  inv[i] \in Items(graph)
BY ElementOfSeq, LenProperties DEF TypeOK, Calls

LEMMA FieldsOf ==
  ASSUME NEW g, NEW c \in Items(g)
  PROVE  /\ c.step \in Steps /\ c.via \in {"trigger", "join", "back"} /\ c.ctx \in Contexts
         /\ c.path \in Starts(g) /\ c.depth \in Nat /\ c.pc \in Pcs /\ c.row \in RowStates
         /\ c.task \in Tasks /\ c.branch \in Handles \cup {"none"} /\ c.failed \in BOOLEAN
         /\ c.passed \in SUBSET g.edge /\ c.out \in Contexts
BY DEF Items

LEMMA CreateTaskDoes ==
  ASSUME TypeOK, NEW i \in Calls, CreateTask(i)
  PROVE  \E call : Moves(i, call)
<1> DEFINE c1 == [inv[i] EXCEPT !.pc = "created", !.task = "active"]
           c2 == [inv[i] EXCEPT !.pc = "returned", !.failed = TRUE]
<1>1. inv[i] \in Items(graph)
  BY CallTyped
<1>2. inv[i].pc \in {"called", "tracked"}
  BY DEF CreateTask
<1>3. Moves(i, c1) \/ Moves(i, c2)
  <2>1. CASE inv' = [inv EXCEPT ![i] = c1]
    <3>1. c1 \in Items(graph) /\ Same(inv[i], c1)
      BY <1>1 DEF Items, Pcs, Tasks, Same
    <3>2. c1.pc = "created" /\ c1.task = "active"
      BY <1>1 DEF Items
    <3> QED BY <2>1, <3>1, <3>2, <1>2 DEF Moves, Tells, Ended
  <2>2. CASE inv' = [inv EXCEPT ![i] = c2]
    <3>1. c2 \in Items(graph) /\ Same(inv[i], c2)
      BY <1>1 DEF Items, Pcs, Same
    <3>2. c2.pc = "returned" /\ c2.task = inv[i].task /\ c2.row = inv[i].row
      BY <1>1 DEF Items
    <3> QED BY <2>2, <3>1, <3>2, <1>2 DEF Moves, Tells, Ended
  <2> QED BY <2>1, <2>2 DEF CreateTask, Update
<1> QED BY <1>3

LEMMA TrackStartDoes ==
  ASSUME TypeOK, NEW i \in Calls, TrackStart(i)
  PROVE  \E call : Moves(i, call)
<1> DEFINE pc == IF inv[i].pc = "called" /\ Kind(i) = "EXCEL" THEN "tracked" ELSE "working"
           c1 == [inv[i] EXCEPT !.row = "RUNNING", !.pc = pc]
<1>1. inv[i] \in Items(graph)
  BY CallTyped
<1>2. inv[i].pc \in {"called", "created"}
  BY DEF TrackStart
<1>3. inv' = [inv EXCEPT ![i] = c1]
  BY <1>1 DEF TrackStart, Update, Items
<1>4. c1 \in Items(graph) /\ Same(inv[i], c1)
  BY <1>1 DEF Items, Pcs, RowStates, Same
<1>5. c1.pc \in {"tracked", "working"} /\ c1.row = "RUNNING" /\ c1.task = inv[i].task
  BY <1>1 DEF Items
<1> QED BY <1>2, <1>3, <1>4, <1>5 DEF Moves, Tells, Ended

LEMMA WaitForTaskDoes ==
  ASSUME TypeOK, NEW i \in Calls, WaitForTask(i)
  PROVE  \E call : Moves(i, call)
<1>1. inv[i] \in Items(graph)
  BY CallTyped
<1>2. PICK outcome \in {"COMPLETED", "FAILED"} :
        inv' = [inv EXCEPT ![i] = [inv[i] EXCEPT !.pc = "ending", !.task = outcome,
                                                 !.failed = outcome = "FAILED"]]
  BY DEF WaitForTask, Update
<1> DEFINE c1 == [inv[i] EXCEPT !.pc = "ending", !.task = outcome, !.failed = outcome = "FAILED"]
<1>3. inv[i].pc = "working"
  BY DEF WaitForTask
<1>4. c1 \in Items(graph) /\ Same(inv[i], c1)
  BY <1>1 DEF Items, Pcs, Tasks, Same
<1>5. c1.pc = "ending" /\ c1.row = inv[i].row /\ c1.task = outcome /\ c1.failed = (outcome = "FAILED")
  BY <1>1 DEF Items
<1> QED BY <1>2, <1>3, <1>4, <1>5 DEF Moves, Tells, Ended

LEMMA WorkLocallyDoes ==
  ASSUME TypeOK, NEW i \in Calls, WorkLocally(i)
  PROVE  \E call : Moves(i, call)
<1>1. inv[i] \in Items(graph)
  BY CallTyped
<1>2. inv[i].pc = "working"
  BY DEF WorkLocally
<1>3. CASE \E failed \in BOOLEAN :
             Update(i, [inv[i] EXCEPT !.pc = "ending", !.failed = failed])
  <2>1. PICK failed \in BOOLEAN :
          inv' = [inv EXCEPT ![i] = [inv[i] EXCEPT !.pc = "ending", !.failed = failed]]
    BY <1>3 DEF Update
  <2> DEFINE c1 == [inv[i] EXCEPT !.pc = "ending", !.failed = failed]
  <2>2. c1 \in Items(graph) /\ Same(inv[i], c1)
    BY <1>1 DEF Items, Pcs, Same
  <2>3. c1.pc = "ending" /\ c1.row = inv[i].row /\ c1.task = inv[i].task
    BY <1>1 DEF Items
  <2> QED BY <1>2, <2>1, <2>2, <2>3 DEF Moves, Tells, Ended
<1>4. CASE Update(i, [inv[i] EXCEPT !.pc = "returned", !.failed = TRUE])
  <2> DEFINE c1 == [inv[i] EXCEPT !.pc = "returned", !.failed = TRUE]
  <2>2. c1 \in Items(graph) /\ Same(inv[i], c1)
    BY <1>1 DEF Items, Pcs, Same
  <2>3. c1.pc = "returned" /\ c1.row = inv[i].row /\ c1.task = inv[i].task
    BY <1>1 DEF Items
  <2> QED BY <1>2, <1>4, <2>2, <2>3 DEF Moves, Tells, Ended, Update
<1> QED BY <1>3, <1>4 DEF WorkLocally

LEMMA EvaluateConditionDoes ==
  ASSUME TypeOK, NEW i \in Calls, EvaluateCondition(i)
  PROVE  \E call : Moves(i, call)
<1>1. inv[i] \in Items(graph)
  BY CallTyped
<1>2. PICK branch \in {"true", "false"} :
        inv' = [inv EXCEPT ![i] = [inv[i] EXCEPT !.pc = "ending", !.branch = branch]]
  BY DEF EvaluateCondition, Update
<1> DEFINE c1 == [inv[i] EXCEPT !.pc = "ending", !.branch = branch]
<1>3. inv[i].pc = "working"
  BY DEF EvaluateCondition
<1>4. c1 \in Items(graph) /\ Same(inv[i], c1)
  BY <1>1 DEF Items, Pcs, Handles, Same
<1>5. c1.pc = "ending" /\ c1.row = inv[i].row /\ c1.task = inv[i].task
  BY <1>1 DEF Items
<1> QED BY <1>2, <1>3, <1>4, <1>5 DEF Moves, Tells, Ended

LEMMA CountLoopDoes ==
  ASSUME TypeOK, NEW i \in Calls, CountLoop(i)
  PROVE  \E call : Moves(i, call)
<1> DEFINE s == inv[i].step
           n == inv[i].ctx.at[s]
           more == n < graph.count[s]
           at == [inv[i].ctx.at EXCEPT ![s] = IF more THEN n + 1 ELSE 0]
           out == [known |-> TRUE, at |-> at]
           branch == IF more THEN "body" ELSE "done"
           c1 == [inv[i] EXCEPT !.pc = "ending", !.branch = branch, !.out = out]
<1>1. inv[i] \in Items(graph)
  BY CallTyped
<1>2. s \in Steps /\ inv[i].ctx \in Contexts
  BY <1>1, FieldsOf
<1>3. out \in Contexts
  <2>1. inv[i].ctx.at \in [Steps -> Nat]
    BY <1>2 DEF Contexts
  <2>2. n \in Nat
    BY <2>1, <1>2
  <2>3. (IF more THEN n + 1 ELSE 0) \in Nat
    BY <2>2
  <2>4. at \in [Steps -> Nat]
    BY <2>1, <2>3, <1>2
  <2> QED BY <2>4 DEF Contexts
<1>4. branch \in Handles
  BY DEF Handles
<1>5. inv[i].pc = "working" /\ inv' = [inv EXCEPT ![i] = c1]
  BY DEF CountLoop, Update
<1> HIDE DEF out, branch
<1>6. c1 \in Items(graph) /\ Same(inv[i], c1)
  BY <1>1, <1>3, <1>4 DEF Items, Pcs, Same
<1>7. c1.pc = "ending" /\ c1.row = inv[i].row /\ c1.task = inv[i].task
  BY <1>1 DEF Items
<1> QED BY <1>5, <1>6, <1>7 DEF Moves, Tells, Ended

LEMMA TrackEndDoes ==
  ASSUME TypeOK, NEW i \in Calls, TrackEnd(i)
  PROVE  \E call : Moves(i, call)
<1> DEFINE pc == IF inv[i].failed THEN "stopping" ELSE "returned"
           row == IF inv[i].failed THEN "FAILED" ELSE "COMPLETED"
           c1 == [inv[i] EXCEPT !.pc = pc, !.row = row]
<1>1. inv[i] \in Items(graph)
  BY CallTyped
<1>2. inv[i].pc = "ending" /\ inv' = [inv EXCEPT ![i] = c1]
  BY DEF TrackEnd, Update
<1>3. c1 \in Items(graph) /\ Same(inv[i], c1)
  BY <1>1 DEF Items, Pcs, RowStates, Same
<1>4. c1.pc \in {"stopping", "returned"} /\ c1.row = row /\ c1.task = inv[i].task
  BY <1>1 DEF Items
<1>5. inv[i].failed \in BOOLEAN
  BY <1>1, FieldsOf
<1> QED BY <1>2, <1>3, <1>4, <1>5 DEF Moves, Tells, Ended

LEMMA MarkFlowStoppedDoes ==
  ASSUME TypeOK, NEW i \in Calls, MarkFlowStopped(i)
  PROVE  \E call : Moves(i, call)
<1> DEFINE c1 == [inv[i] EXCEPT !.pc = "returned"]
<1>1. inv[i] \in Items(graph)
  BY CallTyped
<1>2. inv[i].pc = "stopping" /\ inv' = [inv EXCEPT ![i] = c1]
  BY DEF MarkFlowStopped, Update
<1>3. c1 \in Items(graph) /\ Same(inv[i], c1)
  BY <1>1 DEF Items, Pcs, Same
<1>4. c1.pc = "returned" /\ c1.row = inv[i].row /\ c1.task = inv[i].task
  BY <1>1 DEF Items
<1> QED BY <1>2, <1>3, <1>4 DEF Moves, Tells, Ended

LEMMA StepThrowsDoes ==
  ASSUME TypeOK, NEW i \in Calls, StepThrows(i)
  PROVE  \E call : Moves(i, call)
<1> DEFINE task == IF inv[i].task = "active" THEN "abandoned" ELSE inv[i].task
           c1 == [inv[i] EXCEPT !.pc = "returned", !.failed = TRUE, !.branch = "none",
                                !.out = inv[i].ctx, !.task = task]
<1>1. inv[i] \in Items(graph)
  BY CallTyped
<1>2. inv[i].pc \in {"created", "ending", "stopping", "called", "working"}
  BY DEF StepThrows
<1>3. inv' = [inv EXCEPT ![i] = c1]
  BY <1>1 DEF StepThrows, Update, Items
<1>4. task \in Tasks /\ inv[i].ctx \in Contexts
  BY <1>1, FieldsOf DEF Tasks
<1>5. task \in Ended => inv[i].task = task
  BY DEF Ended
<1> HIDE DEF task
<1>6. c1 \in Items(graph) /\ Same(inv[i], c1)
  BY <1>1, <1>4 DEF Items, Pcs, Same
<1>7. c1.pc = "returned" /\ c1.row = inv[i].row /\ c1.task = task
  BY <1>1 DEF Items
<1> QED BY <1>2, <1>3, <1>5, <1>6, <1>7 DEF Moves, Tells, Ended

\* A step of a call changes that call, and next to nothing else.
LEMMA StepDoes ==
  ASSUME TypeOK, NEW i \in Calls, RunStep(i) \/ StepThrows(i)
  PROVE  /\ \E call : Moves(i, call)
         /\ InStep
         /\ flow' \in [Starts(graph) -> {"RUNNING", "COMPLETED", "STOPPED"}]
         /\ faults' \in 0..MaxFaults
<1>1. \E call : Moves(i, call)
  BY CreateTaskDoes, TrackStartDoes, WaitForTaskDoes, WorkLocallyDoes, EvaluateConditionDoes,
     CountLoopDoes, TrackEndDoes, MarkFlowStoppedDoes, StepThrowsDoes DEF RunStep
<1>2. InStep
  BY DEF RunStep, CreateTask, TrackStart, WaitForTask, WorkLocally, EvaluateCondition, CountLoop,
         TrackEnd, MarkFlowStopped, StepThrows
<1>3. CASE MarkFlowStopped(i)
  BY <1>1, <1>2, <1>3 DEF MarkFlowStopped, TypeOK
<1>4. CASE StepThrows(i)
  <2>1. flow' = flow /\ faults < MaxFaults /\ faults' = faults + 1
    BY <1>4 DEF StepThrows
  <2>2. faults' \in 0..MaxFaults
    BY <2>1, FaultsAssumption DEF TypeOK
  <2> QED BY <1>1, <1>2, <2>1, <2>2 DEF TypeOK
<1>5. CASE RunStep(i) /\ ~MarkFlowStopped(i)
  <2>1. UNCHANGED <<flow, faults>>
    BY <1>5 DEF RunStep, CreateTask, TrackStart, WaitForTask, WorkLocally, EvaluateCondition,
                CountLoop, TrackEnd
  <2> QED BY <1>1, <1>2, <2>1 DEF TypeOK
<1> QED BY <1>3, <1>4, <1>5

-----------------------------------------------------------------------------
(* What the return of a call does *)

\* The parts of Return, under names: the edges passed, those of them that lead
\* back to a loop, the steps the others lead to, their counters, the contexts
\* that have arrived there, and the steps that start now.
Outs(i)  == IF inv[i].failed /\ inv[i].step \in graph.stop THEN {}
            ELSE FilterOut(graph, inv[i].step, inv[i].branch)
Backs(i) == Outs(i) \cap LoopBack[graph]
Met(i)   == {e.to : e \in Outs(i) \ Backs(i)}
Left(i)  == [s \in Steps |-> IF s \in Met(i) THEN pending[s] - 1 ELSE pending[s]]
Ctxs(i)  == [s \in Steps |-> IF s \in Met(i) THEN Append(arrived[s], inv[i].out) ELSE arrived[s]]
Ready(i) == {s \in Met(i) : IsReady(Left(i)[s])}
Child(i, s, via, ctx) == Item(s, via, ctx, inv[i].path, ChildDepth(inv[i].depth))
ByBack(i) == {Child(i, e.to, "back", inv[i].out) : e \in Backs(i)}
ByJoin(i) == {Child(i, s, "join", MergeStepContexts(Ctxs(i)[s])) : s \in Ready(i)}
Children(i) == SetToSeq(ByBack(i) \cup ByJoin(i))
Finished(i) == [inv[i] EXCEPT !.pc = "done", !.passed = Outs(i)]

LEMMA ReturnParts ==
  ASSUME TypeOK, NEW i \in Calls, Return(i)
  PROVE  /\ inv[i].pc = "returned"
         /\ inv' = [inv EXCEPT ![i] = Finished(i)] \o Children(i)
         /\ pending' = Left(i)
         /\ arrived' = [s \in Steps |-> IF s \in Ready(i) THEN <<>> ELSE Ctxs(i)[s]]
         /\ inFlight' = inFlight + Len(Children(i)) - 1
         /\ settled' = (settled \/ inFlight' = 0)
         /\ UNCHANGED <<graph, engine, stale, run, flow, faults>>
BY DEF Return, LeaveRunOne, MaybeDone, Outs, Backs, Met, Left, Ctxs, Ready, Child, ByBack, ByJoin,
       Children, Finished, Calls

LEMMA OutsTyped ==
  ASSUME TypeOK, NEW i \in Calls
  PROVE  /\ Outs(i) \subseteq graph.edge /\ IsFiniteSet(Outs(i))
         /\ \A e \in Outs(i) : e.from = inv[i].step /\ e.to \in Steps
         /\ IsFiniteSet(Backs(i)) /\ Backs(i) \subseteq Outs(i)
         /\ Met(i) \subseteq Steps /\ IsFiniteSet(Met(i))
         /\ Ready(i) \subseteq Steps /\ IsFiniteSet(Ready(i)) /\ Ready(i) \subseteq Met(i)
<1>1. graph \in Graphs
  BY DEF TypeOK
<1>2. Outs(i) \subseteq Out(graph, inv[i].step)
  BY <1>1, FilterOutIsOut DEF Outs
<1>3. Outs(i) \subseteq graph.edge /\ \A e \in Outs(i) : e.from = inv[i].step /\ e.to \in Steps
  BY <1>1, <1>2, EdgesFinite DEF Out, EdgeOf
<1>4. IsFiniteSet(Outs(i))
  BY <1>1, <1>3, EdgesFinite, FS_Subset
<1>5. IsFiniteSet(Backs(i)) /\ Backs(i) \subseteq Outs(i)
  BY <1>4, FS_Intersection DEF Backs
<1>6. Met(i) \subseteq Steps /\ Ready(i) \subseteq Steps /\ Ready(i) \subseteq Met(i)
  BY <1>3 DEF Met, Ready
<1> QED BY <1>3, <1>4, <1>5, <1>6, StepsAssumption, FS_Subset

LEMMA ItemTyped ==
  ASSUME NEW g, NEW s \in Steps, NEW via \in {"trigger", "join", "back"}, NEW ctx \in Contexts,
         NEW path \in Starts(g), NEW depth \in Nat
  PROVE  /\ Item(s, via, ctx, path, depth) \in Items(g)
         /\ Item(s, via, ctx, path, depth).pc = "called"
         /\ Item(s, via, ctx, path, depth).step = s
         /\ Item(s, via, ctx, path, depth).via = via
         /\ Item(s, via, ctx, path, depth).passed = {}
         /\ Tells(Item(s, via, ctx, path, depth))
         /\ Item(s, via, ctx, path, depth).row # "RUNNING"
BY DEF Item, Items, Pcs, RowStates, Tasks, Tells, Ended

LEMMA CtxsTyped ==
  ASSUME TypeOK, NEW i \in Calls
  PROVE  Ctxs(i) \in [Steps -> Seq(Contexts)]
<1>1. inv[i].out \in Contexts
  BY CallTyped, FieldsOf
<1>2. ASSUME NEW s \in Steps
      PROVE  Append(arrived[s], inv[i].out) \in Seq(Contexts) /\ arrived[s] \in Seq(Contexts)
  BY <1>1, AppendProperties DEF TypeOK
<1> QED BY <1>2 DEF Ctxs

LEMMA ChildrenTyped ==
  ASSUME TypeOK, NEW i \in Calls
  PROVE  /\ IsFiniteSet(ByBack(i) \cup ByJoin(i))
         /\ \A c \in ByBack(i) \cup ByJoin(i) :
               /\ c \in Items(graph) /\ c.pc = "called" /\ c.passed = {}
               /\ Tells(c) /\ c.row # "RUNNING"
<1>1. inv[i].out \in Contexts /\ inv[i].path \in Starts(graph) /\ ChildDepth(inv[i].depth) \in Nat
  <2>1. inv[i] \in Items(graph)
    BY CallTyped
  <2>2. inv[i].out \in Contexts /\ inv[i].path \in Starts(graph) /\ inv[i].depth \in Nat
    BY <2>1, FieldsOf
  <2> QED BY <2>2 DEF ChildDepth
<1>2. IsFiniteSet(ByBack(i))
  <2> DEFINE f == [e \in Backs(i) |-> Child(i, e.to, "back", inv[i].out)]
  <2>1. IsFiniteSet({f[e] : e \in Backs(i)})
    BY OutsTyped, ImageFinite
  <2> QED BY <2>1 DEF ByBack
<1>3. IsFiniteSet(ByJoin(i))
  <2> DEFINE f == [s \in Ready(i) |-> Child(i, s, "join", MergeStepContexts(Ctxs(i)[s]))]
  <2>1. IsFiniteSet({f[s] : s \in Ready(i)})
    BY OutsTyped, ImageFinite
  <2> QED BY <2>1 DEF ByJoin
<1>4. ASSUME NEW c \in ByBack(i)
      PROVE  /\ c \in Items(graph) /\ c.pc = "called" /\ c.passed = {}
             /\ Tells(c) /\ c.row # "RUNNING"
  <2>1. PICK e \in Backs(i) : c = Child(i, e.to, "back", inv[i].out)
    BY DEF ByBack
  <2>2. e.to \in Steps
    BY OutsTyped
  <2> QED BY <1>1, <2>1, <2>2, ItemTyped DEF Child
<1>5. ASSUME NEW c \in ByJoin(i)
      PROVE  /\ c \in Items(graph) /\ c.pc = "called" /\ c.passed = {}
             /\ Tells(c) /\ c.row # "RUNNING"
  <2>1. PICK s \in Ready(i) : c = Child(i, s, "join", MergeStepContexts(Ctxs(i)[s]))
    BY DEF ByJoin
  <2>2. s \in Steps
    BY OutsTyped
  <2>3. MergeStepContexts(Ctxs(i)[s]) \in Contexts
    BY <2>2, CtxsTyped, MergeTyped
  <2> QED BY <1>1, <2>1, <2>2, <2>3, ItemTyped DEF Child
<1> QED BY <1>2, <1>3, <1>4, <1>5, FS_Union

\* The calls after a return: the one that returned, the others, the new ones.
LEMMA ReturnDoes ==
  ASSUME TypeOK, NEW i \in Calls, Return(i)
  PROVE  /\ Children(i) \in Seq(Items(graph)) /\ Len(Children(i)) \in Nat
         /\ inv' \in Seq(Items(graph))
         /\ Len(inv') = Len(inv) + Len(Children(i))
         /\ Calls' = Calls \cup ((Len(inv) + 1) .. (Len(inv) + Len(Children(i))))
         /\ Finished(i) \in Items(graph) /\ Same(inv[i], [Finished(i) EXCEPT !.passed = inv[i].passed])
         /\ Finished(i).pc = "done" /\ Finished(i).row = inv[i].row /\ Finished(i).task = inv[i].task
         /\ Finished(i).passed = Outs(i)
         /\ \A j \in Calls : inv'[j] = IF j = i THEN Finished(i) ELSE inv[j]
         /\ \A j \in (Len(inv) + 1) .. (Len(inv) + Len(Children(i))) :
               /\ inv'[j] = Children(i)[j - Len(inv)]
               /\ inv'[j] \in ByBack(i) \cup ByJoin(i)
<1> DEFINE changed == [inv EXCEPT ![i] = Finished(i)]
           n == Len(Children(i))
<1>1. inv[i] \in Items(graph) /\ Outs(i) \in SUBSET graph.edge
  BY CallTyped, OutsTyped
<1>2. /\ Finished(i) \in Items(graph) /\ Same(inv[i], [Finished(i) EXCEPT !.passed = inv[i].passed])
      /\ Finished(i).pc = "done" /\ Finished(i).row = inv[i].row /\ Finished(i).task = inv[i].task
      /\ Finished(i).passed = Outs(i)
  BY <1>1 DEF Finished, Items, Pcs, Same
<1>3. inv \in Seq(Items(graph)) /\ Len(inv) \in Nat /\ Calls = 1..Len(inv)
  BY LenProperties DEF TypeOK, Calls
<1>4. /\ changed \in Seq(Items(graph)) /\ Len(changed) = Len(inv)
      /\ \A j \in 1..Len(inv) : changed[j] = IF j = i THEN Finished(i) ELSE inv[j]
  BY <1>2, <1>3, ExceptSeq
<1>5. /\ Children(i) \in [1..n -> ByBack(i) \cup ByJoin(i)] /\ n \in Nat
      /\ Children(i) \in Seq(ByBack(i) \cup ByJoin(i))
  BY ChildrenTyped, SetToSeqIsSeq DEF Children
<1>6. Children(i) \in Seq(Items(graph))
  BY <1>5, ChildrenTyped, SeqMonotonic
<1>7. inv' = changed \o Children(i)
  BY ReturnParts
<1> HIDE DEF changed
<1>8. /\ inv' \in Seq(Items(graph)) /\ Len(inv') = Len(inv) + n
      /\ \A j \in 1 .. Len(inv) + n :
            inv'[j] = IF j <= Len(inv) THEN changed[j] ELSE Children(i)[j - Len(inv)]
  <2>1. /\ changed \o Children(i) \in Seq(Items(graph))
        /\ Len(changed \o Children(i)) = Len(changed) + Len(Children(i))
        /\ \A j \in 1 .. Len(changed) + Len(Children(i)) : (changed \o Children(i))[j] =
              IF j <= Len(changed) THEN changed[j] ELSE Children(i)[j - Len(changed)]
    BY <1>4, <1>6, ConcatProperties, Zenon
  <2>2. Len(changed) = Len(inv)
    BY <1>4
  <2> QED BY <2>1, <2>2, <1>7, Zenon
<1>9. Calls' = 1..Len(inv')
  BY <1>8, LenProperties DEF Calls
<1> HIDE DEF n
<1>10. Calls' = Calls \cup ((Len(inv) + 1) .. (Len(inv) + n))
  BY <1>3, <1>5, <1>8, <1>9
<1>11. \A j \in Calls : inv'[j] = IF j = i THEN Finished(i) ELSE inv[j]
  BY <1>3, <1>4, <1>5, <1>8
<1>12. ASSUME NEW j \in (Len(inv) + 1) .. (Len(inv) + n)
       PROVE  /\ inv'[j] = Children(i)[j - Len(inv)]
              /\ inv'[j] \in ByBack(i) \cup ByJoin(i)
  <2>1. j \in 1 .. Len(inv) + n /\ ~(j <= Len(inv)) /\ j - Len(inv) \in 1..n
    BY <1>3, <1>5
  <2>2. inv'[j] = Children(i)[j - Len(inv)]
    BY <2>1, <1>8
  <2> QED BY <2>1, <2>2, <1>5
<1> QED BY <1>2, <1>5, <1>6, <1>8, <1>10, <1>11, <1>12 DEF n

\* The calls that a start or a step adds or leaves.
Started == {Item(s, "trigger", EmptyCtx, s, 0) : s \in Starts(graph)}

LEMMA StartedTyped ==
  ASSUME TypeOK
  PROVE  /\ IsFiniteSet(Started)
         /\ \A c \in Started : /\ c \in Items(graph) /\ c.pc = "called" /\ c.passed = {}
                               /\ Tells(c) /\ c.row # "RUNNING"
<1>1. Starts(graph) \subseteq Steps /\ IsFiniteSet(Starts(graph))
  BY StartsAreSteps, StepsAssumption, FS_Subset DEF TypeOK
<1>2. IsFiniteSet(Started)
  <2> DEFINE f == [s \in Starts(graph) |-> Item(s, "trigger", EmptyCtx, s, 0)]
  <2>1. IsFiniteSet({f[s] : s \in Starts(graph)})
    BY <1>1, ImageFinite
  <2> QED BY <2>1 DEF Started
<1>3. EmptyCtx \in Contexts
  BY DEF EmptyCtx, Contexts
<1>4. ASSUME NEW c \in Started
      PROVE  /\ c \in Items(graph) /\ c.pc = "called" /\ c.passed = {}
             /\ Tells(c) /\ c.row # "RUNNING"
  <2>1. PICK s \in Starts(graph) : c = Item(s, "trigger", EmptyCtx, s, 0)
    BY DEF Started
  <2> QED BY <1>1, <1>3, <2>1, ItemTyped
<1> QED BY <1>2, <1>4

LEMMA LaunchDoes ==
  ASSUME TypeOK, Launch
  PROVE  /\ engine = "reading" /\ engine' = "graph"
         /\ pending' = [s \in Steps |-> Cardinality(Joins(graph, s))]
         /\ pending' \in [Steps -> Nat]
         /\ inv' = SetToSeq(Started)
         /\ inv' \in Seq(Items(graph)) /\ inFlight' = Len(inv')
         /\ Len(inv') \in Nat /\ Calls' = 1..Len(inv')
         /\ \A i \in Calls' : inv'[i] \in Started
         /\ UNCHANGED <<graph, arrived, settled, stale, run, flow, faults>>
<1>1. /\ engine = "reading" /\ engine' = "graph"
      /\ pending' = [s \in Steps |-> Cardinality(Joins(graph, s))]
      /\ inv' = SetToSeq(Started) /\ inFlight' = Len(SetToSeq(Started))
      /\ UNCHANGED <<graph, arrived, settled, stale, run, flow, faults>>
  BY DEF Launch, Started
<1>2. /\ inv' \in [1..Cardinality(Started) -> Started] /\ inv' \in Seq(Started)
      /\ Len(inv') = Cardinality(Started) /\ Cardinality(Started) \in Nat
  BY <1>1, StartedTyped, SetToSeqIsSeq
<1>3. inv' \in Seq(Items(graph))
  BY <1>2, StartedTyped, SeqMonotonic
<1>4. Calls' = 1..Len(inv')
  BY <1>2 DEF Calls
<1>5. \A s \in Steps : Cardinality(Joins(graph, s)) \in Nat
  <2> TAKE s \in Steps
  <2>1. Joins(graph, s) \subseteq graph.edge /\ graph \in Graphs
    BY DEF Joins, TypeOK
  <2>2. IsFiniteSet(Joins(graph, s))
    BY <2>1, EdgesFinite, FS_Subset
  <2> QED BY <2>2, FS_CardinalityType
<1> QED BY <1>1, <1>2, <1>3, <1>4, <1>5

-----------------------------------------------------------------------------
(* The types *)

LEMMA TypeInit == Init => TypeOK
<1> SUFFICES ASSUME Init PROVE TypeOK
  OBVIOUS
<1>1. inv = <<>> /\ Calls = {}
  BY DEF Init, Calls
<1>2. inv \in Seq(Items(graph))
  BY <1>1, EmptySeq
<1>3. \A S : <<>> \in Seq(S)
  BY EmptySeq
<1>4. arrived \in [Steps -> Seq(Contexts)]
  BY <1>3 DEF Init
<1>5. faults \in 0..MaxFaults
  BY FaultsAssumption DEF Init
<1>6. flow \in [Starts(graph) -> {"RUNNING", "COMPLETED", "STOPPED"}] /\ pending \in [Steps -> Int]
  BY DEF Init
<1>7. stale \subseteq Calls /\ inFlight \in Int
  BY DEF Init
<1> QED BY <1>2, <1>4, <1>5, <1>6, <1>7 DEF Init, TypeOK

\* A call that is closed keeps its place and everything but its row.
LEMMA CloseStaleDoes ==
  ASSUME TypeOK, NEW i \in stale, CloseStale(i)
  PROVE  \E call \in Items(graph) :
           /\ inv' = [inv EXCEPT ![i] = call]
           /\ Same(inv[i], call) /\ call.pc = inv[i].pc /\ call.task = inv[i].task
           /\ call.failed = inv[i].failed
           /\ call.row # "RUNNING" /\ (call.task \in Ended => call.row = call.task)
<1> DEFINE row == IF inv[i].task \in {"COMPLETED", "FAILED"} THEN inv[i].task
                  ELSE IF engine = "closing" THEN "COMPLETED" ELSE "FAILED"
           c1 == [inv[i] EXCEPT !.row = row]
<1>1. i \in Calls /\ inv[i] \in Items(graph)
  BY CallTyped DEF TypeOK
<1>2. inv' = [inv EXCEPT ![i] = c1]
  BY DEF CloseStale, Update
<1>3. row \in {"COMPLETED", "FAILED"} /\ (inv[i].task \in Ended => row = inv[i].task)
  BY DEF Ended
<1> HIDE DEF row
<1>4. c1 \in Items(graph) /\ Same(inv[i], c1)
  BY <1>1, <1>3 DEF Items, RowStates, Same
<1>5. c1.pc = inv[i].pc /\ c1.row = row /\ c1.task = inv[i].task /\ c1.failed = inv[i].failed
  BY <1>1 DEF Items
<1> QED BY <1>2, <1>3, <1>4, <1>5

\* A step or a closing keeps the calls, but for the one it changes.
LEMMA CallsKept ==
  ASSUME TypeOK, NEW i \in Calls, NEW call \in Items(graph), inv' = [inv EXCEPT ![i] = call]
  PROVE  /\ inv' \in Seq(Items(graph)) /\ Calls' = Calls /\ Len(inv') = Len(inv)
         /\ \A j \in Calls : inv'[j] = IF j = i THEN call ELSE inv[j]
<1>1. inv \in Seq(Items(graph)) /\ Calls = 1..Len(inv)
  BY LenProperties DEF TypeOK, Calls
<1>2. /\ inv' \in Seq(Items(graph)) /\ Len(inv') = Len(inv)
      /\ \A j \in 1..Len(inv) : inv'[j] = IF j = i THEN call ELSE inv[j]
  BY <1>1, ExceptSeq
<1>3. Calls' = 1..Len(inv')
  BY <1>2, LenProperties DEF Calls
<1> QED BY <1>1, <1>2, <1>3

\* A step of executeRunBody: the engine, the rows it closes, the run, the flows.
LEMMA EngineTyped ==
  ASSUME TypeOK, Counted, EngineStep \/ EngineThrows
  PROVE  TypeOK'
<1>1. CASE Launch
  <2>1. Calls = {} /\ stale = {}
    BY <1>1 DEF Launch, Counted, Calls, TypeOK
  <2>2. /\ engine' = "graph" /\ pending' \in [Steps -> Int]
        /\ inv' \in Seq(Items(graph)) /\ inFlight' \in Int
        /\ UNCHANGED <<graph, arrived, settled, stale, run, flow, faults>>
    BY <1>1, LaunchDoes
  <2> QED BY <2>1, <2>2 DEF TypeOK
<1>2. CASE Settle
  BY <1>2 DEF Settle, Engine, TypeOK, Calls
<1>3. CASE FindStale
  BY <1>3 DEF FindStale, Engine, TypeOK, Calls
<1>4. CASE CloseRun
  BY <1>4 DEF CloseRun, Engine, TypeOK, Calls
<1>5. CASE CloseFlows
  <2>1. flow' \in [Starts(graph) -> {"RUNNING", "COMPLETED", "STOPPED"}]
    BY <1>5 DEF CloseFlows, TypeOK
  <2> QED BY <1>5, <2>1 DEF CloseFlows, Engine, TypeOK, Calls
<1>6. CASE Touch
  BY <1>6 DEF Touch, Engine, TypeOK, Calls
<1>7. ASSUME NEW i \in stale, CloseStale(i)
      PROVE  TypeOK'
  <2>1. i \in Calls
    BY DEF TypeOK
  <2>2. inv' \in Seq(Items(graph)) /\ Calls' = Calls
    BY <1>7, <2>1, CloseStaleDoes, CallsKept
  <2>3. stale' \subseteq Calls
    BY <1>7 DEF CloseStale, TypeOK
  <2> QED BY <1>7, <2>2, <2>3 DEF CloseStale, Engine, TypeOK
<1>8. CASE EngineThrows
  <2>1. faults' \in 0..MaxFaults
    BY <1>8, FaultsAssumption DEF EngineThrows, TypeOK
  <2> QED BY <1>8, <2>1 DEF EngineThrows, TypeOK, Calls
<1> QED BY <1>1, <1>2, <1>3, <1>4, <1>5, <1>6, <1>7, <1>8 DEF EngineStep

LEMMA TypeStep == TypeOK /\ Counted /\ [Next]_vars => TypeOK'
<1> SUFFICES ASSUME TypeOK, Counted, [Next]_vars PROVE TypeOK'
  OBVIOUS
<1>1. ASSUME NEW i \in Calls, RunStep(i) \/ StepThrows(i)
      PROVE  TypeOK'
  <2>1. PICK call : Moves(i, call)
    BY <1>1, StepDoes
  <2>2. inv' \in Seq(Items(graph)) /\ Calls' = Calls
    BY <2>1, CallsKept DEF Moves
  <2>3. /\ InStep /\ flow' \in [Starts(graph) -> {"RUNNING", "COMPLETED", "STOPPED"}]
        /\ faults' \in 0..MaxFaults
    BY <1>1, StepDoes
  <2> QED BY <2>2, <2>3 DEF InStep, TypeOK
<1>2. ASSUME NEW i \in Calls, Return(i)
      PROVE  TypeOK'
  <2>1. /\ inv' \in Seq(Items(graph)) /\ Calls \subseteq Calls' /\ Len(Children(i)) \in Nat
    BY <1>2, ReturnDoes
  <2>2. /\ pending' = Left(i)
        /\ arrived' = [s \in Steps |-> IF s \in Ready(i) THEN <<>> ELSE Ctxs(i)[s]]
        /\ inFlight' = inFlight + Len(Children(i)) - 1
        /\ settled' = (settled \/ inFlight' = 0)
        /\ UNCHANGED <<graph, engine, stale, run, flow, faults>>
    BY <1>2, ReturnParts
  <2>3. Left(i) \in [Steps -> Int]
    BY DEF TypeOK, Left
  <2>4. [s \in Steps |-> IF s \in Ready(i) THEN <<>> ELSE Ctxs(i)[s]] \in [Steps -> Seq(Contexts)]
    BY CtxsTyped, EmptySeq
  <2>5. inFlight' \in Int /\ settled' \in BOOLEAN
    BY <2>1, <2>2 DEF TypeOK
  <2>6. stale' \subseteq Calls'
    BY <2>1, <2>2 DEF TypeOK
  <2> HIDE DEF Left
  <2> QED BY <2>1, <2>2, <2>3, <2>4, <2>5, <2>6 DEF TypeOK
<1>3. CASE EngineStep \/ EngineThrows
  BY <1>3, EngineTyped
<1>4. CASE UNCHANGED vars
  BY <1>4 DEF vars, TypeOK, Calls
<1> QED BY <1>1, <1>2, <1>3, <1>4 DEF Next

-----------------------------------------------------------------------------
(* The counter of the scheduler *)

LEMMA ActiveFinite ==
  ASSUME TypeOK
  PROVE  /\ Calls = 1..Len(inv) /\ Len(inv) \in Nat /\ IsFiniteSet(Calls)
         /\ IsFiniteSet(Active) /\ Cardinality(Active) \in Nat /\ Active \subseteq Calls
<1>1. Calls = 1..Len(inv) /\ Len(inv) \in Nat
  BY LenProperties DEF TypeOK, Calls
<1>2. IsFiniteSet(Calls)
  BY <1>1, FS_Interval
<1>3. Active \subseteq Calls
  BY DEF Active
<1>4. IsFiniteSet(Active)
  BY <1>2, <1>3, FS_Subset
<1> QED BY <1>1, <1>2, <1>3, <1>4, FS_CardinalityType

\* Unless a call starts or returns, the same calls are under way.
LEMMA ActiveKept ==
  ASSUME TypeOK, NEW i \in Calls, NEW call \in Items(graph), inv' = [inv EXCEPT ![i] = call],
         (inv[i].pc = "done") <=> (call.pc = "done")
  PROVE  Active' = Active
<1>1. Calls' = Calls /\ \A j \in Calls : inv'[j] = IF j = i THEN call ELSE inv[j]
  BY CallsKept
<1> QED BY <1>1 DEF Active

\* A return takes one call out of those under way and adds its children.
LEMMA ActiveReturn ==
  ASSUME TypeOK, NEW i \in Calls, Return(i)
  PROVE  /\ i \in Active /\ IsFiniteSet(Active')
         /\ Cardinality(Active') = Cardinality(Active) - 1 + Len(Children(i))
<1> DEFINE n == Len(Children(i))
           new == (Len(inv) + 1) .. (Len(inv) + n)
<1>1. i \in Active
  BY ReturnParts DEF Active
<1>2. /\ n \in Nat /\ Calls' = Calls \cup new /\ Finished(i).pc = "done"
      /\ \A j \in Calls : inv'[j] = IF j = i THEN Finished(i) ELSE inv[j]
      /\ \A j \in new : inv'[j] \in ByBack(i) \cup ByJoin(i)
  BY ReturnDoes
<1>3. \A j \in new : inv'[j].pc = "called"
  BY <1>2, ChildrenTyped
<1>4. Calls = 1..Len(inv) /\ Len(inv) \in Nat /\ IsFiniteSet(Active)
      /\ Cardinality(Active) \in Nat /\ Active \subseteq Calls
  BY ActiveFinite
<1>5. Active' = (Active \ {i}) \cup new
  BY <1>2, <1>3 DEF Active
<1>6. IsFiniteSet(new) /\ Cardinality(new) = n
  BY <1>2, <1>4, Interval
<1>7. IsFiniteSet(Active \ {i}) /\ Cardinality(Active \ {i}) = Cardinality(Active) - 1
  BY <1>1, <1>4, FS_RemoveElement
<1>8. (Active \ {i}) \cap new = {}
  BY <1>4, <1>2
<1>9. /\ IsFiniteSet((Active \ {i}) \cup new)
      /\ Cardinality((Active \ {i}) \cup new) = Cardinality(Active \ {i}) + Cardinality(new)
  <2> HIDE DEF new
  <2> QED BY <1>6, <1>7, <1>8, DisjointUnion
<1>10. Cardinality(Active') = Cardinality(Active) - 1 + n
  BY <1>5, <1>6, <1>7, <1>9, <1>4, <1>2
<1> QED BY <1>1, <1>5, <1>9, <1>10 DEF n

LEMMA CountedInit == Init => Counted
<1> SUFFICES ASSUME Init PROVE Counted
  OBVIOUS
<1>1. Active = {}
  BY DEF Init, Active, Calls
<1> QED BY <1>1, FS_EmptySet DEF Init, Counted

LEMMA CountedStep == TypeOK /\ Counted /\ [Next]_vars => Counted'
<1> SUFFICES ASSUME TypeOK, Counted, [Next]_vars PROVE Counted'
  OBVIOUS
<1>1. ASSUME NEW i \in Calls, RunStep(i) \/ StepThrows(i)
      PROVE  Counted'
  <2>1. PICK call : Moves(i, call)
    BY <1>1, StepDoes
  <2>2. InStep
    BY <1>1, StepDoes
  <2>3. Active' = Active
    BY <2>1, ActiveKept DEF Moves
  <2>4. i \in Active
    BY <2>1 DEF Moves, Active
  <2> QED BY <2>2, <2>3, <2>4 DEF InStep, Counted, Calls
<1>2. ASSUME NEW i \in Calls, Return(i)
      PROVE  Counted'
  <2>1. /\ i \in Active /\ IsFiniteSet(Active')
        /\ Cardinality(Active') = Cardinality(Active) - 1 + Len(Children(i))
    BY <1>2, ActiveReturn
  <2>2. /\ inFlight' = inFlight + Len(Children(i)) - 1
        /\ settled' = (settled \/ inFlight' = 0) /\ engine' = engine
    BY <1>2, ReturnParts
  <2>3. Cardinality(Active) \in Nat /\ Len(Children(i)) \in Nat
    BY <1>2, ActiveFinite, ReturnDoes
  <2>4. inFlight' = Cardinality(Active')
    BY <2>1, <2>2, <2>3 DEF Counted
  <2>5. ~settled /\ engine = "graph"
    BY <2>1 DEF Counted, Active, Calls, TypeOK
  <2>6. settled' => Active' = {}
    BY <2>1, <2>2, <2>4, <2>5, FS_EmptySet
  <2> QED BY <2>2, <2>4, <2>5, <2>6 DEF Counted
<1>3. CASE Launch
  <2>1. /\ engine' = "graph" /\ settled' = settled /\ inFlight' = Len(inv') /\ Len(inv') \in Nat
        /\ Calls' = 1..Len(inv') /\ \A i \in Calls' : inv'[i] \in Started
    BY <1>3, LaunchDoes
  <2>2. Active' = 1..Len(inv')
    BY <2>1, StartedTyped DEF Active
  <2>3. Cardinality(1..Len(inv')) = Len(inv')
    BY <2>1, Interval
  <2>4. ~settled
    BY <1>3 DEF Counted, Launch
  <2> QED BY <2>1, <2>2, <2>3, <2>4 DEF Counted
<1>4. CASE Settle \/ FindStale \/ CloseRun \/ CloseFlows \/ Touch
  <2>1. UNCHANGED <<inv, inFlight, settled>>
    BY <1>4 DEF Settle, FindStale, CloseRun, CloseFlows, Touch, Engine
  <2>2. Active' = Active
    BY <2>1 DEF Active, Calls
  <2>3. engine' \notin {"reading", "graph"} /\ (engine \notin {"reading", "graph"} \/ settled)
    BY <1>4 DEF Settle, FindStale, CloseRun, CloseFlows, Touch
  <2> QED BY <2>1, <2>2, <2>3 DEF Counted
<1>5. ASSUME NEW i \in stale, CloseStale(i)
      PROVE  Counted'
  <2>1. i \in Calls
    BY DEF TypeOK
  <2>2. PICK call \in Items(graph) : inv' = [inv EXCEPT ![i] = call] /\ call.pc = inv[i].pc
    BY <1>5, CloseStaleDoes
  <2>3. Active' = Active
    BY <2>1, <2>2, ActiveKept
  <2>4. UNCHANGED <<engine, settled, inFlight>> /\ engine # "reading"
    BY <1>5 DEF CloseStale, Engine
  <2> QED BY <2>3, <2>4 DEF Counted
<1>6. CASE EngineThrows
  <2>1. UNCHANGED <<inv, inFlight, settled>>
    BY <1>6 DEF EngineThrows
  <2>2. Active' = Active
    BY <2>1 DEF Active, Calls
  <2>3. engine' \notin {"reading", "graph"} /\ engine # "graph"
    BY <1>6 DEF EngineThrows
  <2>4. engine = "reading" => Active = {}
    BY DEF Counted, Active, Calls
  <2> QED BY <2>1, <2>2, <2>3, <2>4 DEF Counted
<1>7. CASE UNCHANGED vars
  BY <1>7 DEF vars, Counted, Active, Calls
<1> QED BY <1>1, <1>2, <1>3, <1>4, <1>5, <1>6, <1>7 DEF Next, EngineStep

-----------------------------------------------------------------------------
(* The rows *)

LEMMA ToldInit == Init => Told
BY DEF Init, Told, Calls

LEMMA ToldStep == TypeOK /\ Counted /\ Told /\ [Next]_vars => Told'
<1> SUFFICES ASSUME TypeOK, Counted, Told, [Next]_vars PROVE Told'
  OBVIOUS
<1>1. ASSUME NEW i \in Calls, RunStep(i) \/ StepThrows(i)
      PROVE  Told'
  <2>1. PICK call : Moves(i, call)
    BY <1>1, StepDoes
  <2>2. UNCHANGED <<engine, run, stale>>
    BY <1>1, StepDoes DEF InStep
  <2>3. Calls' = Calls /\ \A j \in Calls : inv'[j] = IF j = i THEN call ELSE inv[j]
    BY <2>1, CallsKept DEF Moves
  <2>4. engine = "graph"
    BY <2>1 DEF Counted, Active, Moves, Calls
  <2>5. run = "RUNNING"
    BY <2>4 DEF Told
  <2>6. \A j \in Calls : Tells(inv'[j])
    BY <2>1, <2>3 DEF Told, Moves
  <2> QED BY <2>2, <2>3, <2>4, <2>5, <2>6 DEF Told
<1>2. ASSUME NEW i \in Calls, Return(i)
      PROVE  Told'
  <2> DEFINE new == (Len(inv) + 1) .. (Len(inv) + Len(Children(i)))
  <2>1. UNCHANGED <<engine, run, stale>>
    BY <1>2, ReturnParts
  <2>2. engine = "graph"
    <3>1. i \in Active
      BY <1>2, ActiveReturn
    <3>2. engine # "reading"
      BY DEF Counted, Calls
    <3> QED BY <3>1, <3>2 DEF Counted
  <2>3. run = "RUNNING"
    BY <2>2 DEF Told
  <2>4. /\ Calls' = Calls \cup new
        /\ Finished(i).pc = "done" /\ Finished(i).row = inv[i].row /\ Finished(i).task = inv[i].task
        /\ \A j \in Calls : inv'[j] = IF j = i THEN Finished(i) ELSE inv[j]
        /\ \A j \in new : inv'[j] \in ByBack(i) \cup ByJoin(i)
    BY <1>2, ReturnDoes
  <2>5. Tells(inv[i])
    BY DEF Told
  <2>6. Tells(Finished(i))
    BY <2>4, <2>5 DEF Tells
  <2>7. \A j \in Calls : Tells(inv'[j])
    BY <2>4, <2>6 DEF Told
  <2>8. \A j \in new : Tells(inv'[j])
    BY <2>4, ChildrenTyped
  <2>9. \A j \in Calls' : Tells(inv'[j])
    BY <2>4, <2>7, <2>8
  <2> QED BY <2>1, <2>2, <2>3, <2>9 DEF Told
<1>3. CASE Launch
  <2>1. /\ engine = "reading" /\ engine' = "graph" /\ \A i \in Calls' : inv'[i] \in Started
        /\ UNCHANGED <<stale, run>>
    BY <1>3, LaunchDoes
  <2>2. \A i \in Calls' : Tells(inv'[i])
    BY <2>1, StartedTyped
  <2>3. run = "RUNNING"
    BY <2>1 DEF Told
  <2> QED BY <2>1, <2>2, <2>3 DEF Told
<1>4. CASE Settle \/ FindStale \/ Touch \/ CloseFlows
  <2>1. UNCHANGED <<inv, run>>
    BY <1>4 DEF Settle, FindStale, Touch, CloseFlows, Engine
  <2>2. engine' \notin {"reading", "graph"}
    BY <1>4 DEF Settle, FindStale, Touch, CloseFlows
  <2>3. Calls' = Calls
    BY <2>1 DEF Calls
  <2>4. engine' \in {"closing", "undoing"} => \A i \in Calls : inv[i].row = "RUNNING" => i \in stale'
    BY <1>4 DEF Settle, FindStale, Touch, CloseFlows
  <2>5. engine' \in {"flows", "touching", "end"} => run # "RUNNING"
    BY <1>4 DEF Settle, FindStale, Touch, CloseFlows, Told
  <2> QED BY <2>1, <2>2, <2>3, <2>4, <2>5 DEF Told
<1>5. CASE CloseRun
  <2>1. UNCHANGED <<inv, stale>> /\ Calls' = Calls
    BY <1>5 DEF CloseRun, Engine, Calls
  <2>2. /\ engine \in {"closing", "undoing"} /\ stale = {} /\ engine' \in {"flows", "end"}
        /\ run' # "RUNNING"
    BY <1>5 DEF CloseRun
  <2>3. \A i \in Calls : inv[i].row # "RUNNING"
    BY <2>2 DEF Told
  <2> QED BY <2>1, <2>2, <2>3 DEF Told
<1>6. ASSUME NEW i \in stale, CloseStale(i)
      PROVE  Told'
  <2>1. i \in Calls
    BY DEF TypeOK
  <2>2. PICK call \in Items(graph) :
          /\ inv' = [inv EXCEPT ![i] = call]
          /\ call.pc = inv[i].pc /\ call.task = inv[i].task /\ call.failed = inv[i].failed
          /\ call.row # "RUNNING" /\ (call.task \in Ended => call.row = call.task)
    BY <1>6, CloseStaleDoes
  <2>3. Calls' = Calls /\ \A j \in Calls : inv'[j] = IF j = i THEN call ELSE inv[j]
    BY <2>1, <2>2, CallsKept
  <2>4. UNCHANGED <<engine, run>> /\ engine \in {"closing", "undoing"} /\ stale' = stale \ {i}
    BY <1>6 DEF CloseStale, Engine
  <2>5. inv[i].pc = "done"
    BY <2>1, <2>4 DEF Counted, Active
  <2>6. Tells(call)
    BY <2>2, <2>5 DEF Tells
  <2>7. \A j \in Calls : Tells(inv'[j])
    BY <2>3, <2>6 DEF Told
  <2>8. \A j \in Calls : inv'[j].row = "RUNNING" => inv[j].row = "RUNNING" /\ j # i
    BY <2>2, <2>3
  <2> QED BY <2>3, <2>4, <2>7, <2>8 DEF Told
<1>7. CASE EngineThrows
  <2>1. UNCHANGED <<inv, run>> /\ Calls' = Calls
    BY <1>7 DEF EngineThrows, Calls
  <2>2. engine' \in {"caught", "dead"}
    BY <1>7 DEF EngineThrows
  <2> QED BY <2>1, <2>2 DEF Told
<1>8. CASE UNCHANGED vars
  BY <1>8 DEF vars, Told, Calls
<1> QED BY <1>1, <1>2, <1>3, <1>4, <1>5, <1>6, <1>7, <1>8 DEF Next, EngineStep

-----------------------------------------------------------------------------
(* Theorems *)

LEMMA InvariantStep == IInv /\ [Next]_vars => IInv'
BY TypeStep, CountedStep, ToldStep DEF IInv

\* The inductive invariant: types, the count of the calls under way, and what
\* rows and tasks tell.
THEOREM InvariantHolds == Spec => []IInv
<1>1. Init => IInv
  BY TypeInit, CountedInit, ToldInit DEF IInv
<1> QED BY <1>1, InvariantStep, PTL DEF Spec

\* Whatever steps, returns and failures follow one another, the variables keep
\* their types.
THEOREM TypeCorrect == Spec => []TypeOK
BY InvariantHolds, PTL DEF IInv

\* executeRunBody goes on only when every step that was started has returned,
\* for every workflow: the counter inFlight counts the calls under way, and a
\* return counts its children in before it looks at it.
THEOREM ClosedOverNobody == Spec => []SettledIsOver
<1>1. IInv => SettledIsOver
  BY DEF IInv, Counted, SettledIsOver, Active
<1> QED BY <1>1, InvariantHolds, PTL

\* Once the run has ended, no row is left RUNNING and every row says what became
\* of the task that was waited for, however the writes of the steps failed.
THEOREM RowsAlwaysTell == Spec => []RowsTellTasks
<1>1. ASSUME IInv PROVE RowsTellTasks
  <2>1. \A i \in Calls : inv[i].task \in Ended => inv[i].row \in {"RUNNING", inv[i].task}
    BY <1>1 DEF IInv, Told, Tells
  <2> QED BY <1>1, <2>1 DEF IInv, Told, RowsTellTasks, Ended
<1> QED BY <1>1, InvariantHolds, PTL

-----------------------------------------------------------------------------
(* The net: what the calls so far have passed and what they are owed *)

Did(e)     == {i \in Calls : inv[i].pc = "done" /\ e \in inv[i].passed}
Of(s, via) == {i \in Calls : inv[i].step = s /\ inv[i].via = via}
Busy(s)    == {i \in Calls : inv[i].step = s /\ inv[i].pc \notin {"called", "done"}}
Seen(s)    == {e \in Joins(graph, s) : Did(e) # {}}

BackTo(s)  == {e \in LoopBack[graph] : e.to = s}
Backing(s) == UNION {{e} \X (1..Cardinality(Did(e))) : e \in BackTo(s)}

OwedTrigger(s) == IF s \in Starts(graph) THEN 1 ELSE 0
OwedJoin(s)    == IF Joins(graph, s) = {} THEN 0
                  ELSE Min({Cardinality(Did(e)) : e \in Joins(graph, s)})
OwedBack(s)    == Cardinality(Backing(s))

\* A call passes edges of its own step.
PassedOwn == \A i \in Calls : \A e \in inv[i].passed : e.from = inv[i].step

\* Each step has been called as often as the net owes it.
Owed ==
  engine = "graph" \/ settled =>
    \A s \in Steps : /\ Cardinality(Of(s, "trigger")) = OwedTrigger(s)
                     /\ Cardinality(Of(s, "join")) = OwedJoin(s)
                     /\ Cardinality(Of(s, "back")) = OwedBack(s)

\* What pendingParents says: of several edges, how many were never passed.
Awaited ==
  engine = "graph" \/ settled =>
    \A s \in Steps : IF Cardinality(Joins(graph, s)) = 1 THEN pending[s] <= 1
                     ELSE pending[s] = Cardinality(Joins(graph, s)) - Cardinality(Seen(s))

\* The steps of a part that is entered once are called once.
Once ==
  \A K \in SUBSET Steps : OnceThrough(graph, K) =>
    \A i, j \in Calls : inv[i].step \in K /\ inv[i].step = inv[j].step => i = j

OwedInv == PassedOwn /\ Owed /\ Awaited /\ Once

\* A step that ends passes each edge once, and no two of them to one target.
LEMMA OutsApart ==
  ASSUME TypeOK, NEW i \in Calls, NEW e \in Outs(i), NEW f \in Outs(i), e.to = f.to
  PROVE  e = f
<1> DEFINE g == graph
           s == inv[i].step
<1>1. g \in Graphs /\ s \in Steps
  BY CallTyped, FieldsOf DEF TypeOK
<1>2. e \in EdgeOf /\ f \in EdgeOf /\ e \in g.edge /\ f \in g.edge /\ e.from = s /\ f.from = s
  BY <1>1, OutsTyped, EdgesFinite
<1>3. CASE g.kind[s] \in {"CONDITION", "LOOP"}
  <2>1. e.handle = f.handle
    BY <1>3 DEF Outs, FilterOut
  <2> QED BY <1>2, <2>1 DEF EdgeOf
<1>4. CASE g.kind[s] \notin {"CONDITION", "LOOP"}
  <2>1. e = f \/ g.kind[e.from] \in {"CONDITION", "LOOP"}
    BY <1>1, <1>2, GraphsAssumption
  <2> QED BY <1>2, <1>4, <2>1
<1> QED BY <1>3, <1>4

LEMMA SetsFinite ==
  ASSUME TypeOK
  PROVE  /\ \A e : IsFiniteSet(Did(e)) /\ Cardinality(Did(e)) \in Nat /\ Did(e) \subseteq Calls
         /\ \A s, via : IsFiniteSet(Of(s, via)) /\ Cardinality(Of(s, via)) \in Nat
         /\ \A s : IsFiniteSet(Busy(s)) /\ Cardinality(Busy(s)) \in Nat
         /\ \A s : /\ IsFiniteSet(Joins(graph, s)) /\ Cardinality(Joins(graph, s)) \in Nat
                   /\ Seen(s) \subseteq Joins(graph, s)
                   /\ IsFiniteSet(Seen(s)) /\ Cardinality(Seen(s)) \in Nat
         /\ \A s : IsFiniteSet(Backing(s)) /\ Cardinality(Backing(s)) \in Nat
<1>1. IsFiniteSet(Calls)
  BY ActiveFinite
<1>2. ASSUME NEW e
      PROVE  IsFiniteSet(Did(e)) /\ Cardinality(Did(e)) \in Nat /\ Did(e) \subseteq Calls
  BY <1>1, FS_Subset, FS_CardinalityType DEF Did
<1>3. ASSUME NEW s, NEW via
      PROVE  IsFiniteSet(Of(s, via)) /\ Cardinality(Of(s, via)) \in Nat
  BY <1>1, FS_Subset, FS_CardinalityType DEF Of
<1>4. ASSUME NEW s
      PROVE  IsFiniteSet(Busy(s)) /\ Cardinality(Busy(s)) \in Nat
  BY <1>1, FS_Subset, FS_CardinalityType DEF Busy
<1>5. graph \in Graphs /\ IsFiniteSet(graph.edge)
  BY EdgesFinite DEF TypeOK
<1>6. ASSUME NEW s
      PROVE  /\ IsFiniteSet(Joins(graph, s)) /\ Cardinality(Joins(graph, s)) \in Nat
             /\ Seen(s) \subseteq Joins(graph, s)
             /\ IsFiniteSet(Seen(s)) /\ Cardinality(Seen(s)) \in Nat
  <2>1. Joins(graph, s) \subseteq graph.edge /\ Seen(s) \subseteq Joins(graph, s)
    BY DEF Joins, Seen
  <2> QED BY <1>5, <2>1, FS_Subset, FS_CardinalityType
<1>7. ASSUME NEW s
      PROVE  IsFiniteSet(Backing(s)) /\ Cardinality(Backing(s)) \in Nat
  <2> DEFINE f == [e \in BackTo(s) |-> {e} \X (1..Cardinality(Did(e)))]
             T == {f[e] : e \in BackTo(s)}
  <2>1. BackTo(s) \subseteq graph.edge
    BY <1>5 DEF BackTo, LoopBack, LoopBackOf
  <2>2. IsFiniteSet(BackTo(s))
    BY <2>1, <1>5, FS_Subset
  <2>3. IsFiniteSet(T)
    BY <2>2, ImageFinite
  <2>4. ASSUME NEW e PROVE IsFiniteSet({e} \X (1..Cardinality(Did(e))))
    BY <1>2, Interval, FS_Singleton, FS_Product
  <2>5. \A S \in T : IsFiniteSet(S)
    BY <2>4
  <2>6. IsFiniteSet(UNION T)
    BY <2>3, <2>5, FS_UNION
  <2>7. Backing(s) = UNION T
    BY DEF Backing
  <2> QED BY <2>6, <2>7, FS_CardinalityType
<1> QED BY <1>2, <1>3, <1>4, <1>6, <1>7

\* Whatever changes neither which calls there are nor which are done leaves
\* what they have passed and what they are owed.
LEMMA Quiet ==
  ASSUME OwedInv, UNCHANGED <<graph, pending, settled>>, Calls' = Calls,
         \A j \in Calls : /\ inv'[j].step = inv[j].step /\ inv'[j].via = inv[j].via
                          /\ inv'[j].passed = inv[j].passed,
         \A j \in Calls : inv'[j].pc = "done" => inv[j].pc = "done",
         \A j \in Calls : inv[j].pc = "done" => inv'[j].pc = "done",
         engine' = "graph" => engine = "graph"
  PROVE  OwedInv'
<1>1. ASSUME NEW e PROVE Did(e)' = Did(e)
  BY DEF Did
<1>2. ASSUME NEW s, NEW via PROVE Of(s, via)' = Of(s, via)
  BY DEF Of
<1>3. \A s : Seen(s)' = Seen(s)
  BY <1>1 DEF Seen
<1>4. \A s : BackTo(s)' = BackTo(s)
  BY DEF BackTo
<1>5. \A s : Backing(s)' = Backing(s)
  BY <1>1, <1>4 DEF Backing
<1>6. \A s : OwedTrigger(s)' = OwedTrigger(s) /\ OwedBack(s)' = OwedBack(s)
  BY <1>5 DEF OwedTrigger, OwedBack
<1>7. \A s : OwedJoin(s)' = OwedJoin(s)
  BY <1>1 DEF OwedJoin
<1>8. engine' = "graph" \/ settled' => engine = "graph" \/ settled
  OBVIOUS
<1>9. Owed'
  BY <1>2, <1>6, <1>7, <1>8 DEF OwedInv, Owed
<1>10. Awaited'
  BY <1>3, <1>8 DEF OwedInv, Awaited
<1>11. PassedOwn'
  BY DEF OwedInv, PassedOwn
<1>12. Once'
  BY DEF OwedInv, Once
<1> QED BY <1>9, <1>10, <1>11, <1>12 DEF OwedInv

LEMMA OwedInit == Init => OwedInv
BY DEF Init, OwedInv, PassedOwn, Owed, Awaited, Once, Calls

LEMMA OwedLaunch ==
  ASSUME TypeOK, Counted, OwedInv, Launch
  PROVE  OwedInv'
<1>1. /\ engine' = "graph" /\ UNCHANGED <<graph, settled>>
      /\ pending' = [s \in Steps |-> Cardinality(Joins(graph, s))]
      /\ inv' = SetToSeq(Started) /\ Len(inv') \in Nat /\ Calls' = 1..Len(inv')
      /\ \A i \in Calls' : inv'[i] \in Started
  BY LaunchDoes
<1>3. \A c \in Started : c.pc = "called" /\ c.passed = {} /\ c.via = "trigger" /\ c.step \in Starts(graph)
  BY StartedTyped DEF Started, Item
<1>4. \A c, d \in Started : c.step = d.step => c = d
  <2> TAKE c, d \in Started
  <2>1. PICK s \in Starts(graph) : c = Item(s, "trigger", EmptyCtx, s, 0)
    BY DEF Started
  <2>2. PICK t \in Starts(graph) : d = Item(t, "trigger", EmptyCtx, t, 0)
    BY DEF Started
  <2>3. c.step = s /\ d.step = t
    BY <2>1, <2>2 DEF Item
  <2> QED BY <2>1, <2>2, <2>3
<1>5. /\ IsInjective(inv') /\ inv' \in [1..Cardinality(Started) -> Started]
      /\ Len(inv') = Cardinality(Started)
      /\ \A c \in Started : \E k \in 1..Cardinality(Started) : inv'[k] = c
  BY <1>1, StartedTyped, SetToSeqIsSeq
<1>6. ASSUME NEW i \in Calls', NEW j \in Calls', inv'[i].step = inv'[j].step
      PROVE  i = j
  <2>1. inv'[i] = inv'[j]
    BY <1>1, <1>4, <1>6
  <2>2. i \in 1..Cardinality(Started) /\ j \in 1..Cardinality(Started)
    BY <1>1, <1>5
  <2> QED BY <1>5, <2>1, <2>2 DEF IsInjective
<1>7. \A e : Did(e)' = {}
  BY <1>1, <1>3 DEF Did
<1>8. ASSUME NEW s \in Steps
      PROVE  /\ Seen(s)' = {} /\ OwedBack(s)' = 0 /\ OwedJoin(s)' = 0
  <2>1. \A e : Cardinality(Did(e)') = 0
    BY <1>7, FS_EmptySet
  <2>2. Seen(s)' = {}
    BY <1>7 DEF Seen
  <2>3. Backing(s)' = {}
    BY <2>1 DEF Backing
  <2>4. OwedBack(s)' = 0
    BY <2>3, FS_EmptySet DEF OwedBack
  <2>5. ASSUME Joins(graph, s)' # {}
        PROVE  OwedJoin(s)' = 0
    <3>1. {Cardinality(Did(e)') : e \in Joins(graph, s)'} = {0}
      BY <2>1, <2>5
    <3>2. Min({0}) = 0
      BY DEF Min
    <3> QED BY <3>1, <3>2, <2>5 DEF OwedJoin
  <2> QED BY <2>2, <2>4, <2>5 DEF OwedJoin
<1>9. ASSUME NEW s \in Steps
      PROVE  /\ Of(s, "join")' = {} /\ Of(s, "back")' = {}
             /\ Cardinality(Of(s, "trigger")') = IF s \in Starts(graph) THEN 1 ELSE 0
  <2>1. Of(s, "join")' = {} /\ Of(s, "back")' = {}
    BY <1>1, <1>3 DEF Of
  <2>2. CASE s \in Starts(graph)
    <3>1. Item(s, "trigger", EmptyCtx, s, 0) \in Started /\ Item(s, "trigger", EmptyCtx, s, 0).step = s
      BY <2>2 DEF Started, Item
    <3>2. PICK k \in Calls' : inv'[k] = Item(s, "trigger", EmptyCtx, s, 0)
      BY <3>1, <1>1, <1>5
    <3>3. Of(s, "trigger")' = {k}
      BY <3>1, <3>2, <1>1, <1>3, <1>6 DEF Of
    <3> QED BY <2>1, <2>2, <3>3, FS_Singleton
  <2>3. CASE s \notin Starts(graph)
    <3>1. Of(s, "trigger")' = {}
      BY <1>1, <1>3, <2>3 DEF Of
    <3> QED BY <2>1, <2>3, <3>1, FS_EmptySet
  <2> QED BY <2>2, <2>3
<1>10. Owed'
  BY <1>1, <1>8, <1>9, FS_EmptySet DEF Owed, OwedTrigger
<1>11. Awaited'
  <2>1. ASSUME NEW s \in Steps
        PROVE  /\ pending'[s] = Cardinality(Joins(graph, s)) /\ Cardinality(Joins(graph, s)) \in Nat
               /\ Cardinality(Seen(s)') = 0
    BY <1>1, <1>8, SetsFinite, FS_EmptySet
  <2> QED BY <1>1, <2>1 DEF Awaited
<1>12. PassedOwn' /\ Once'
  BY <1>1, <1>3, <1>6 DEF PassedOwn, Once
<1> QED BY <1>10, <1>11, <1>12 DEF OwedInv

\* The calls that a return adds: one for each edge passed back to a loop and
\* one for each step that has become ready.
NewAt(i) == (Len(inv) + 1) .. (Len(inv) + Len(Children(i)))

LEMMA NewCalls ==
  ASSUME TypeOK, NEW i \in Calls, Return(i)
  PROVE  /\ Calls' = Calls \cup NewAt(i) /\ Calls \cap NewAt(i) = {}
         /\ \A j \in NewAt(i) : inv'[j].pc = "called" /\ inv'[j].passed = {}
         /\ \A j \in NewAt(i) :
               \/ inv'[j].via = "back" /\ \E e \in Backs(i) : e.to = inv'[j].step
               \/ inv'[j].via = "join" /\ inv'[j].step \in Ready(i)
         /\ \A j, k \in NewAt(i) : inv'[j].step = inv'[k].step /\ inv'[j].via = inv'[k].via => j = k
         /\ \A e \in Backs(i) : \E j \in NewAt(i) : inv'[j].step = e.to /\ inv'[j].via = "back"
         /\ \A s \in Ready(i) : \E j \in NewAt(i) : inv'[j].step = s /\ inv'[j].via = "join"
<1> DEFINE S == ByBack(i) \cup ByJoin(i)
           n == Len(Children(i))
<1>1. /\ n \in Nat /\ Calls' = Calls \cup NewAt(i)
      /\ \A j \in NewAt(i) : inv'[j] = Children(i)[j - Len(inv)] /\ inv'[j] \in S
  BY ReturnDoes DEF NewAt
<1>2. Calls = 1..Len(inv) /\ Len(inv) \in Nat
  BY ActiveFinite
<1>3. /\ Children(i) \in [1..n -> S] /\ IsInjective(Children(i))
      /\ \A c \in S : \E k \in 1..n : Children(i)[k] = c
  BY ChildrenTyped, SetToSeqIsSeq DEF Children
<1>4. /\ \A c \in ByBack(i) : c.via = "back" /\ \E e \in Backs(i) : e.to = c.step
      /\ \A c \in ByJoin(i) : c.via = "join" /\ c.step \in Ready(i)
  BY DEF ByBack, ByJoin, Child, Item
<1>5. ASSUME NEW c \in S, NEW d \in S, c.step = d.step, c.via = d.via
      PROVE  c = d
  <2>1. CASE c \in ByBack(i) /\ d \in ByBack(i)
    <3>1. PICK e \in Backs(i) : c = Child(i, e.to, "back", inv[i].out)
      BY <2>1 DEF ByBack
    <3>2. PICK f \in Backs(i) : d = Child(i, f.to, "back", inv[i].out)
      BY <2>1 DEF ByBack
    <3>3. c.step = e.to /\ d.step = f.to
      BY <3>1, <3>2 DEF Child, Item
    <3> QED BY <3>1, <3>2, <3>3, <1>5
  <2>2. CASE c \in ByJoin(i) /\ d \in ByJoin(i)
    <3>1. PICK s \in Ready(i) : c = Child(i, s, "join", MergeStepContexts(Ctxs(i)[s]))
      BY <2>2 DEF ByJoin
    <3>2. PICK t \in Ready(i) : d = Child(i, t, "join", MergeStepContexts(Ctxs(i)[t]))
      BY <2>2 DEF ByJoin
    <3>3. c.step = s /\ d.step = t
      BY <3>1, <3>2 DEF Child, Item
    <3> QED BY <3>1, <3>2, <3>3, <1>5
  <2> QED BY <2>1, <2>2, <1>4, <1>5
<1>6. \A j \in NewAt(i) : j - Len(inv) \in 1..n
  BY <1>1, <1>2 DEF NewAt
<1>7. \A k \in 1..n : k + Len(inv) \in NewAt(i) /\ (k + Len(inv)) - Len(inv) = k
  BY <1>1, <1>2 DEF NewAt
<1>8. ASSUME NEW j \in NewAt(i), NEW k \in NewAt(i),
             inv'[j].step = inv'[k].step, inv'[j].via = inv'[k].via
      PROVE  j = k
  <2>1. Children(i)[j - Len(inv)] = Children(i)[k - Len(inv)]
    BY <1>1, <1>5, <1>8
  <2>2. j - Len(inv) = k - Len(inv)
    BY <2>1, <1>3, <1>6 DEF IsInjective
  <2> QED BY <2>2, <1>1, <1>2 DEF NewAt
<1>9. ASSUME NEW c \in S
      PROVE  \E j \in NewAt(i) : inv'[j] = c
  <2>1. PICK k \in 1..n : Children(i)[k] = c
    BY <1>3
  <2>2. k + Len(inv) \in NewAt(i) /\ inv'[k + Len(inv)] = c
    BY <2>1, <1>1, <1>7
  <2> QED BY <2>2
<1>10. ASSUME NEW e \in Backs(i)
       PROVE  \E j \in NewAt(i) : inv'[j].step = e.to /\ inv'[j].via = "back"
  <2>1. Child(i, e.to, "back", inv[i].out) \in S
    BY DEF ByBack
  <2>2. PICK j \in NewAt(i) : inv'[j] = Child(i, e.to, "back", inv[i].out)
    BY <2>1, <1>9
  <2> QED BY <2>2 DEF Child, Item
<1>11. ASSUME NEW s \in Ready(i)
       PROVE  \E j \in NewAt(i) : inv'[j].step = s /\ inv'[j].via = "join"
  <2>1. Child(i, s, "join", MergeStepContexts(Ctxs(i)[s])) \in S
    BY DEF ByJoin
  <2>2. PICK j \in NewAt(i) : inv'[j] = Child(i, s, "join", MergeStepContexts(Ctxs(i)[s]))
    BY <2>1, <1>9
  <2> QED BY <2>2 DEF Child, Item
<1>12. Calls \cap NewAt(i) = {}
  BY <1>1, <1>2 DEF NewAt
<1>13. \A j \in NewAt(i) : inv'[j].pc = "called" /\ inv'[j].passed = {}
  BY <1>1, ChildrenTyped
<1>14. \A j \in NewAt(i) : \/ inv'[j].via = "back" /\ \E e \in Backs(i) : e.to = inv'[j].step
                           \/ inv'[j].via = "join" /\ inv'[j].step \in Ready(i)
  BY <1>1, <1>4
<1> QED BY <1>1, <1>8, <1>10, <1>11, <1>12, <1>13, <1>14

\* What a return leaves of the calls there were.
LEMMA OldCalls ==
  ASSUME TypeOK, NEW i \in Calls, Return(i)
  PROVE  /\ inv[i].pc = "returned"
         /\ \A j \in Calls : /\ inv'[j].step = inv[j].step /\ inv'[j].via = inv[j].via
                             /\ inv'[j].pc = IF j = i THEN "done" ELSE inv[j].pc
                             /\ inv'[j].passed = IF j = i THEN Outs(i) ELSE inv[j].passed
<1>1. inv[i] \in Items(graph)
  BY CallTyped
<1>2. /\ Finished(i).step = inv[i].step /\ Finished(i).via = inv[i].via
      /\ Finished(i).pc = "done" /\ Finished(i).passed = Outs(i)
  BY <1>1 DEF Finished, Items
<1> QED BY <1>2, ReturnDoes, ReturnParts

LEMMA ReturnPasses ==
  ASSUME TypeOK, NEW i \in Calls, Return(i), NEW e
  PROVE  /\ i \notin Did(e)
         /\ Did(e)' = IF e \in Outs(i) THEN Did(e) \cup {i} ELSE Did(e)
         /\ Cardinality(Did(e)') = Cardinality(Did(e)) + (IF e \in Outs(i) THEN 1 ELSE 0)
<1>1. i \notin Did(e)
  BY OldCalls DEF Did
<1>2. Did(e)' = {j \in Calls \cup NewAt(i) : inv'[j].pc = "done" /\ e \in inv'[j].passed}
  BY NewCalls DEF Did
<1>3. \A j \in NewAt(i) : inv'[j].pc # "done"
  BY NewCalls
<1>4. Did(e)' = {j \in Calls : inv'[j].pc = "done" /\ e \in inv'[j].passed}
  BY <1>2, <1>3
<1>5. Did(e)' = IF e \in Outs(i) THEN Did(e) \cup {i} ELSE Did(e)
  BY <1>4, OldCalls DEF Did
<1>6. IsFiniteSet(Did(e)) /\ Cardinality(Did(e)) \in Nat
  BY SetsFinite
<1>7. Cardinality(Did(e) \cup {i}) = Cardinality(Did(e)) + 1
  BY <1>1, <1>6, FS_AddElement
<1> QED BY <1>1, <1>5, <1>6, <1>7

LEMMA ReturnCalls ==
  ASSUME TypeOK, NEW i \in Calls, Return(i), NEW s, NEW via
  PROVE  Cardinality(Of(s, via)') = Cardinality(Of(s, via))
           + (IF \/ via = "back" /\ \E e \in Backs(i) : e.to = s
                 \/ via = "join" /\ s \in Ready(i)
              THEN 1 ELSE 0)
<1> DEFINE New == {j \in NewAt(i) : inv'[j].step = s /\ inv'[j].via = via}
           more == \/ via = "back" /\ \E e \in Backs(i) : e.to = s
                   \/ via = "join" /\ s \in Ready(i)
<1>1. Of(s, via)' = {j \in Calls \cup NewAt(i) : inv'[j].step = s /\ inv'[j].via = via}
  BY NewCalls DEF Of
<1>2. Of(s, via)' = Of(s, via) \cup New
  BY <1>1, OldCalls DEF Of
<1>3. Of(s, via) \cap New = {}
  BY NewCalls DEF Of
<1>4. CASE more
  <2>1. PICK j \in NewAt(i) : inv'[j].step = s /\ inv'[j].via = via
    BY <1>4, NewCalls
  <2>2. New = {j}
    BY <2>1, NewCalls
  <2>3. j \notin Of(s, via)
    BY <1>3, <2>2
  <2>4. Of(s, via)' = Of(s, via) \cup {j}
    BY <1>2, <2>2
  <2> QED BY <1>4, <2>3, <2>4, SetsFinite, FS_AddElement
<1>5. CASE ~more
  <2>1. New = {}
    BY <1>5, NewCalls
  <2>2. Of(s, via)' = Of(s, via)
    BY <1>2, <2>1
  <2> QED BY <1>5, <2>2, SetsFinite
<1> QED BY <1>4, <1>5

\* Of the edges that lead into a step over no loop, a return passes the one
\* that makes it met, if any.
LEMMA MetBy ==
  ASSUME TypeOK, NEW i \in Calls, NEW s \in Steps
  PROVE  /\ s \in Met(i) => \E e \in Joins(graph, s) : Joins(graph, s) \cap Outs(i) = {e}
         /\ s \notin Met(i) => Joins(graph, s) \cap Outs(i) = {}
<1>1. /\ Outs(i) \subseteq graph.edge /\ \A e \in Outs(i) : e.from = inv[i].step
      /\ inv[i].step \in Steps
  BY OutsTyped, CallTyped, FieldsOf
<1>2. \A e \in Outs(i) \ Backs(i) : e.to = s => e \in Joins(graph, s)
  BY <1>1, StepsAssumption DEF Backs, Joins
<1>3. \A e \in Joins(graph, s) \cap Outs(i) : e \in Outs(i) \ Backs(i) /\ e.to = s
  BY DEF Backs, Joins
<1>4. ASSUME s \in Met(i)
      PROVE  \E e \in Joins(graph, s) : Joins(graph, s) \cap Outs(i) = {e}
  <2>1. PICK e \in Outs(i) \ Backs(i) : e.to = s
    BY <1>4 DEF Met
  <2>2. e \in Joins(graph, s)
    BY <1>2, <2>1
  <2>3. \A f \in Joins(graph, s) \cap Outs(i) : f = e
    BY <1>3, <2>1, OutsApart
  <2> QED BY <2>1, <2>2, <2>3
<1>5. s \notin Met(i) => Joins(graph, s) \cap Outs(i) = {}
  BY <1>3 DEF Met
<1> QED BY <1>4, <1>5

\* A call of a step that is called once is that step's only call: nothing was
\* passed from there before it returns, and one time after.
LEMMA OnlyCall ==
  ASSUME TypeOK, OwedInv, NEW i \in Calls, Return(i),
         NEW K \in SUBSET Steps, OnceThrough(graph, K), NEW e, e.from \in K
  PROVE  /\ Cardinality(Did(e)) \in {0, 1}
         /\ e \in Outs(i) => Did(e) = {}
<1>1. \A j \in Did(e) : inv[j].step = e.from /\ j \in Calls
  BY DEF OwedInv, PassedOwn, Did
<1>2. \A j, k \in Did(e) : j = k
  BY <1>1 DEF OwedInv, Once
<1>3. Did(e) = {} \/ \E j : Did(e) = {j}
  BY <1>2
<1>4. Cardinality(Did(e)) \in {0, 1}
  BY <1>3, FS_EmptySet, FS_Singleton
<1>5. ASSUME e \in Outs(i)
      PROVE  Did(e) = {}
  <2>1. e.from = inv[i].step
    BY <1>5, OutsTyped
  <2>2. \A j \in Did(e) : j = i
    BY <1>1, <2>1 DEF OwedInv, Once
  <2>3. i \notin Did(e)
    BY ReturnPasses
  <2> QED BY <2>2, <2>3
<1> QED BY <1>4, <1>5

\* The least of numbers 0 and 1.
LEMMA MinOfBits ==
  ASSUME NEW S \in SUBSET {0, 1}, S # {}
  PROVE  Min(S) = IF 0 \in S THEN 0 ELSE 1
<1>1. \E x \in S : \A y \in S : x <= y
  <2>1. CASE 0 \in S
    BY <2>1
  <2>2. CASE 0 \notin S
    <3>1. S = {1}
      BY <2>2
    <3> QED BY <3>1
  <2> QED BY <2>1, <2>2
<1>2. Min(S) \in S /\ \A y \in S : Min(S) <= y
  BY <1>1 DEF Min
<1> DEFINE m == Min(S)
<1>3. m \in S /\ \A y \in S : m <= y
  BY <1>2
<1> HIDE DEF m
<1>4. m = 0 \/ m = 1
  BY <1>3
<1>5. 0 \in S => m = 0
  BY <1>3, <1>4
<1> QED BY <1>3, <1>4, <1>5 DEF m

\* A step that several edges join in is ready with the last of them to be
\* passed for the first time.
LEMMA JoinOfMany ==
  ASSUME TypeOK, OwedInv, JoinsOnce(graph), engine = "graph", NEW i \in Calls, Return(i),
         NEW s \in Met(i), Cardinality(Joins(graph, s)) > 1
  PROVE  /\ OwedJoin(s) = 0
         /\ OwedJoin(s)' = IF s \in Ready(i) THEN 1 ELSE 0
         /\ pending'[s] = Cardinality(Joins(graph, s)) - Cardinality(Seen(s)')
<1> DEFINE J == Joins(graph, s)
<1>1. PICK K \in SUBSET Steps : OnceThrough(graph, K)
  BY DEF JoinsOnce
<1>2. s \in Steps
  BY OutsTyped
<1>3. \A e \in J : e.from \in K
  BY <1>1, <1>2 DEF OnceThrough
<1>4. PICK e \in J : J \cap Outs(i) = {e}
  BY <1>2, MetBy
<1>5. /\ \A f \in J : Cardinality(Did(f)) \in {0, 1}
      /\ Did(e) = {}
  BY <1>1, <1>3, <1>4, OnlyCall
<1>6. /\ \A f \in J \ {e} : Did(f)' = Did(f)
      /\ Did(e)' = {i}
  BY <1>4, <1>5, ReturnPasses
<1>7. graph' = graph /\ Joins(graph, s)' = J /\ J # {}
  BY <1>4, ReturnParts
<1>8. /\ Seen(s)' = Seen(s) \cup {e} /\ e \notin Seen(s) /\ e \in J
      /\ Seen(s) \subseteq J /\ IsFiniteSet(Seen(s)) /\ Cardinality(Seen(s)) \in Nat
      /\ IsFiniteSet(J) /\ Cardinality(J) \in Nat
  BY <1>4, <1>5, <1>6, <1>7, SetsFinite DEF Seen
<1>9. Cardinality(Seen(s)') = Cardinality(Seen(s)) + 1 /\ IsFiniteSet(Seen(s)') /\ Seen(s)' \subseteq J
  BY <1>8, FS_AddElement
<1>10. pending[s] = Cardinality(J) - Cardinality(Seen(s))
  BY <1>2 DEF OwedInv, Awaited
<1>11. pending'[s] = pending[s] - 1 /\ Left(i)[s] = pending[s] - 1
  BY <1>2, ReturnParts DEF Left
<1>12. pending'[s] = Cardinality(J) - Cardinality(Seen(s)')
  BY <1>8, <1>9, <1>10, <1>11
<1>13. s \in Ready(i) <=> Seen(s)' = J
  <2>1. s \in Ready(i) <=> Cardinality(J) <= Cardinality(Seen(s)')
    BY <1>8, <1>9, <1>10, <1>11 DEF Ready, IsReady
  <2>2. Cardinality(Seen(s)') <= Cardinality(J) /\ (Cardinality(J) = Cardinality(Seen(s)') => J = Seen(s)')
    BY <1>8, <1>9, FS_Subset
  <2> QED BY <2>1, <2>2, <1>8, <1>9
<1>14. OwedJoin(s) = 0
  <2> DEFINE S == {Cardinality(Did(f)) : f \in J}
  <2>1. S \in SUBSET {0, 1} /\ 0 \in S
    BY <1>5, <1>4, FS_EmptySet
  <2>2. Min(S) = 0
    BY <2>1, MinOfBits
  <2> QED BY <2>2, <1>7 DEF OwedJoin
<1>15. OwedJoin(s)' = IF s \in Ready(i) THEN 1 ELSE 0
  <2> DEFINE S == {Cardinality(Did(f)') : f \in J}
  <2>1. OwedJoin(s)' = Min(S)
    BY <1>7 DEF OwedJoin
  <2>2. \A f \in J : Cardinality(Did(f)') \in {0, 1}
    BY <1>5, <1>6, FS_Singleton
  <2>3. \A f \in J : Cardinality(Did(f)') = 0 <=> f \notin Seen(s)'
    <3> TAKE f \in J
    <3>1. IsFiniteSet(Did(f)')
      <4>1. Did(f)' = {i} \/ Did(f)' = Did(f)
        BY <1>6
      <4> QED BY <4>1, SetsFinite, FS_Singleton
    <3>2. Cardinality(Did(f)') = 0 <=> Did(f)' = {}
      BY <3>1, FS_EmptySet
    <3>3. f \in Seen(s)' <=> Did(f)' # {}
      BY <1>7 DEF Seen
    <3> QED BY <3>2, <3>3
  <2>4. S \in SUBSET {0, 1} /\ S # {}
    BY <2>2, <1>7
  <2>5. Min(S) = IF 0 \in S THEN 0 ELSE 1
    BY <2>4, MinOfBits
  <2>6. 0 \in S <=> Seen(s)' # J
    BY <2>3, <1>9
  <2> HIDE DEF S
  <2> QED BY <2>1, <2>5, <2>6, <1>13
<1> QED BY <1>12, <1>14, <1>15

\* A step that one edge leads to is ready each time the edge is passed.
LEMMA JoinOfOne ==
  ASSUME TypeOK, OwedInv, engine = "graph", NEW i \in Calls, Return(i),
         NEW s \in Met(i), Cardinality(Joins(graph, s)) = 1
  PROVE  /\ s \in Ready(i) /\ pending'[s] <= 1
         /\ OwedJoin(s)' = OwedJoin(s) + 1
<1>1. s \in Steps
  BY OutsTyped
<1>2. PICK e \in Joins(graph, s) : Joins(graph, s) \cap Outs(i) = {e}
  BY <1>1, MetBy
<1>3. Joins(graph, s) = {e}
  <2>1. IsFiniteSet(Joins(graph, s))
    BY SetsFinite
  <2>2. \E x : Joins(graph, s) = {x}
    BY <2>1, FS_Singleton
  <2> QED BY <1>2, <2>2
<1>4. pending[s] <= 1 /\ pending[s] \in Int
  BY <1>1 DEF OwedInv, Awaited, TypeOK
<1>5. pending'[s] = pending[s] - 1 /\ Left(i)[s] = pending[s] - 1
  BY <1>1, ReturnParts DEF Left
<1>6. s \in Ready(i)
  BY <1>4, <1>5 DEF Ready, IsReady
<1>7. \A n \in Nat : Min({n}) = n
  BY DEF Min
<1>8. Cardinality(Did(e)) \in Nat /\ Cardinality(Did(e)') = Cardinality(Did(e)) + 1
  BY <1>2, SetsFinite, ReturnPasses
<1>9. OwedJoin(s) = Cardinality(Did(e))
  <2>1. {Cardinality(Did(f)) : f \in Joins(graph, s)} = {Cardinality(Did(e))}
    BY <1>3
  <2> QED BY <2>1, <1>2, <1>7, <1>8 DEF OwedJoin
<1>10. OwedJoin(s)' = Cardinality(Did(e)')
  <2>1. graph' = graph
    BY ReturnParts
  <2>2. {Cardinality(Did(f)') : f \in Joins(graph, s)} = {Cardinality(Did(e)')}
    BY <1>3
  <2>3. Cardinality(Did(e)') \in Nat
    BY <1>8
  <2> QED BY <2>1, <2>2, <2>3, <1>2, <1>7 DEF OwedJoin
<1> QED BY <1>4, <1>5, <1>6, <1>8, <1>9, <1>10

\* A step that is not met is owed what it was.
LEMMA JoinUnmet ==
  ASSUME TypeOK, NEW i \in Calls, Return(i), NEW s \in Steps, s \notin Met(i)
  PROVE  /\ OwedJoin(s)' = OwedJoin(s) /\ Seen(s)' = Seen(s)
         /\ pending'[s] = pending[s] /\ s \notin Ready(i)
<1>1. graph' = graph /\ Joins(graph, s) \cap Outs(i) = {}
  BY MetBy, ReturnParts
<1>2. \A e \in Joins(graph, s) : Did(e)' = Did(e)
  BY <1>1, ReturnPasses
<1>3. OwedJoin(s)' = OwedJoin(s)
  BY <1>1, <1>2 DEF OwedJoin
<1>4. Seen(s)' = Seen(s)
  BY <1>1, <1>2 DEF Seen
<1> QED BY <1>3, <1>4, ReturnParts DEF Left, Ready

\* A loop is owed one more call for the edge passed back to it, if any.
LEMMA BackOwed ==
  ASSUME TypeOK, NEW i \in Calls, Return(i), NEW s \in Steps
  PROVE  OwedBack(s)' = OwedBack(s) + (IF \E e \in Backs(i) : e.to = s THEN 1 ELSE 0)
<1>1. graph' = graph /\ BackTo(s)' = BackTo(s)
  BY ReturnParts DEF BackTo
<1>2. CASE \E e \in Backs(i) : e.to = s
  <2>1. PICK e \in Backs(i) : e.to = s
    BY <1>2
  <2>2. e \in BackTo(s) /\ e \in Outs(i)
    BY <2>1 DEF Backs, BackTo
  <2>3. \A f \in BackTo(s) : f \in Outs(i) => f = e
    BY <2>1, <2>2, OutsApart DEF BackTo
  <2>4. \A f \in BackTo(s) \ {e} : Did(f)' = Did(f)
    BY <2>3, ReturnPasses
  <2> DEFINE n == Cardinality(Did(e))
  <2>5. n \in Nat /\ Cardinality(Did(e)') = n + 1
    BY <2>2, SetsFinite, ReturnPasses
  <2>6. 1..(n + 1) = (1..n) \cup {n + 1} /\ n + 1 \notin 1..n
    BY <2>5
  <2>7. Backing(s)' = UNION {{f} \X (1..Cardinality(Did(f)')) : f \in BackTo(s)}
    BY <1>1 DEF Backing
  <2> HIDE DEF n
  <2>8. \A f \in BackTo(s) : {f} \X (1..Cardinality(Did(f)'))
          = IF f = e THEN ({f} \X (1..Cardinality(Did(f)))) \cup {<<e, n + 1>>}
            ELSE {f} \X (1..Cardinality(Did(f)))
    <3> TAKE f \in BackTo(s)
    <3>1. CASE f = e
      <4>1. {f} \X (1..Cardinality(Did(f)')) = {e} \X ((1..n) \cup {n + 1})
        BY <3>1, <2>5, <2>6
      <4>2. Cardinality(Did(f)) = n
        BY <3>1 DEF n
      <4> QED BY <3>1, <4>1, <4>2
    <3>2. CASE f # e
      BY <3>2, <2>4
    <3> QED BY <3>1, <3>2
  <2>9. Backing(s)' = Backing(s) \cup {<<e, n + 1>>}
    BY <2>2, <2>7, <2>8 DEF Backing
  <2>10. <<e, n + 1>> \notin Backing(s)
    <3>1. \A f \in BackTo(s) : <<e, n + 1>> \notin {f} \X (1..Cardinality(Did(f)))
      BY <2>6 DEF n
    <3> QED BY <3>1 DEF Backing
  <2> QED BY <1>2, <2>9, <2>10, SetsFinite, FS_AddElement DEF OwedBack
<1>3. CASE ~ \E e \in Backs(i) : e.to = s
  <2>1. \A f \in BackTo(s) : f \notin Outs(i)
    BY <1>3 DEF BackTo, Backs
  <2>2. \A f \in BackTo(s) : Did(f)' = Did(f)
    BY <2>1, ReturnPasses
  <2>3. Backing(s)' = Backing(s)
    BY <1>1, <2>2 DEF Backing
  <2> QED BY <1>3, <2>3, SetsFinite DEF OwedBack
<1> QED BY <1>2, <1>3

LEMMA OwedReturn ==
  ASSUME TypeOK, Counted, OwedInv, JoinsOnce(graph), NEW i \in Calls, Return(i)
  PROVE  OwedInv'
<1>1. /\ engine = "graph" /\ ~settled
      /\ graph' = graph /\ engine' = engine
  <2>1. i \in Active /\ inv # <<>>
    BY ActiveReturn DEF Calls
  <2> QED BY <2>1, ReturnParts DEF Counted
<1>2. PassedOwn'
  <2>1. \A j \in Calls : \A e \in inv'[j].passed : e.from = inv'[j].step
    BY OldCalls, OutsTyped DEF OwedInv, PassedOwn
  <2>2. \A j \in NewAt(i) : inv'[j].passed = {}
    BY NewCalls
  <2>3. Calls' = Calls \cup NewAt(i)
    BY NewCalls
  <2> QED BY <2>1, <2>2, <2>3 DEF PassedOwn
<1>3. ASSUME NEW s \in Steps
      PROVE  /\ Cardinality(Of(s, "trigger")') = OwedTrigger(s)'
             /\ Cardinality(Of(s, "back")') = OwedBack(s)'
  <2>1. Cardinality(Of(s, "trigger")) = OwedTrigger(s) /\ Cardinality(Of(s, "back")) = OwedBack(s)
    BY <1>1 DEF OwedInv, Owed
  <2>2. OwedTrigger(s)' = OwedTrigger(s) /\ OwedTrigger(s) \in Nat
    BY <1>1 DEF OwedTrigger
  <2>3. Cardinality(Of(s, "trigger")') = Cardinality(Of(s, "trigger")) + 0
    BY ReturnCalls
  <2>4. Cardinality(Of(s, "back")') = Cardinality(Of(s, "back")) + (IF \E e \in Backs(i) : e.to = s THEN 1 ELSE 0)
    BY ReturnCalls
  <2> QED BY <2>1, <2>2, <2>3, <2>4, BackOwed
<1>4. ASSUME NEW s \in Steps
      PROVE  /\ Cardinality(Of(s, "join")') = OwedJoin(s)'
             /\ IF Cardinality(Joins(graph, s)) = 1 THEN pending'[s] <= 1
                ELSE pending'[s] = Cardinality(Joins(graph, s)) - Cardinality(Seen(s)')
  <2>1. Cardinality(Of(s, "join")) = OwedJoin(s) /\ Cardinality(Of(s, "join")) \in Nat
    BY <1>1, SetsFinite DEF OwedInv, Owed
  <2>2. Cardinality(Of(s, "join")') = Cardinality(Of(s, "join")) + (IF s \in Ready(i) THEN 1 ELSE 0)
    BY ReturnCalls
  <2>3. Cardinality(Joins(graph, s)) \in Nat /\ IsFiniteSet(Joins(graph, s))
    BY SetsFinite
  <2>4. CASE s \notin Met(i)
    <3>1. IF Cardinality(Joins(graph, s)) = 1 THEN pending[s] <= 1
          ELSE pending[s] = Cardinality(Joins(graph, s)) - Cardinality(Seen(s))
      BY <1>1 DEF OwedInv, Awaited
    <3>2. /\ OwedJoin(s)' = OwedJoin(s) /\ Seen(s)' = Seen(s)
          /\ pending'[s] = pending[s] /\ s \notin Ready(i)
      BY <2>4, JoinUnmet
    <3> QED BY <2>1, <2>2, <3>1, <3>2
  <2>5. CASE s \in Met(i) /\ Cardinality(Joins(graph, s)) = 1
    BY <1>1, <2>1, <2>2, <2>5, JoinOfOne
  <2>6. CASE s \in Met(i) /\ Cardinality(Joins(graph, s)) > 1
    BY <1>1, <2>1, <2>2, <2>6, JoinOfMany
  <2>7. s \in Met(i) => Cardinality(Joins(graph, s)) # 0
    BY <2>3, MetBy, FS_EmptySet
  <2> QED BY <2>3, <2>4, <2>5, <2>6, <2>7
<1>5. Owed'
  BY <1>3, <1>4 DEF Owed
<1>6. Awaited'
  BY <1>1, <1>4 DEF Awaited
<1>7. Once'
  <2> SUFFICES ASSUME NEW K \in SUBSET Steps, OnceThrough(graph, K)',
                      NEW j \in Calls', NEW k \in Calls',
                      inv'[j].step \in K, inv'[j].step = inv'[k].step
               PROVE  j = k
    BY DEF Once
  <2>1. OnceThrough(graph, K)
    BY <1>1 DEF OnceThrough
  <2>2. Calls' = Calls \cup NewAt(i)
    BY NewCalls
  <2>3. \A m \in Calls : inv'[m].step = inv[m].step
    BY OldCalls
  <2>4. ASSUME NEW m \in NewAt(i), inv'[m].step \in K
        PROVE  /\ inv'[m].via = "join"
               /\ \A l \in Calls : inv[l].step # inv'[m].step
    <3> DEFINE s == inv'[m].step
    <3>1. s \in Steps /\ \A e \in Backs(i) : e.to # s
      BY <2>1, <2>4 DEF OnceThrough, Backs
    <3>2. inv'[m].via = "join" /\ s \in Ready(i)
      BY <3>1, NewCalls
    <3>3. PICK e \in Joins(graph, s) : Joins(graph, s) \cap Outs(i) = {e}
      BY <3>1, <3>2, MetBy, OutsTyped
    <3>4. e.from \in K /\ s \notin Starts(graph)
      BY <2>1, <2>4, <3>3 DEF OnceThrough
    <3>5. Did(e) = {}
      BY <2>1, <3>3, <3>4, OnlyCall
    <3>6. OwedJoin(s) = 0
      <4> DEFINE S == {Cardinality(Did(f)) : f \in Joins(graph, s)}
      <4>1. \A f \in Joins(graph, s) : f.from \in K
        BY <2>1, <2>4 DEF OnceThrough
      <4>2. S \in SUBSET {0, 1}
        BY <2>1, <4>1, OnlyCall
      <4>3. 0 \in S
        BY <3>3, <3>5, FS_EmptySet
      <4>4. Min(S) = 0
        BY <4>2, <4>3, MinOfBits
      <4> QED BY <4>4, <3>3 DEF OwedJoin
    <3>7. BackTo(s) = {}
      BY <2>1, <2>4 DEF OnceThrough, BackTo
    <3>8. OwedBack(s) = 0
      <4>1. Backing(s) = {}
        BY <3>7 DEF Backing
      <4> QED BY <4>1, FS_EmptySet DEF OwedBack
    <3>9. OwedTrigger(s) = 0
      BY <3>4 DEF OwedTrigger
    <3>10. /\ Cardinality(Of(s, "trigger")) = 0 /\ Cardinality(Of(s, "join")) = 0
           /\ Cardinality(Of(s, "back")) = 0
      BY <1>1, <3>1, <3>6, <3>8, <3>9 DEF OwedInv, Owed
    <3>11. Of(s, "trigger") = {} /\ Of(s, "join") = {} /\ Of(s, "back") = {}
      BY <3>10, SetsFinite, FS_EmptySet
    <3>12. \A l \in Calls : inv[l].via \in {"trigger", "join", "back"}
      BY CallTyped, FieldsOf
    <3>13. \A l \in Calls : inv[l].step # s
      BY <3>11, <3>12 DEF Of
    <3> QED BY <3>2, <3>13
  <2>5. CASE j \in Calls /\ k \in Calls
    BY <2>1, <2>3, <2>5 DEF OwedInv, Once
  <2>6. CASE j \in NewAt(i) /\ k \in NewAt(i)
    BY <2>4, <2>6, NewCalls
  <2>7. ~(j \in NewAt(i) /\ k \in Calls) /\ ~(k \in NewAt(i) /\ j \in Calls)
    BY <2>3, <2>4
  <2> QED BY <2>2, <2>5, <2>6, <2>7
<1> QED BY <1>2, <1>5, <1>6, <1>7 DEF OwedInv

LEMMA OwedStep ==
  ASSUME TypeOK, Counted, OwedInv, JoinsOnce(graph), [Next]_vars
  PROVE  OwedInv'
<1>1. ASSUME NEW i \in Calls, RunStep(i) \/ StepThrows(i)
      PROVE  OwedInv'
  <2>1. PICK call : Moves(i, call)
    BY <1>1, StepDoes
  <2>2. InStep
    BY <1>1, StepDoes
  <2>3. Calls' = Calls /\ \A j \in Calls : inv'[j] = IF j = i THEN call ELSE inv[j]
    BY <2>1, CallsKept DEF Moves
  <2>4. /\ call.step = inv[i].step /\ call.via = inv[i].via /\ call.passed = inv[i].passed
        /\ call.pc # "done" /\ inv[i].pc # "done"
    BY <2>1 DEF Moves, Same
  <2> QED BY <2>2, <2>3, <2>4, Quiet DEF InStep
<1>2. ASSUME NEW i \in Calls, Return(i)
      PROVE  OwedInv'
  BY <1>2, OwedReturn
<1>3. CASE Launch
  BY <1>3, OwedLaunch
<1>4. CASE Settle \/ FindStale \/ CloseRun \/ CloseFlows \/ Touch \/ EngineThrows \/ UNCHANGED vars
  <2>1. UNCHANGED <<graph, pending, settled, inv>> /\ Calls' = Calls
    BY <1>4 DEF Settle, FindStale, CloseRun, CloseFlows, Touch, EngineThrows, Engine, Calls, vars
  <2>2. engine' = "graph" => engine = "graph"
    BY <1>4 DEF Settle, FindStale, CloseRun, CloseFlows, Touch, EngineThrows, vars
  <2> QED BY <2>1, <2>2, Quiet
<1>5. ASSUME NEW i \in stale, CloseStale(i)
      PROVE  OwedInv'
  <2>1. i \in Calls
    BY DEF TypeOK
  <2>2. PICK call \in Items(graph) : /\ inv' = [inv EXCEPT ![i] = call]
                                     /\ Same(inv[i], call) /\ call.pc = inv[i].pc
    BY <1>5, CloseStaleDoes
  <2>3. Calls' = Calls /\ \A j \in Calls : inv'[j] = IF j = i THEN call ELSE inv[j]
    BY <2>1, <2>2, CallsKept
  <2>4. call.step = inv[i].step /\ call.via = inv[i].via /\ call.passed = inv[i].passed
    BY <2>2 DEF Same
  <2>5. UNCHANGED <<graph, pending, settled, engine>>
    BY <1>5 DEF CloseStale, Engine
  <2> QED BY <2>2, <2>3, <2>4, <2>5, Quiet
<1> QED BY <1>1, <1>2, <1>3, <1>4, <1>5 DEF Next, EngineStep

-----------------------------------------------------------------------------
(* The scheduler implements the net *)

\* The variables of the net, as the refinement mapping gives them.
Fired   == [e \in graph.edge |-> Cardinality(Did(e))]
Entered == [s \in Steps |-> [ground \in {"trigger", "join", "back"} |-> Cardinality(In(s, ground))]]
Running == [s \in Steps |-> Cardinality(Busy(s))]
Over    == settled /\ engine # "graph"

LEMMA SameGraphs ==
  /\ \A g, s : Net!Out(g, s) = Out(g, s)
  /\ \A g, s, branch : Net!FilterOut(g, s, branch) = FilterOut(g, s, branch)
  /\ \A g, s : Net!Joins(g, s) = Joins(g, s)
  /\ \A g : Net!Starts(g) = Starts(g)
  /\ Net!LoopBack = LoopBack
  /\ \A S : Net!Min(S) = Min(S)
  /\ Net!Handles = Handles
  /\ \A S : Net!Cardinality(S) = Cardinality(S)
<1>1. ASSUME NEW g, NEW s PROVE Net!Out(g, s) = Out(g, s)
  BY DEF Net!Out, Out
<1>2. ASSUME NEW g, NEW s, NEW branch PROVE Net!FilterOut(g, s, branch) = FilterOut(g, s, branch)
  BY DEF Net!FilterOut, FilterOut, Net!Out, Out
<1>3. ASSUME NEW g PROVE Net!LoopBackOf(g) = LoopBackOf(g)
  BY DEF Net!LoopBackOf, LoopBackOf, Net!Body, Body, Net!Out, Out
<1>4. Net!LoopBack = LoopBack
  BY <1>3 DEF Net!LoopBack, LoopBack
<1>5. ASSUME NEW g, NEW s PROVE Net!Joins(g, s) = Joins(g, s)
  BY <1>4 DEF Net!Joins, Joins
<1>6. ASSUME NEW g PROVE Net!Starts(g) = Starts(g)
  BY DEF Net!Starts, Starts, Net!Out, Out, Net!Used, Used
<1>7. ASSUME NEW S PROVE Net!Min(S) = Min(S)
  BY DEF Net!Min, Min
<1>8. Net!Handles = Handles
  BY DEF Net!Handles, Handles
<1>9. ASSUME NEW S PROVE Net!Cardinality(S) = Cardinality(S)
  BY DEF Net!Cardinality, Cardinality
<1> QED BY <1>1, <1>2, <1>4, <1>5, <1>6, <1>7, <1>8, <1>9

\* What is due in the net is what the calls are owed.
LEMMA DueIsOwed ==
  ASSUME TypeOK, NEW s \in Steps
  PROVE  /\ Net!Due(s, "trigger") = OwedTrigger(s)
         /\ Net!Due(s, "join") = OwedJoin(s)
         /\ Net!Due(s, "back") = OwedBack(s)
<1>1. \A e \in graph.edge : Fired[e] = Cardinality(Did(e))
  BY DEF Fired
<1>2. Joins(graph, s) \subseteq graph.edge /\ BackTo(s) \subseteq graph.edge
  BY DEF Joins, BackTo, LoopBack, LoopBackOf, TypeOK
<1>3. Net!Due(s, "trigger") = OwedTrigger(s)
  BY SameGraphs DEF Net!Due, OwedTrigger
<1>4. Net!Due(s, "join") = OwedJoin(s)
  <2>1. {Fired[e] : e \in Joins(graph, s)} = {Cardinality(Did(e)) : e \in Joins(graph, s)}
    BY <1>1, <1>2
  <2>2. Net!Due(s, "join") = IF Joins(graph, s) = {} THEN 0 ELSE Min({Fired[e] : e \in Joins(graph, s)})
    BY SameGraphs DEF Net!Due, Fired, Did
  <2> QED BY <2>1, <2>2 DEF OwedJoin
<1>5. Net!Due(s, "back") = OwedBack(s)
  <2>1. UNION {{e} \X (1..Fired[e]) : e \in BackTo(s)} = Backing(s)
    BY <1>1, <1>2 DEF Backing
  <2>2. Net!Due(s, "back") = Cardinality(UNION {{e} \X (1..Fired[e]) : e \in BackTo(s)})
    <3>1. Net!Due(s, "back") = Cardinality(Net!Passages(Net!BackTo(s)))
      BY SameGraphs DEF Net!Due
    <3>2. Net!BackTo(s) = BackTo(s)
      BY SameGraphs DEF BackTo, Net!BackTo
    <3>3. Net!Passages(BackTo(s)) = UNION {{e} \X (1..Fired[e]) : e \in BackTo(s)}
      BY DEF Net!Passages, Fired, Did
    <3> QED BY <3>1, <3>2, <3>3
  <2> QED BY <2>1, <2>2 DEF OwedBack
<1> QED BY <1>3, <1>4, <1>5

LEMMA NetInitial == Init => Net!NetInit
<1> SUFFICES ASSUME Init PROVE Net!NetInit
  OBVIOUS
<1>1. Calls = {} /\ graph \in Graphs /\ ~settled
  BY DEF Init, Calls
<1>2. \A e : Cardinality({i \in Calls : inv[i].pc = "done" /\ e \in inv[i].passed}) = 0
  BY <1>1, FS_EmptySet
<1>3. \A s, via : Cardinality(In(s, via)) = 0
  BY <1>1, FS_EmptySet DEF In
<1>4. \A s : Cardinality({i \in Calls : /\ inv[i].step = s
                                        /\ inv[i].pc \notin {"called", "done"}}) = 0
  BY <1>1, FS_EmptySet
<1> QED BY <1>1, <1>2, <1>3, <1>4 DEF Net!NetInit, Net!Grounds

\* A step that leaves the calls and their standing as they are is none of the net.
LEMMA NetStutters ==
  ASSUME UNCHANGED <<graph, settled>>, Calls' = Calls,
         \A j \in Calls : /\ inv'[j].step = inv[j].step /\ inv'[j].via = inv[j].via
                          /\ inv'[j].passed = inv[j].passed,
         \A j \in Calls : (inv'[j].pc = "done") = (inv[j].pc = "done"),
         \A j \in Calls : (inv'[j].pc = "called") = (inv[j].pc = "called"),
         settled => ((engine' = "graph") = (engine = "graph"))
  PROVE  UNCHANGED Net!netVars
<1>1. ASSUME NEW e PROVE Did(e)' = Did(e)
  BY DEF Did
<1>2. ASSUME NEW s, NEW via PROVE In(s, via)' = In(s, via)
  BY DEF In
<1>3. ASSUME NEW s PROVE Busy(s)' = Busy(s)
  BY DEF Busy
<1>4. Fired' = Fired
  BY <1>1 DEF Fired
<1>5. Entered' = Entered
  BY <1>2 DEF Entered
<1>6. Running' = Running
  BY <1>3 DEF Running
<1>7. Over' = Over
  BY DEF Over
<1> QED BY <1>4, <1>5, <1>6, <1>7 DEF Net!netVars, Fired, Entered, Running, Over, Did, Busy

\* A call that goes on starts its step in the net; a later step of it is none.
LEMMA NetStarts ==
  ASSUME IInv, OwedInv, NEW i \in Calls, RunStep(i) \/ StepThrows(i)
  PROVE  Net!NetNext \/ UNCHANGED Net!netVars
<1>0. TypeOK /\ Counted
  BY DEF IInv
<1>1. PICK call : Moves(i, call)
  BY <1>0, StepDoes
<1>2. InStep
  BY <1>0, StepDoes
<1>3. Calls' = Calls /\ \A j \in Calls : inv'[j] = IF j = i THEN call ELSE inv[j]
  BY <1>0, <1>1, CallsKept DEF Moves
<1>4. /\ call.step = inv[i].step /\ call.via = inv[i].via /\ call.passed = inv[i].passed
      /\ call.pc \notin {"called", "done"} /\ inv[i].pc # "done"
  BY <1>1 DEF Moves, Same
<1>5. CASE inv[i].pc # "called"
  BY <1>2, <1>3, <1>4, <1>5, NetStutters DEF InStep
<1>6. CASE inv[i].pc = "called"
  <2>0. inv[i].step \in Steps /\ inv[i].via \in {"trigger", "join", "back"}
    BY <1>0, CallTyped, FieldsOf
  <2>1. PICK s \in Steps, via \in {"trigger", "join", "back"} : inv[i].step = s /\ inv[i].via = via
    BY <2>0
  <2>2. engine = "graph" /\ ~settled
    <3>1. i \in Active /\ inv # <<>>
      BY <1>4 DEF Active, Calls
    <3> QED BY <1>0, <3>1 DEF Counted
  <2>3. \A e : Did(e)' = Did(e)
    <3> TAKE e
    <3> QED BY <1>3, <1>4 DEF Did
  <2>4. In(s, via)' = In(s, via) \cup {i} /\ i \notin In(s, via)
    BY <1>3, <1>4, <1>6, <2>1 DEF In
  <2>5. \A t, v : t # s \/ v # via => In(t, v)' = In(t, v)
    <3> TAKE t, v
    <3> QED BY <1>3, <1>4, <2>1 DEF In
  <2>6. Busy(s)' = Busy(s) \cup {i} /\ i \notin Busy(s)
    BY <1>3, <1>4, <1>6, <2>1 DEF Busy
  <2>7. \A t : t # s => Busy(t)' = Busy(t)
    <3> TAKE t
    <3> QED BY <1>3, <1>4, <2>1 DEF Busy
  <2>8. In(s, via) \subseteq Of(s, via) \ {i} /\ i \in Of(s, via)
    BY <1>6, <2>1 DEF In, Of
  <2>9. /\ IsFiniteSet(In(s, via)) /\ Cardinality(In(s, via)) \in Nat
        /\ Cardinality(In(s, via)) < Cardinality(Of(s, via))
    <3>1. /\ IsFiniteSet(Of(s, via) \ {i}) /\ Cardinality(Of(s, via)) \in Nat
          /\ Cardinality(Of(s, via) \ {i}) = Cardinality(Of(s, via)) - 1
      BY <1>0, <2>8, SetsFinite, FS_RemoveElement
    <3>2. IsFiniteSet(In(s, via)) /\ Cardinality(In(s, via)) <= Cardinality(Of(s, via) \ {i})
      BY <2>8, <3>1, FS_Subset
    <3>3. Cardinality(In(s, via)) \in Nat
      BY <3>2, FS_CardinalityType
    <3> QED BY <3>1, <3>2, <3>3
  <2>10. Cardinality(Of(s, via)) = Net!Due(s, via)
    BY <1>0, <2>1, <2>2, DueIsOwed DEF OwedInv, Owed
  <2>11. Cardinality(In(s, via)') = Cardinality(In(s, via)) + 1
    BY <2>4, <2>9, FS_AddElement
  <2>12. Cardinality(Busy(s)') = Cardinality(Busy(s)) + 1
    BY <1>0, <2>6, SetsFinite, FS_AddElement
  <2>13. graph' = graph /\ settled' = settled /\ engine' = engine
    BY <1>2 DEF InStep
  <2>14. Entered' = [Entered EXCEPT ![s][via] = @ + 1]
    <3>1. \A t \in Steps : \A v \in {"trigger", "join", "back"} :
            Cardinality(In(t, v)') = IF t = s /\ v = via THEN Cardinality(In(t, v)) + 1
                                     ELSE Cardinality(In(t, v))
      BY <2>5, <2>11
    <3>2. Entered' = [t \in Steps |-> [v \in {"trigger", "join", "back"} |->
                        IF t = s /\ v = via THEN Cardinality(In(t, v)) + 1 ELSE Cardinality(In(t, v))]]
      BY <3>1 DEF Entered
    <3> QED BY <2>1, <3>2 DEF Entered
  <2>15. Running' = [Running EXCEPT ![s] = @ + 1]
    BY <2>1, <2>7, <2>12 DEF Running
  <2>16. Fired' = Fired /\ ~Over /\ Over' = Over
    BY <2>2, <2>3, <2>13 DEF Fired, Over
  <2>17. Entered[s][via] < Net!Due(s, via)
    BY <2>1, <2>9, <2>10 DEF Entered
  <2>18. Net!NetStart(s, via)
    BY <2>13, <2>14, <2>15, <2>16, <2>17 DEF Net!NetStart, Fired, Entered, Running, Over, Did, Busy
  <2> QED BY <2>18 DEF Net!NetNext, Net!Grounds
<1> QED BY <1>5, <1>6

\* A return ends its step in the net, over the edges of a branch or, for a
\* failure that stops the flow, over none.
LEMMA NetFinishes ==
  ASSUME IInv, NEW i \in Calls, Return(i)
  PROVE  Net!NetNext
<1>0. TypeOK /\ Counted
  BY DEF IInv
<1>1. inv[i] \in Items(graph) /\ inv[i].step \in Steps /\ graph \in Graphs
  BY <1>0, CallTyped, FieldsOf DEF TypeOK
<1>a. PICK s \in Steps : inv[i].step = s
  BY <1>1
<1>b. PICK outs : outs = Outs(i)
  OBVIOUS
<1>2. engine = "graph" /\ ~settled
  <2>1. i \in Active /\ inv # <<>>
    BY <1>0, ActiveReturn DEF Calls
  <2> QED BY <1>0, <2>1 DEF Counted
<1>3. graph' = graph /\ engine' = engine
  BY <1>0, ReturnParts
<1>4. outs \subseteq graph.edge /\ \A e \in outs : e.from = s
  BY <1>0, <1>a, <1>b, OutsTyped
<1>5. \/ \E branch \in Handles : outs = FilterOut(graph, s, branch)
      \/ s \in graph.stop /\ outs = {}
  <2>1. CASE inv[i].failed /\ inv[i].step \in graph.stop
    BY <1>a, <1>b, <2>1 DEF Outs
  <2>2. CASE ~(inv[i].failed /\ inv[i].step \in graph.stop)
    <3>1. outs = FilterOut(graph, s, inv[i].branch)
      BY <1>a, <1>b, <2>2 DEF Outs
    <3>2. CASE inv[i].branch \in Handles
      BY <3>1, <3>2
    <3>3. CASE inv[i].branch = "none"
      <4>1. FilterOut(graph, s, "none") = FilterOut(graph, s, "default")
        BY DEF FilterOut
      <4>2. "default" \in Handles
        BY DEF Handles
      <4> QED BY <3>1, <3>3, <4>1, <4>2
    <3> QED BY <1>1, <3>2, <3>3, FieldsOf
  <2> QED BY <2>1, <2>2
<1>6. \A e : Cardinality(Did(e)') = IF e \in outs THEN Cardinality(Did(e)) + 1 ELSE Cardinality(Did(e))
  <2> TAKE e
  <2>1. Cardinality(Did(e)) \in Nat
    BY <1>0, SetsFinite
  <2> QED BY <1>0, <1>b, <2>1, ReturnPasses
<1>7. \A t, v : In(t, v)' = In(t, v)
  <2> TAKE t, v
  <2>1. In(t, v)' = {j \in Calls \cup NewAt(i) : inv'[j].step = t /\ inv'[j].via = v /\ inv'[j].pc # "called"}
    BY <1>0, NewCalls DEF In
  <2>2. \A j \in NewAt(i) : inv'[j].pc = "called"
    BY <1>0, NewCalls
  <2>3. \A j \in Calls : /\ inv'[j].step = inv[j].step /\ inv'[j].via = inv[j].via
                         /\ (inv'[j].pc = "called") = (inv[j].pc = "called")
    BY <1>0, OldCalls
  <2> QED BY <2>1, <2>2, <2>3 DEF In
<1>8. \A t : Busy(t)' = Busy(t) \ {i}
  <2> TAKE t
  <2>1. Busy(t)' = {j \in Calls \cup NewAt(i) : inv'[j].step = t /\ inv'[j].pc \notin {"called", "done"}}
    BY <1>0, NewCalls DEF Busy
  <2>2. \A j \in NewAt(i) : inv'[j].pc = "called"
    BY <1>0, NewCalls
  <2>3. \A j \in Calls : /\ inv'[j].step = inv[j].step
                         /\ inv'[j].pc = IF j = i THEN "done" ELSE inv[j].pc
    BY <1>0, OldCalls
  <2> QED BY <2>1, <2>2, <2>3 DEF Busy
<1>9. i \in Busy(s) /\ \A t : t # s => i \notin Busy(t)
  BY <1>0, <1>a, OldCalls DEF Busy
<1>10. Cardinality(Busy(s)) \in Nat /\ Cardinality(Busy(s)) > 0 /\ Cardinality(Busy(s)') = Cardinality(Busy(s)) - 1
  <2>1. IsFiniteSet(Busy(s)) /\ Cardinality(Busy(s)) \in Nat
    BY <1>0, SetsFinite
  <2>2. Cardinality(Busy(s)) # 0
    BY <1>9, <2>1, FS_EmptySet
  <2>3. Cardinality(Busy(s) \ {i}) = Cardinality(Busy(s)) - 1
    BY <1>9, <2>1, FS_RemoveElement
  <2> QED BY <1>8, <2>1, <2>2, <2>3
<1>11. \A t : t # s => Busy(t)' = Busy(t)
  BY <1>8, <1>9
<1>12. Fired' = [e \in graph.edge |-> IF e \in outs THEN Fired[e] + 1 ELSE Fired[e]]
  BY <1>3, <1>6 DEF Fired
<1>13. Entered' = Entered
  BY <1>7 DEF Entered
<1>14. Running' = [Running EXCEPT ![s] = @ - 1] /\ Running[s] > 0
  BY <1>1, <1>10, <1>11 DEF Running
<1>15. ~Over /\ Over' = Over
  BY <1>2, <1>3 DEF Over
<1>16. \/ \E branch \in Net!Handles : outs = Net!FilterOut(graph, s, branch)
       \/ s \in graph.stop /\ outs = {}
  BY <1>5, SameGraphs
<1>17. Net!NetFinish(s, outs)
  BY <1>3, <1>12, <1>13, <1>14, <1>15, <1>16
     DEF Net!NetFinish, Fired, Entered, Running, Over, Did, Busy
<1>18. outs \in SUBSET Net!Out(graph, s)
  BY <1>4, SameGraphs DEF Out
<1> QED BY <1>17, <1>18 DEF Net!NetNext

\* The scheduler goes on when the net closes: nothing runs, nothing is due.
LEMMA NetCloses ==
  ASSUME IInv, OwedInv, Settle
  PROVE  Net!NetNext
<1>0. TypeOK /\ Counted
  BY DEF IInv
<1>1. settled /\ engine = "graph" /\ engine' = "finding" /\ UNCHANGED <<graph, settled, inv>>
  BY DEF Settle, Engine
<1>2. \A i \in Calls : inv[i].pc = "done"
  BY <1>0, <1>1 DEF Counted, Active
<1>3. ASSUME NEW s \in Steps
      PROVE  Busy(s) = {} /\ \A via : In(s, via) = Of(s, via)
  BY <1>2 DEF Busy, In, Of
<1>4. \A s \in Steps : Running[s] = 0
  BY <1>3, FS_EmptySet DEF Running
<1>5. ASSUME NEW s \in Steps, NEW ground \in {"trigger", "join", "back"}
      PROVE  Entered[s][ground] = Net!Due(s, ground)
  <2>1. Entered[s][ground] = Cardinality(Of(s, ground))
    BY <1>3 DEF Entered
  <2>2. Cardinality(Of(s, ground)) = Net!Due(s, ground)
    BY <1>0, <1>1, DueIsOwed DEF OwedInv, Owed
  <2> QED BY <2>1, <2>2
<1>6. Fired' = Fired /\ Entered' = Entered /\ Running' = Running
  BY <1>1 DEF Fired, Entered, Running, Did, In, Busy, Calls
<1>7. ~Over /\ Over' = TRUE
  BY <1>1 DEF Over
<1>8. Net!NetClose
  BY <1>1, <1>4, <1>5, <1>6, <1>7
     DEF Net!NetClose, Net!Grounds, Fired, Entered, Running, Over, Did, Busy
<1> QED BY <1>8 DEF Net!NetNext

LEMMA NetStep ==
  ASSUME IInv, OwedInv, [Next]_vars
  PROVE  Net!NetNext \/ UNCHANGED Net!netVars
<1>0. TypeOK /\ Counted
  BY DEF IInv
<1>1. ASSUME NEW i \in Calls, RunStep(i) \/ StepThrows(i)
      PROVE  Net!NetNext \/ UNCHANGED Net!netVars
  BY <1>1, NetStarts
<1>2. ASSUME NEW i \in Calls, Return(i)
      PROVE  Net!NetNext
  BY <1>2, NetFinishes
<1>3. CASE Settle
  BY <1>3, NetCloses
<1>4. CASE Launch
  <2>1. /\ engine = "reading" /\ engine' = "graph" /\ UNCHANGED <<graph, settled>>
        /\ \A j \in Calls' : inv'[j].pc = "called"
    BY <1>0, <1>4, LaunchDoes, StartedTyped
  <2>2. Calls = {} /\ ~settled
    BY <1>0, <2>1 DEF Counted, Calls
  <2>3. /\ \A e : Did(e) = {} /\ Did(e)' = {}
        /\ \A s, via : In(s, via) = {} /\ In(s, via)' = {}
        /\ \A s : Busy(s) = {} /\ Busy(s)' = {}
    BY <2>1, <2>2 DEF Did, In, Busy
  <2>4. Fired' = Fired /\ Entered' = Entered /\ Running' = Running
    BY <2>1, <2>3 DEF Fired, Entered, Running
  <2>5. Over' = Over
    BY <2>1, <2>2 DEF Over
  <2> QED BY <2>1, <2>4, <2>5 DEF Net!netVars, Fired, Entered, Running, Over, Did, Busy
<1>5. CASE FindStale \/ CloseRun \/ CloseFlows \/ Touch \/ EngineThrows \/ UNCHANGED vars
  <2>1. UNCHANGED <<graph, settled, inv>> /\ Calls' = Calls
    BY <1>5 DEF FindStale, CloseRun, CloseFlows, Touch, EngineThrows, Engine, Calls, vars
  <2>2. settled => ((engine' = "graph") = (engine = "graph"))
    BY <1>5 DEF FindStale, CloseRun, CloseFlows, Touch, EngineThrows, vars
  <2> QED BY <2>1, <2>2, NetStutters
<1>6. ASSUME NEW i \in stale, CloseStale(i)
      PROVE  UNCHANGED Net!netVars
  <2>1. i \in Calls
    BY <1>0 DEF TypeOK
  <2>2. PICK call \in Items(graph) : /\ inv' = [inv EXCEPT ![i] = call]
                                     /\ Same(inv[i], call) /\ call.pc = inv[i].pc
    BY <1>0, <1>6, CloseStaleDoes
  <2>3. Calls' = Calls /\ \A j \in Calls : inv'[j] = IF j = i THEN call ELSE inv[j]
    BY <1>0, <2>1, <2>2, CallsKept
  <2>4. call.step = inv[i].step /\ call.via = inv[i].via /\ call.passed = inv[i].passed
    BY <2>2 DEF Same
  <2>5. UNCHANGED <<graph, settled, engine>>
    BY <1>6 DEF CloseStale, Engine
  <2> QED BY <2>2, <2>3, <2>4, <2>5, NetStutters
<1> QED BY <1>1, <1>2, <1>3, <1>4, <1>5, <1>6 DEF Next, EngineStep

\* For workflows whose joins of several edges are met once, the scheduler's
\* counters implement the net: every step is started as often as the edges
\* that were passed owe it, and the engine goes on exactly when nothing runs
\* and nothing more can start.
THEOREM SchedulerImplementsNet ==
  ASSUME \A g \in Graphs : JoinsOnce(g)
  PROVE  Spec => RefinesNet
<1> DEFINE Inv == IInv /\ OwedInv
<1>1. Init => Inv
  BY TypeInit, CountedInit, ToldInit, OwedInit DEF IInv
<1>2. Inv /\ [Next]_vars => Inv'
  <2>1. IInv => JoinsOnce(graph)
    BY DEF IInv, TypeOK
  <2> QED BY <2>1, InvariantStep, OwedStep DEF IInv
<1>3. Init => Net!NetInit
  BY NetInitial
<1>4. Inv /\ [Next]_vars => [Net!NetNext]_Net!netVars
  BY NetStep
<1> QED BY <1>1, <1>2, <1>3, <1>4, PTL DEF Spec, RefinesNet, Net!NetSpec

-----------------------------------------------------------------------------
(* The keys of the rows *)

\* Without forks the calls that go back to one start are a chain: one of them
\* at most is under way, it is the deepest, and no two are equally deep.
Chains ==
  /\ \A i, j \in Active : inv[i].path = inv[j].path => i = j
  /\ \A i \in Active, j \in Calls : inv[i].path = inv[j].path => inv[j].depth <= inv[i].depth
  /\ \A i, j \in Calls : inv[i].path = inv[j].path /\ inv[i].depth = inv[j].depth => i = j

LEMMA ChainsQuiet ==
  ASSUME Chains, Calls' = Calls,
         \A j \in Calls : inv'[j].path = inv[j].path /\ inv'[j].depth = inv[j].depth,
         \A j \in Calls : inv[j].pc = "done" => inv'[j].pc = "done"
  PROVE  Chains'
<1>1. Active' \subseteq Active
  BY DEF Active
<1> QED BY <1>1 DEF Chains, Active

\* Without forks, a return adds one call at most.
LEMMA OneChild ==
  ASSUME TypeOK, NoForks(graph), NEW i \in Calls, Return(i)
  PROVE  /\ \A j, k \in NewAt(i) : j = k
         /\ \A j \in NewAt(i) : inv'[j].path = inv[i].path /\ inv'[j].depth = inv[i].depth + 1
<1>1. \A e, f \in Outs(i) : e = f
  <2>1. inv[i].step \in Steps /\ inv[i].branch \in Handles \cup {"none"}
    BY CallTyped, FieldsOf
  <2>2. FilterOut(graph, inv[i].step, "none") = FilterOut(graph, inv[i].step, "default")
    BY DEF FilterOut
  <2>3. "default" \in Handles
    BY DEF Handles
  <2>4. \A e, f \in FilterOut(graph, inv[i].step, inv[i].branch) : e = f
    BY <2>1, <2>2, <2>3 DEF NoForks
  <2> QED BY <2>4 DEF Outs
<1>2. ASSUME NEW j \in NewAt(i)
      PROVE  \/ inv'[j].via = "back" /\ \E e \in Outs(i) : e \in Backs(i) /\ e.to = inv'[j].step
             \/ inv'[j].via = "join" /\ \E e \in Outs(i) : e \notin Backs(i) /\ e.to = inv'[j].step
  <2>1. CASE inv'[j].via = "back" /\ \E e \in Backs(i) : e.to = inv'[j].step
    BY <2>1, OutsTyped
  <2>2. CASE inv'[j].via = "join" /\ inv'[j].step \in Ready(i)
    BY <2>2 DEF Ready, Met
  <2> QED BY <2>1, <2>2, NewCalls
<1>3. ASSUME NEW j \in NewAt(i), NEW k \in NewAt(i)
      PROVE  j = k
  <2>1. inv'[j].step = inv'[k].step /\ inv'[j].via = inv'[k].via
    BY <1>1, <1>2
  <2> QED BY <2>1, NewCalls
<1>4. ASSUME NEW j \in NewAt(i)
      PROVE  inv'[j].path = inv[i].path /\ inv'[j].depth = inv[i].depth + 1
  <2>1. inv'[j] \in ByBack(i) \cup ByJoin(i)
    BY ReturnDoes DEF NewAt
  <2>2. \A c \in ByBack(i) \cup ByJoin(i) : c.path = inv[i].path /\ c.depth = inv[i].depth + 1
    BY DEF ByBack, ByJoin, Child, Item, ChildDepth
  <2> QED BY <2>1, <2>2
<1> QED BY <1>3, <1>4

LEMMA ChainsReturn ==
  ASSUME TypeOK, Chains, NoForks(graph), NEW i \in Calls, Return(i)
  PROVE  Chains'
<1>1. /\ \A j, k \in NewAt(i) : j = k
      /\ \A j \in NewAt(i) : inv'[j].path = inv[i].path /\ inv'[j].depth = inv[i].depth + 1
  BY OneChild
<1>2. Calls' = Calls \cup NewAt(i) /\ Calls \cap NewAt(i) = {}
  BY NewCalls
<1>3. \A j \in Calls : inv'[j].path = inv[j].path /\ inv'[j].depth = inv[j].depth
  <2>1. inv[i] \in Items(graph) /\ Finished(i).path = inv[i].path /\ Finished(i).depth = inv[i].depth
    BY CallTyped DEF Finished, Items
  <2> QED BY <2>1, ReturnDoes
<1>4. Active' \subseteq (Active \ {i}) \cup NewAt(i)
  BY <1>2, OldCalls DEF Active
<1>5. i \in Active /\ Active \subseteq Calls
  BY ActiveReturn DEF Active
<1>6. \A j \in Calls : inv[j].depth \in Nat
  BY CallTyped, FieldsOf
<1>7. \A j \in Active \ {i} : inv[j].path # inv[i].path
  BY <1>5 DEF Chains
<1>8. \A j \in Calls : inv[j].path = inv[i].path => inv[j].depth < inv[i].depth + 1
  BY <1>5, <1>6 DEF Chains
<1>9. \A j, k \in Active' : inv'[j].path = inv'[k].path => j = k
  BY <1>1, <1>3, <1>4, <1>5, <1>7 DEF Chains
<1>10. \A j \in Active', k \in Calls' : inv'[j].path = inv'[k].path => inv'[k].depth <= inv'[j].depth
  <2> TAKE j \in Active', k \in Calls'
  <2> HAVE inv'[j].path = inv'[k].path
  <2>1. CASE j \in NewAt(i) /\ k \in NewAt(i)
    BY <2>1, <1>1, <1>5, <1>6
  <2>2. CASE j \in NewAt(i) /\ k \in Calls
    BY <2>2, <1>1, <1>3, <1>5, <1>6, <1>8
  <2>3. CASE j \in Active \ {i} /\ k \in NewAt(i)
    BY <2>3, <1>1, <1>3, <1>5, <1>7
  <2>4. CASE j \in Active \ {i} /\ k \in Calls
    BY <2>4, <1>3, <1>5 DEF Chains
  <2> QED BY <2>1, <2>2, <2>3, <2>4, <1>2, <1>4
<1>11. \A j, k \in Calls' : inv'[j].path = inv'[k].path /\ inv'[j].depth = inv'[k].depth => j = k
  <2> TAKE j, k \in Calls'
  <2> HAVE inv'[j].path = inv'[k].path /\ inv'[j].depth = inv'[k].depth
  <2>1. CASE j \in NewAt(i) /\ k \in NewAt(i)
    BY <2>1, <1>1
  <2>2. CASE j \in NewAt(i) /\ k \in Calls
    BY <2>2, <1>1, <1>3, <1>6, <1>8
  <2>3. CASE j \in Calls /\ k \in NewAt(i)
    BY <2>3, <1>1, <1>3, <1>6, <1>8
  <2>4. CASE j \in Calls /\ k \in Calls
    BY <2>4, <1>3 DEF Chains
  <2> QED BY <2>1, <2>2, <2>3, <2>4, <1>2
<1> QED BY <1>9, <1>10, <1>11 DEF Chains

LEMMA ChainsStep ==
  ASSUME TypeOK, Counted, Chains, NoForks(graph), [Next]_vars
  PROVE  Chains'
<1>1. ASSUME NEW i \in Calls, RunStep(i) \/ StepThrows(i)
      PROVE  Chains'
  <2>1. PICK call : Moves(i, call)
    BY <1>1, StepDoes
  <2>2. Calls' = Calls /\ \A j \in Calls : inv'[j] = IF j = i THEN call ELSE inv[j]
    BY <2>1, CallsKept DEF Moves
  <2>3. call.path = inv[i].path /\ call.depth = inv[i].depth /\ inv[i].pc # "done"
    BY <2>1 DEF Moves, Same
  <2> QED BY <2>2, <2>3, ChainsQuiet
<1>2. ASSUME NEW i \in Calls, Return(i)
      PROVE  Chains'
  BY <1>2, ChainsReturn
<1>3. CASE Launch
  <2>1. /\ inv' = SetToSeq(Started) /\ Len(inv') \in Nat /\ Calls' = 1..Len(inv')
        /\ \A i \in Calls' : inv'[i] \in Started
    BY <1>3, LaunchDoes
  <2>2. IsInjective(inv') /\ inv' \in [1..Cardinality(Started) -> Started] /\ Len(inv') = Cardinality(Started)
    BY <2>1, StartedTyped, SetToSeqIsSeq
  <2>3. \A c, d \in Started : c.path = d.path => c = d
    <3> TAKE c, d \in Started
    <3>1. PICK s \in Starts(graph) : c = Item(s, "trigger", EmptyCtx, s, 0)
      BY DEF Started
    <3>2. PICK t \in Starts(graph) : d = Item(t, "trigger", EmptyCtx, t, 0)
      BY DEF Started
    <3>3. c.path = s /\ d.path = t
      BY <3>1, <3>2 DEF Item
    <3> QED BY <3>1, <3>2, <3>3
  <2>4. \A c \in Started : c.depth = 0
    BY DEF Started, Item
  <2>5. \A i, j \in Calls' : inv'[i].path = inv'[j].path => i = j
    <3> TAKE i, j \in Calls'
    <3> HAVE inv'[i].path = inv'[j].path
    <3>1. inv'[i] = inv'[j]
      BY <2>1, <2>3
    <3>2. i \in 1..Cardinality(Started) /\ j \in 1..Cardinality(Started)
      BY <2>1, <2>2
    <3> QED BY <2>2, <3>1, <3>2 DEF IsInjective
  <2>6. Active' \subseteq Calls'
    BY DEF Active
  <2> QED BY <2>1, <2>4, <2>5, <2>6 DEF Chains
<1>4. CASE Settle \/ FindStale \/ CloseRun \/ CloseFlows \/ Touch \/ EngineThrows \/ UNCHANGED vars
  <2>1. inv' = inv /\ Calls' = Calls
    BY <1>4 DEF Settle, FindStale, CloseRun, CloseFlows, Touch, EngineThrows, Engine, Calls, vars
  <2> QED BY <2>1, ChainsQuiet
<1>5. ASSUME NEW i \in stale, CloseStale(i)
      PROVE  Chains'
  <2>1. i \in Calls
    BY DEF TypeOK
  <2>2. PICK call \in Items(graph) : /\ inv' = [inv EXCEPT ![i] = call]
                                     /\ Same(inv[i], call) /\ call.pc = inv[i].pc
    BY <1>5, CloseStaleDoes
  <2>3. Calls' = Calls /\ \A j \in Calls : inv'[j] = IF j = i THEN call ELSE inv[j]
    BY <2>1, <2>2, CallsKept
  <2>4. call.path = inv[i].path /\ call.depth = inv[i].depth
    BY <2>2 DEF Same
  <2> QED BY <2>2, <2>3, <2>4, ChainsQuiet
<1> QED BY <1>1, <1>2, <1>3, <1>4, <1>5 DEF Next, EngineStep

\* No two calls have the step, flow and depth of the same row, in a workflow
\* that goes one way at a time or whose steps are all called once. (A fork in
\* the body of a loop leads back to it twice, at one depth: there it does fail.)
THEOREM KeysAreUnique ==
  ASSUME \A g \in Graphs : OnceThrough(g, Steps) \/ NoForks(g)
  PROVE  Spec => []KeysUnique
<1> DEFINE Part == /\ OnceThrough(graph, Steps) => OwedInv
                   /\ NoForks(graph) => Chains
           Inv == IInv /\ Part
<1>1. Init => Inv
  <2>1. Init => Chains
    BY DEF Init, Chains, Active, Calls
  <2> QED BY <2>1, TypeInit, CountedInit, ToldInit, OwedInit DEF IInv
<1>2. Inv /\ [Next]_vars => Inv'
  <2> SUFFICES ASSUME Inv, [Next]_vars PROVE Inv'
    OBVIOUS
  <2>1. graph' = graph
    BY StepDoes, ReturnParts, LaunchDoes
       DEF Next, EngineStep, Settle, FindStale, CloseRun, CloseFlows, Touch, CloseStale, Launch,
           EngineThrows, Engine, InStep, Return, vars, IInv
  <2>2. OnceThrough(graph, Steps) => JoinsOnce(graph)
    BY DEF JoinsOnce
  <2>3. OnceThrough(graph, Steps) => OwedInv'
    BY <2>2, OwedStep DEF IInv
  <2>4. NoForks(graph) => Chains'
    BY ChainsStep DEF IInv
  <2>5. OnceThrough(graph, Steps)' = OnceThrough(graph, Steps) /\ NoForks(graph)' = NoForks(graph)
    BY <2>1
  <2> QED BY <2>3, <2>4, <2>5, InvariantStep
<1>3. Inv => KeysUnique
  <2> SUFFICES ASSUME Inv PROVE KeysUnique
    OBVIOUS
  <2>1. graph \in Graphs
    BY DEF IInv, TypeOK
  <2>2. CASE OnceThrough(graph, Steps)
    <3>1. \A i \in Calls : inv[i].step \in Steps
      BY CallTyped, FieldsOf DEF IInv
    <3> QED BY <2>2, <3>1 DEF OwedInv, Once, KeysUnique
  <2>3. CASE NoForks(graph)
    BY <2>3 DEF Chains, KeysUnique
  <2> QED BY <2>1, <2>2, <2>3
<1> QED BY <1>1, <1>2, <1>3, PTL DEF Spec
=============================================================================
