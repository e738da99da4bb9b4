------------------------- MODULE AgentRequestsProofs -------------------------
(***************************************************************************)
(* Theorems about AgentRequests, for any calls and sockets and every value *)
(* of the bounds.                                                          *)
(*                                                                         *)
(* The inductive invariant adds to the properties what they rest on.       *)
(* FreshCopies: the copy of a call that is not marked old is the column as *)
(* it stands. Untouched and Carried: no message speaks of a call that has  *)
(* not been made, and an answer that reports success follows the deed.     *)
(* RemoteAccounted: while the only start or stop that has been carried out *)
(* and not yet recorded is one with a fresh copy, the machine is as it     *)
(* says; with several, each write makes the others' copies old.            *)
(***************************************************************************)
EXTENDS AgentRequests, TLAPS

Untouched ==
  \A c \in Calls : call[c].pc = "new" =>
    /\ ~call[c].ran
    /\ \A a \in asks : a.call # c
    /\ \A a \in answers : a.call # c

Carried ==
  /\ \A a \in answers : a.ok => call[a.call].ran
  /\ \A c \in Calls : call[c].pc = "waiting" => call[c].kind \in Requests
  /\ \A c \in Calls : call[c].pc = "writing" =>
       /\ call[c].kind \in Rewrites
       /\ call[c].kind \in {"start", "stop"} => call[c].ran

FreshCopies == \A c \in Calls : c \in Open /\ ~call[c].old => call[c].copy = meta

\* A start or stop that has been carried out and may still be recorded.
Owed(c) == c \in Open /\ Unknown(c)

RemoteAccounted ==
  ~overwrote /\ ~missed =>
    /\ (\A c \in Calls : ~Owed(c)) => meta.active = remote
    /\ \A c \in Calls : Owed(c) /\ ~call[c].old /\ (\A d \in Calls \ {c} : ~Owed(d))
         => remote = (call[c].kind = "start")

IInv ==
  /\ TypeOK /\ Untouched /\ Carried /\ FreshCopies
  /\ RemoteAccounted /\ AdminConfigKept

-----------------------------------------------------------------------------
(* What a step does to the record of a call                                *)

\* All but where the call stands.
Keeps(r, v) == /\ v.kind = r.kind /\ v.copy = r.copy /\ v.old = r.old
               /\ v.ran = r.ran /\ v.clears = r.clears

LEMMA PcUpdate ==
  ASSUME NEW r \in CallRecords, NEW p \in Pcs
  PROVE  /\ [r EXCEPT !.pc = p] \in CallRecords
         /\ [r EXCEPT !.pc = p].pc = p
         /\ Keeps(r, [r EXCEPT !.pc = p])
  BY DEF CallRecords, Keeps

LEMMA OldUpdate ==
  ASSUME NEW r \in CallRecords
  PROVE  /\ [r EXCEPT !.old = TRUE] \in CallRecords
         /\ [r EXCEPT !.old = TRUE].old
         /\ [r EXCEPT !.old = TRUE].pc = r.pc
         /\ [r EXCEPT !.old = TRUE].kind = r.kind
         /\ [r EXCEPT !.old = TRUE].ran = r.ran
  BY DEF CallRecords

LEMMA RanUpdate ==
  ASSUME NEW r \in CallRecords, NEW b \in BOOLEAN
  PROVE  /\ [r EXCEPT !.ran = b] \in CallRecords
         /\ [r EXCEPT !.ran = b].ran = b
         /\ [r EXCEPT !.ran = b].pc = r.pc
         /\ [r EXCEPT !.ran = b].kind = r.kind
         /\ [r EXCEPT !.ran = b].old = r.old
         /\ [r EXCEPT !.ran = b].copy = r.copy
  BY DEF CallRecords

LEMMA CallUpdate ==
  ASSUME NEW f \in [Calls -> CallRecords], NEW c \in Calls, NEW v \in CallRecords
  PROVE  /\ [f EXCEPT ![c] = v] \in [Calls -> CallRecords]
         /\ \A d \in Calls : [f EXCEPT ![c] = v][d] = IF d = c THEN v ELSE f[d]
  OBVIOUS

\* A call goes on, and nothing else of any call changes.
Goes(c, p) ==
  /\ call' \in [Calls -> CallRecords]
  /\ call'[c].pc = p /\ Keeps(call[c], call'[c])
  /\ \A d \in Calls \ {c} : call'[d] = call[d]

LEMMA PcGoes ==
  ASSUME call \in [Calls -> CallRecords], NEW c \in Calls, NEW p \in Pcs,
         call' = [call EXCEPT ![c].pc = p]
  PROVE  Goes(c, p)
<1>1. /\ [call[c] EXCEPT !.pc = p] \in CallRecords
      /\ [call[c] EXCEPT !.pc = p].pc = p
      /\ Keeps(call[c], [call[c] EXCEPT !.pc = p])
  BY PcUpdate
<1>2. call' = [call EXCEPT ![c] = [call[c] EXCEPT !.pc = p]]
  OBVIOUS
<1>3. /\ call' \in [Calls -> CallRecords]
      /\ \A d \in Calls : call'[d] = IF d = c THEN [call[c] EXCEPT !.pc = p] ELSE call[d]
  BY <1>1, <1>2, CallUpdate
<1>. QED
  BY <1>1, <1>3 DEF Goes

LEMMA ContinuedType ==
  ASSUME NEW kind \in Requests
  PROVE  /\ Continued(kind) \in {"writing", "finding", "done"}
         /\ Continued(kind) = "writing" <=> kind \in {"start", "stop"}
  BY DEF Continued, Requests

LEMMA Columned ==
  ASSUME TypeOK, NEW c \in Calls
  PROVE  Written(c) \in Columns
<1>1. call[c].copy \in Columns
  BY DEF TypeOK, CallRecords
<1>2. \A m \in Columns : mergeConnectMetadata(m) \in Columns
  BY DEF mergeConnectMetadata, Columns
<1>3. \A m \in Columns, b \in BOOLEAN : [m EXCEPT !.active = b] \in Columns
  BY DEF Columns
<1>4. \A m \in Columns : [m EXCEPT !.admin = IF call[c].clears THEN "none" ELSE c] \in Columns
  BY DEF Columns
<1>5. Active(call[c].kind) \in BOOLEAN
  BY DEF Active
<1>. QED
  BY <1>1, <1>2, <1>3, <1>4, <1>5 DEF Written

-----------------------------------------------------------------------------
(* The initial states *)

LEMMA InitHolds == Init => IInv
<1>. SUFFICES ASSUME Init PROVE IInv
  OBVIOUS
<1>1. NewCall \in CallRecords /\ NewCall.copy \in Columns /\ NewCall.pc = "new"
      /\ ~NewCall.ran /\ NewCall.copy.admin = "none" /\ NewCall.copy.active = FALSE
  BY DEF NewCall, CallRecords, Columns, Kinds, Requests, Rewrites, Pcs
<1>2. \A c \in Calls : call[c] = NewCall
  BY DEF Init
<1>3. TypeOK
  <2>1. call \in [Calls -> CallRecords]
    BY <1>1 DEF Init
  <2>2. waiters = {c \in Calls : call[c].pc = "waiting"}
    BY <1>1, <1>2 DEF Init
  <2>3. faults \in 0..MaxFaults /\ restarts \in 0..MaxRestarts /\ copies \in Nat
    BY BoundsAssumption DEF Init
  <2>4. /\ remote \in BOOLEAN /\ meta \in Columns /\ saved \in Calls \cup {NoCall}
        /\ overwrote \in BOOLEAN /\ missed \in BOOLEAN
    BY <1>1 DEF Init
  <2>5. /\ room \subseteq Sockets /\ asks \subseteq [call : Calls, sock : Sockets]
        /\ answers \subseteq [call : Calls, sock : room, ok : BOOLEAN]
    BY DEF Init
  <2>. QED
    BY <2>1, <2>2, <2>3, <2>4, <2>5 DEF TypeOK
<1>4. \A c \in Calls : c \notin Open
  BY <1>1, <1>2 DEF Open
<1>5. Untouched /\ Carried
  BY <1>1, <1>2 DEF Init, Untouched, Carried
<1>6. FreshCopies
  BY <1>4 DEF FreshCopies
<1>7. RemoteAccounted
  BY <1>1, <1>4 DEF Init, RemoteAccounted, Owed
<1>8. AdminConfigKept
  BY <1>1, NamesAssumption DEF Init, AdminConfigKept
<1>. QED
  BY <1>3, <1>5, <1>6, <1>7, <1>8 DEF IInv

-----------------------------------------------------------------------------
(* The steps *)

LEMMA RequestStep ==
  ASSUME IInv, NEW c \in Calls, NEW kind \in Kinds, Request(c, kind)
  PROVE  IInv'
<1>. DEFINE v == [call[c] EXCEPT !.kind = kind, !.pc = "waiting", !.copy = meta]
<1>1. TypeOK /\ call \in [Calls -> CallRecords] /\ call[c] \in CallRecords /\ meta \in Columns
  BY DEF IInv, TypeOK
<1>2. v \in CallRecords /\ v.pc = "waiting" /\ v.kind = kind /\ v.copy = meta /\ v.ran = call[c].ran
  <2>1. /\ [call[c] EXCEPT !.kind = kind, !.pc = "waiting", !.copy = meta] \in CallRecords
        /\ [call[c] EXCEPT !.kind = kind, !.pc = "waiting", !.copy = meta].pc = "waiting"
        /\ [call[c] EXCEPT !.kind = kind, !.pc = "waiting", !.copy = meta].kind = kind
        /\ [call[c] EXCEPT !.kind = kind, !.pc = "waiting", !.copy = meta].copy = meta
        /\ [call[c] EXCEPT !.kind = kind, !.pc = "waiting", !.copy = meta].ran = call[c].ran
    BY <1>1 DEF CallRecords, Pcs
  <2>. QED
    BY <2>1, Zenon
<1>3. call' = [call EXCEPT ![c] = v]
  BY DEF Request
<1>. HIDE DEF v
<1>4. /\ call' \in [Calls -> CallRecords]
      /\ \A d \in Calls : call'[d] = IF d = c THEN v ELSE call[d]
  BY <1>1, <1>2, <1>3, CallUpdate
<1>5. /\ call[c].pc = "new" /\ kind \in Requests /\ ~call[c].ran
      /\ waiters' = waiters \cup {c}
      /\ asks' = asks \cup {[call |-> c, sock |-> s] : s \in room}
      /\ UNCHANGED <<room, answers, remote, meta, copies, saved, overwrote, missed, faults, restarts>>
  BY DEF Request, IInv, Untouched, db, ghost
<1>6. TypeOK'
  <2>1. waiters' = {d \in Calls : call'[d].pc = "waiting"}
    BY <1>1, <1>2, <1>4, <1>5 DEF TypeOK
  <2>2. asks' \subseteq [call : Calls, sock : Sockets]
    BY <1>1, <1>5 DEF TypeOK
  <2>. QED
    BY <1>1, <1>4, <1>5, <2>1, <2>2 DEF TypeOK
<1>7. Untouched'
  BY <1>2, <1>4, <1>5 DEF IInv, Untouched
<1>8. Carried'
  BY <1>1, <1>2, <1>4, <1>5 DEF IInv, Carried, TypeOK
<1>9. FreshCopies'
  BY <1>2, <1>4, <1>5 DEF IInv, FreshCopies, Open
<1>10. RemoteAccounted'
  <2>1. \A d \in Calls : Owed(d)' <=> Owed(d)
    BY <1>2, <1>4, <1>5 DEF Owed, Open, Unknown
  <2>2. \A d \in Calls : Owed(d) => call'[d] = call[d]
    BY <1>4, <1>5 DEF Owed, Open, Unknown
  <2>. QED
    BY <1>5, <2>1, <2>2 DEF IInv, RemoteAccounted
<1>11. AdminConfigKept'
  BY <1>5 DEF IInv, AdminConfigKept
<1>. QED
  BY <1>6, <1>7, <1>8, <1>9, <1>10, <1>11 DEF IInv

LEMMA RewriteStep ==
  ASSUME IInv, NEW c \in Calls, NEW kind \in Kinds, Rewrite(c, kind)
  PROVE  IInv'
<1>. PICK clears \in BOOLEAN :
       call' = [call EXCEPT ![c] = [@ EXCEPT !.kind = kind, !.pc = "writing", !.copy = meta,
                                             !.clears = clears]]
  BY DEF Rewrite
<1>. DEFINE v == [call[c] EXCEPT !.kind = kind, !.pc = "writing", !.copy = meta, !.clears = clears]
<1>1. TypeOK /\ call \in [Calls -> CallRecords] /\ call[c] \in CallRecords /\ meta \in Columns
  BY DEF IInv, TypeOK
<1>2. v \in CallRecords /\ v.pc = "writing" /\ v.kind = kind /\ v.copy = meta
  <2>1. /\ [call[c] EXCEPT !.kind = kind, !.pc = "writing", !.copy = meta, !.clears = clears]
             \in CallRecords
        /\ [call[c] EXCEPT !.kind = kind, !.pc = "writing", !.copy = meta,
                           !.clears = clears].pc = "writing"
        /\ [call[c] EXCEPT !.kind = kind, !.pc = "writing", !.copy = meta,
                           !.clears = clears].kind = kind
        /\ [call[c] EXCEPT !.kind = kind, !.pc = "writing", !.copy = meta,
                           !.clears = clears].copy = meta
    BY <1>1 DEF CallRecords, Pcs
  <2>. QED
    BY <2>1, Zenon
<1>3. call' = [call EXCEPT ![c] = v]
  OBVIOUS
<1>. HIDE DEF v
<1>4. /\ call' \in [Calls -> CallRecords]
      /\ \A d \in Calls : call'[d] = IF d = c THEN v ELSE call[d]
  BY <1>1, <1>2, <1>3, CallUpdate
<1>5. /\ call[c].pc = "new" /\ kind \in Rewrites \ Requests
      /\ UNCHANGED <<waiters, room, asks, answers, remote, meta, copies, saved, overwrote,
                     missed, faults, restarts>>
  BY DEF Rewrite, db, ghost, net
<1>k. kind \notin {"start", "stop"}
  BY <1>5 DEF Requests
<1>6. TypeOK'
  <2>1. waiters' = {d \in Calls : call'[d].pc = "waiting"}
    BY <1>1, <1>2, <1>4, <1>5 DEF TypeOK
  <2>. QED
    BY <1>1, <1>4, <1>5, <2>1 DEF TypeOK
<1>7. Untouched'
  BY <1>2, <1>4, <1>5 DEF IInv, Untouched
<1>8. Carried'
  <2>1. \A a \in answers : a.call # c
    BY <1>5 DEF IInv, Untouched
  <2>2. \A a \in answers : a.call \in Calls
    BY <1>1 DEF TypeOK
  <2>. QED
    BY <1>2, <1>4, <1>5, <1>k, <2>1, <2>2 DEF IInv, Carried
<1>9. FreshCopies'
  BY <1>2, <1>4, <1>5 DEF IInv, FreshCopies, Open
<1>10. RemoteAccounted'
  <2>1. \A d \in Calls : Owed(d)' <=> Owed(d)
    BY <1>2, <1>4, <1>5, <1>k DEF Owed, Open, Unknown
  <2>2. \A d \in Calls : Owed(d) => call'[d] = call[d]
    BY <1>4, <1>5 DEF Owed, Open, Unknown
  <2>. QED
    BY <1>5, <2>1, <2>2 DEF IInv, RemoteAccounted
<1>11. AdminConfigKept'
  BY <1>5 DEF IInv, AdminConfigKept
<1>. QED
  BY <1>6, <1>7, <1>8, <1>9, <1>10, <1>11 DEF IInv

\* What a step of one call preserves if it only goes on: the columns stay, and
\* a deed that will not be recorded is noted in missed.
LEMMA GoingOn ==
  ASSUME IInv, NEW c \in Calls, NEW p \in Pcs \ {"new"}, Goes(c, p),
         p = "waiting" => call[c].pc = "waiting",
         p = "writing" => /\ call[c].pc = "waiting"
                          /\ call[c].kind \in {"start", "stop"} => call[c].ran
                          /\ call[c].kind \in Rewrites,
         asks' \subseteq asks, answers' \subseteq answers,
         UNCHANGED <<remote, meta, saved, overwrote>>,
         missed' \/ ((missed' <=> missed) /\ (Owed(c) => p = "writing"))
  PROVE  Untouched' /\ Carried' /\ FreshCopies' /\ RemoteAccounted' /\ AdminConfigKept'
<1>1. /\ call'[c].pc = p /\ Keeps(call[c], call'[c])
      /\ \A d \in Calls \ {c} : call'[d] = call[d]
  BY DEF Goes
<1>2. \A a \in answers : a.call \in Calls
  BY DEF IInv, TypeOK
<1>3. Untouched'
  BY <1>1 DEF IInv, Untouched
<1>4. Carried'
  BY <1>1, <1>2 DEF IInv, Carried, Keeps
<1>5. \A d \in Calls : /\ (d \in Open)' => d \in Open
                       /\ Keeps(call[d], call'[d])
  BY <1>1 DEF Open, Keeps
<1>6. FreshCopies'
  BY <1>5 DEF IInv, FreshCopies, Keeps
<1>7. AdminConfigKept'
  BY DEF IInv, AdminConfigKept
<1>8. RemoteAccounted'
  <2>. SUFFICES ASSUME ~overwrote', ~missed'
                PROVE  /\ (\A d \in Calls : ~Owed(d)') => meta'.active = remote'
                       /\ \A d \in Calls : /\ Owed(d)' /\ ~call'[d].old
                                           /\ \A e \in Calls \ {d} : ~Owed(e)'
                            => remote' = (call'[d].kind = "start")
    BY DEF RemoteAccounted
  <2>1. \A d \in Calls : Owed(d)' => Owed(d)
    BY <1>5 DEF Owed, Unknown, Keeps
  <2>2. \A d \in Calls : Owed(d) => Owed(d)'
    <3>. SUFFICES ASSUME NEW d \in Calls, Owed(d) PROVE Owed(d)'
      OBVIOUS
    <3>1. CASE d = c
      BY <1>1, <3>1 DEF Owed, Open, Unknown, Keeps
    <3>2. CASE d # c
      BY <1>1, <3>2 DEF Owed, Open, Unknown
    <3>. QED
      BY <3>1, <3>2
  <2>3. ~overwrote /\ ~missed
    OBVIOUS
  <2>. QED
    BY <1>5, <2>1, <2>2, <2>3 DEF IInv, RemoteAccounted, Keeps
<1>. QED
  BY <1>3, <1>4, <1>6, <1>7, <1>8

\* Messages may get lost; the calls stand still.
LEMMA StandingStill ==
  ASSUME IInv, asks' \subseteq asks, answers' \subseteq answers,
         UNCHANGED <<call, remote, meta, saved, overwrote, missed>>
  PROVE  Untouched' /\ Carried' /\ FreshCopies' /\ RemoteAccounted' /\ AdminConfigKept'
<1>1. Open' = Open /\ \A c \in Calls : Owed(c)' <=> Owed(c)
  BY DEF Open, Owed, Unknown
<1>2. Untouched' /\ Carried'
  BY DEF IInv, Untouched, Carried
<1>3. FreshCopies'
  BY <1>1 DEF IInv, FreshCopies
<1>4. RemoteAccounted'
  BY <1>1 DEF IInv, RemoteAccounted
<1>5. AdminConfigKept'
  BY DEF IInv, AdminConfigKept
<1>. QED
  BY <1>2, <1>3, <1>4, <1>5

LEMMA TimeoutStep ==
  ASSUME IInv, NEW c \in Calls, Timeout(c)
  PROVE  IInv'
<1>1. TypeOK /\ call \in [Calls -> CallRecords]
  BY DEF IInv, TypeOK
<1>2. /\ call[c].pc = "waiting" /\ waiters' = waiters \ {c}
      /\ call' = [call EXCEPT ![c].pc = "failed"]
      /\ missed' = (missed \/ Unknown(c))
      /\ UNCHANGED <<room, asks, answers, remote, meta, copies, saved, overwrote, faults, restarts>>
  BY DEF Timeout, MayTimeOut, net, db
<1>3. Goes(c, "failed")
  BY <1>1, <1>2, PcGoes DEF Pcs
<1>4. TypeOK'
  <2>1. waiters' = {d \in Calls : call'[d].pc = "waiting"}
    BY <1>1, <1>2, <1>3 DEF TypeOK, Goes
  <2>2. missed' \in BOOLEAN
    BY <1>2 DEF Unknown
  <2>. QED
    BY <1>1, <1>2, <1>3, <2>1, <2>2 DEF TypeOK, Goes
<1>5. Untouched' /\ Carried' /\ FreshCopies' /\ RemoteAccounted' /\ AdminConfigKept'
  <2>1. missed' \/ ((missed' <=> missed) /\ ~Owed(c))
    BY <1>2 DEF Owed
  <2>. QED
    BY <1>2, <1>3, <2>1, GoingOn DEF Pcs
<1>. QED
  BY <1>4, <1>5 DEF IInv

LEMMA ThrowsStep ==
  ASSUME IInv, NEW c \in Calls, Throws(c)
  PROVE  IInv'
<1>1. TypeOK /\ call \in [Calls -> CallRecords]
  BY DEF IInv, TypeOK
<1>2. /\ call[c].pc \in {"writing", "finding", "creating", "updating"}
      /\ faults < MaxFaults /\ faults' = faults + 1
      /\ call' = [call EXCEPT ![c].pc = "failed"]
      /\ missed' = (missed \/ Unknown(c))
      /\ UNCHANGED <<waiters, room, asks, answers, remote, meta, copies, saved, overwrote, restarts>>
  BY DEF Throws, net, db
<1>3. Goes(c, "failed")
  BY <1>1, <1>2, PcGoes DEF Pcs
<1>4. TypeOK'
  <2>1. waiters' = {d \in Calls : call'[d].pc = "waiting"}
    BY <1>1, <1>2, <1>3 DEF TypeOK, Goes
  <2>2. missed' \in BOOLEAN
    BY <1>2 DEF Unknown
  <2>3. faults' \in 0..MaxFaults
    BY <1>1, <1>2, BoundsAssumption DEF TypeOK
  <2>. QED
    BY <1>1, <1>2, <1>3, <2>1, <2>2, <2>3 DEF TypeOK, Goes
<1>5. Untouched' /\ Carried' /\ FreshCopies' /\ RemoteAccounted' /\ AdminConfigKept'
  <2>1. missed' \/ ((missed' <=> missed) /\ ~Owed(c))
    BY <1>2 DEF Owed
  <2>. QED
    BY <1>2, <1>3, <2>1, GoingOn DEF Pcs
<1>. QED
  BY <1>4, <1>5 DEF IInv

LEMMA SyncSteps ==
  ASSUME IInv, NEW c \in Calls, SyncFind(c) \/ SyncWrite(c)
  PROVE  IInv'
<1>1. TypeOK /\ call \in [Calls -> CallRecords]
  BY DEF IInv, TypeOK
<1>2. PICK p \in {"creating", "updating", "done"} :
        /\ call[c].pc \in {"finding", "creating", "updating"}
        /\ call' = [call EXCEPT ![c].pc = p]
        /\ copies' \in {copies, copies + 1}
        /\ UNCHANGED <<waiters, room, asks, answers, remote, meta, saved, overwrote, missed,
                       faults, restarts>>
  <2>1. CASE SyncFind(c)
    BY <2>1 DEF SyncFind, net, db, ghost
  <2>2. CASE SyncWrite(c)
    BY <1>1, <2>2 DEF SyncWrite, net, ghost, TypeOK
  <2>. QED
    BY <2>1, <2>2
<1>3. Goes(c, p)
  BY <1>1, <1>2, PcGoes DEF Pcs
<1>4. TypeOK'
  <2>1. waiters' = {d \in Calls : call'[d].pc = "waiting"}
    BY <1>1, <1>2, <1>3 DEF TypeOK, Goes
  <2>2. copies' \in Nat
    BY <1>1, <1>2 DEF TypeOK
  <2>. QED
    BY <1>1, <1>2, <1>3, <2>1, <2>2 DEF TypeOK, Goes
<1>5. Untouched' /\ Carried' /\ FreshCopies' /\ RemoteAccounted' /\ AdminConfigKept'
  <2>1. ~Owed(c)
    BY <1>2 DEF Owed, Open
  <2>. QED
    BY <1>2, <1>3, <2>1, GoingOn DEF Pcs
<1>. QED
  BY <1>4, <1>5 DEF IInv

LEMMA ResultStep ==
  ASSUME IInv, NEW a \in answers, Result(a)
  PROVE  IInv'
<1>. DEFINE c == a.call
<1>1. TypeOK /\ call \in [Calls -> CallRecords] /\ c \in Calls /\ a.ok \in BOOLEAN
  BY DEF IInv, TypeOK
<1>2. /\ answers' = answers \ {a}
      /\ UNCHANGED <<room, asks, remote, meta, copies, saved, overwrote, faults, restarts>>
  BY DEF Result, db
<1>3. CASE c \in waiters
  <2>. DEFINE p == IF a.ok THEN Continued(call[c].kind) ELSE "failed"
  <2>1. /\ waiters' = waiters \ {c} /\ call' = [call EXCEPT ![c].pc = p]
        /\ missed' = (missed \/ (~a.ok /\ Unknown(c)))
    BY <1>3 DEF Result
  <2>2. call[c].pc = "waiting" /\ call[c].kind \in Requests
    BY <1>1, <1>3 DEF TypeOK, IInv, Carried
  <2>3. /\ p \in {"writing", "finding", "done", "failed"}
        /\ p = "writing" => a.ok /\ call[c].kind \in {"start", "stop"}
        /\ a.ok /\ call[c].kind \in {"start", "stop"} => p = "writing"
    BY <2>2, ContinuedType
  <2>4. a.ok => call[c].ran
    BY DEF IInv, Carried
  <2>. HIDE DEF p
  <2>5. Goes(c, p)
    BY <1>1, <2>1, <2>3, PcGoes DEF Pcs
  <2>6. TypeOK'
    <3>1. waiters' = {d \in Calls : call'[d].pc = "waiting"}
      BY <1>1, <2>1, <2>3, <2>5 DEF TypeOK, Goes
    <3>2. missed' \in BOOLEAN
      BY <2>1 DEF Unknown
    <3>. QED
      BY <1>1, <1>2, <2>5, <3>1, <3>2 DEF TypeOK, Goes
  <2>7. Untouched' /\ Carried' /\ FreshCopies' /\ RemoteAccounted' /\ AdminConfigKept'
    <3>1. missed' \/ ((missed' <=> missed) /\ (Owed(c) => p = "writing"))
      BY <1>1, <2>1, <2>3 DEF Owed, Unknown
    <3>2. p = "writing" => /\ call[c].pc = "waiting"
                           /\ call[c].kind \in {"start", "stop"} => call[c].ran
                           /\ call[c].kind \in Rewrites
      BY <2>2, <2>3, <2>4 DEF Rewrites
    <3>. QED
      BY <1>1, <1>2, <2>3, <2>5, <3>1, <3>2, GoingOn DEF Pcs
  <2>. QED
    BY <2>6, <2>7 DEF IInv
<1>4. CASE c \notin waiters
  <2>1. UNCHANGED <<waiters, call, missed>>
    BY <1>4 DEF Result
  <2>2. TypeOK'
    BY <1>1, <1>2, <2>1 DEF TypeOK
  <2>. QED
    BY <1>2, <2>1, <2>2, StandingStill DEF IInv
<1>. QED
  BY <1>3, <1>4

LEMMA ConnectionSteps ==
  ASSUME IInv, NEW s \in Sockets, Connect(s) \/ Disconnect(s)
  PROVE  IInv'
<1>1. TypeOK
  BY DEF IInv
<1>2. /\ room' \subseteq Sockets /\ asks' \subseteq asks
      /\ answers' \subseteq answers /\ \A a \in answers' : a.sock \in room'
      /\ UNCHANGED <<call, waiters, remote, meta, copies, saved, overwrote, missed, faults, restarts>>
  <2>1. CASE Connect(s)
    BY <1>1, <2>1 DEF Connect, TypeOK, db, ghost
  <2>2. CASE Disconnect(s)
    BY <1>1, <2>2 DEF Disconnect, TypeOK, db, ghost
  <2>. QED
    BY <2>1, <2>2
<1>3. TypeOK'
  <2>1. answers' \subseteq [call : Calls, sock : room', ok : BOOLEAN]
    BY <1>1, <1>2 DEF TypeOK
  <2>. QED
    BY <1>1, <1>2, <2>1 DEF TypeOK
<1>. QED
  BY <1>2, <1>3, StandingStill DEF IInv

LEMMA CarryOutStep ==
  ASSUME IInv, NEW a \in asks, CarryOut(a)
  PROVE  IInv'
<1>. DEFINE c    == a.call
            does == call[c].kind \in {"start", "stop"}
<1>1. TypeOK /\ call \in [Calls -> CallRecords] /\ c \in Calls /\ a.sock \in Sockets
      /\ call[c] \in CallRecords
  BY DEF IInv, TypeOK
<1>2. PICK ok \in BOOLEAN :
        /\ answers' = IF a.sock \in room THEN answers \cup {[call |-> c, sock |-> a.sock, ok |-> ok]}
                      ELSE answers
        /\ remote' = IF ok /\ does THEN call[c].kind = "start" ELSE remote
        /\ call' = [call EXCEPT ![c].ran = @ \/ ok]
        /\ missed' = (missed \/ (ok /\ does /\ call[c].pc # "waiting"))
  BY DEF CarryOut
<1>3. /\ asks' = asks \ {a}
      /\ UNCHANGED <<waiters, room, meta, copies, saved, overwrote, faults, restarts>>
  BY DEF CarryOut, db
<1>. DEFINE b == call[c].ran \/ ok
<1>4. /\ call' \in [Calls -> CallRecords] /\ call'[c].ran = b
      /\ \A d \in Calls : /\ call'[d].pc = call[d].pc /\ call'[d].kind = call[d].kind
                          /\ call'[d].old = call[d].old /\ call'[d].copy = call[d].copy
                          /\ d # c => call'[d] = call[d]
  <2>1. b \in BOOLEAN
    BY <1>1 DEF CallRecords
  <2>2. call' = [call EXCEPT ![c] = [call[c] EXCEPT !.ran = b]]
    BY <1>2
  <2>. HIDE DEF b
  <2>3. /\ [call[c] EXCEPT !.ran = b] \in CallRecords
        /\ [call[c] EXCEPT !.ran = b].ran = b
        /\ [call[c] EXCEPT !.ran = b].pc = call[c].pc
        /\ [call[c] EXCEPT !.ran = b].kind = call[c].kind
        /\ [call[c] EXCEPT !.ran = b].old = call[c].old
        /\ [call[c] EXCEPT !.ran = b].copy = call[c].copy
    BY <1>1, <2>1, RanUpdate
  <2>4. /\ call' \in [Calls -> CallRecords]
        /\ \A d \in Calls : call'[d] = IF d = c THEN [call[c] EXCEPT !.ran = b] ELSE call[d]
    BY <1>1, <2>2, <2>3, CallUpdate
  <2>. QED
    BY <1>1, <2>3, <2>4
<1>5. Open' = Open
  BY <1>4 DEF Open
<1>6. call[c].pc # "new"
  BY <1>1 DEF IInv, Untouched
<1>. HIDE DEF c
<1>7. TypeOK'
  <2>1. waiters' = {d \in Calls : call'[d].pc = "waiting"}
    BY <1>1, <1>3, <1>4 DEF TypeOK
  <2>2. answers' \subseteq [call : Calls, sock : room', ok : BOOLEAN]
    BY <1>1, <1>2, <1>3 DEF TypeOK
  <2>3. remote' \in BOOLEAN /\ missed' \in BOOLEAN
    BY <1>1, <1>2 DEF TypeOK
  <2>. QED
    BY <1>1, <1>3, <1>4, <2>1, <2>2, <2>3 DEF TypeOK
<1>8. Untouched'
  BY <1>1, <1>2, <1>3, <1>4, <1>6 DEF IInv, Untouched
<1>9. Carried'
  <2>1. \A m \in answers' : m.ok => call'[m.call].ran
    <3>. SUFFICES ASSUME NEW m \in answers', m.ok PROVE call'[m.call].ran
      OBVIOUS
    <3>1. CASE m \in answers
      BY <1>1, <1>4, <3>1 DEF IInv, Carried, TypeOK
    <3>2. CASE m = [call |-> c, sock |-> a.sock, ok |-> ok]
      BY <1>4, <3>2
    <3>. QED
      BY <1>2, <3>1, <3>2
  <2>2. \A d \in Calls : call'[d].pc = "waiting" => call'[d].kind \in Requests
    BY <1>4 DEF IInv, Carried
  <2>3. \A d \in Calls : call'[d].pc = "writing" =>
          /\ call'[d].kind \in Rewrites
          /\ call'[d].kind \in {"start", "stop"} => call'[d].ran
    BY <1>4 DEF IInv, Carried
  <2>. QED
    BY <2>1, <2>2, <2>3 DEF Carried
<1>10. FreshCopies'
  BY <1>3, <1>4, <1>5 DEF IInv, FreshCopies
<1>11. AdminConfigKept'
  BY <1>3 DEF IInv, AdminConfigKept
<1>12. RemoteAccounted'
  <2>. SUFFICES ASSUME ~overwrote', ~missed'
                PROVE  /\ (\A d \in Calls : ~Owed(d)') => meta'.active = remote'
                       /\ \A d \in Calls : /\ Owed(d)' /\ ~call'[d].old
                                           /\ \A e \in Calls \ {d} : ~Owed(e)'
                            => remote' = (call'[d].kind = "start")
    BY DEF RemoteAccounted
  <2>1. ~overwrote /\ ~missed
    BY <1>2, <1>3
  <2>2. CASE ok /\ does
    <3>1. call[c].pc = "waiting" /\ remote' = (call[c].kind = "start")
      BY <1>2, <2>2
    <3>2. Owed(c)'
      BY <1>1, <1>4, <2>2, <3>1 DEF Owed, Open, Unknown, Rewrites
    <3>. QED
      BY <1>1, <1>4, <3>1, <3>2
  <2>3. CASE ~(ok /\ does)
    <3>1. remote' = remote /\ meta' = meta
      BY <1>2, <1>3, <2>3
    <3>2. \A d \in Calls : Owed(d)' <=> Owed(d)
      BY <1>4, <1>5, <2>3 DEF Owed, Unknown
    <3>. QED
      BY <1>4, <2>1, <3>1, <3>2 DEF IInv, RemoteAccounted
  <2>. QED
    BY <2>2, <2>3
<1>. QED
  BY <1>7, <1>8, <1>9, <1>10, <1>11, <1>12 DEF IInv

\* What a fresh copy writes.
LEMMA WrittenFields ==
  ASSUME TypeOK, NEW c \in Calls
  PROVE  /\ call[c].kind \in {"start", "stop"} =>
              /\ Written(c).active = (call[c].kind = "start")
              /\ Written(c).admin = call[c].copy.admin
         /\ call[c].kind \in {"edit", "wake", "report"} => Written(c).active = call[c].copy.active
         /\ call[c].kind = "edit" => Written(c).admin = IF call[c].clears THEN "none" ELSE c
         /\ call[c].kind = "wake" => Written(c).admin = call[c].copy.admin
         /\ call[c].kind = "report" => Written(c).admin = IF call[c].copy.admin \in Calls
                                                         THEN call[c].copy.admin ELSE "agent"
<1>1. call[c].copy \in Columns
  BY DEF TypeOK, CallRecords
<1>2. CASE call[c].kind \in {"start", "stop"}
  BY <1>1, <1>2 DEF Written, Active, Columns
<1>3. CASE call[c].kind = "edit"
  BY <1>1, <1>3 DEF Written, Columns
<1>4. CASE call[c].kind = "wake"
  BY <1>4 DEF Written
<1>5. CASE call[c].kind = "report"
  BY <1>1, <1>5 DEF Written, mergeConnectMetadata, Columns
<1>. QED
  BY <1>2, <1>3, <1>4, <1>5

LEMMA WriteStep ==
  ASSUME IInv, NEW c \in Calls, Write(c)
  PROVE  IInv'
<1>1. /\ TypeOK /\ call \in [Calls -> CallRecords]
      /\ call[c].pc = "writing"
      /\ call[c].kind \in {"start", "stop", "edit", "wake", "report"}
      /\ call[c].kind \in {"start", "stop"} => call[c].ran
  BY DEF IInv, TypeOK, Write, Carried, Rewrites
<1>2. /\ meta' = Written(c)
      /\ saved' = IF call[c].kind # "edit" THEN saved ELSE IF call[c].clears THEN NoCall ELSE c
      /\ overwrote' = (overwrote \/ call[c].old)
      /\ UNCHANGED <<waiters, room, asks, answers, remote, copies, missed, faults, restarts>>
  BY DEF Write, net
<1>3. call' = [d \in Calls |-> IF d = c THEN [call[c] EXCEPT !.pc = "done"]
                ELSE IF d \in Open THEN [call[d] EXCEPT !.old = TRUE] ELSE call[d]]
  BY DEF Write
<1>4. /\ call' \in [Calls -> CallRecords] /\ call'[c].pc = "done"
      /\ \A d \in Calls : /\ call'[d].ran = call[d].ran /\ call'[d].kind = call[d].kind
                          /\ d # c => call'[d].pc = call[d].pc
                          /\ d # c /\ d \in Open => call'[d].old
  <2>1. /\ [call[c] EXCEPT !.pc = "done"] \in CallRecords
        /\ [call[c] EXCEPT !.pc = "done"].pc = "done"
        /\ Keeps(call[c], [call[c] EXCEPT !.pc = "done"])
    BY <1>1, PcUpdate DEF Pcs
  <2>2. \A d \in Calls : /\ [call[d] EXCEPT !.old = TRUE] \in CallRecords
                         /\ [call[d] EXCEPT !.old = TRUE].old
                         /\ [call[d] EXCEPT !.old = TRUE].pc = call[d].pc
                         /\ [call[d] EXCEPT !.old = TRUE].kind = call[d].kind
                         /\ [call[d] EXCEPT !.old = TRUE].ran = call[d].ran
    BY <1>1, OldUpdate
  <2>. QED
    BY <1>1, <1>3, <2>1, <2>2 DEF Keeps
<1>5. c \in Open /\ ~(c \in Open)'
  BY <1>1, <1>4 DEF Open, Rewrites
<1>6. \A d \in Calls \ {c} : (d \in Open)' <=> d \in Open
  BY <1>4 DEF Open
<1>7. TypeOK'
  <2>1. waiters' = {d \in Calls : call'[d].pc = "waiting"}
    BY <1>1, <1>2, <1>4 DEF TypeOK
  <2>2. meta' \in Columns
    BY <1>1, <1>2, Columned
  <2>3. saved' \in Calls \cup {NoCall}
    BY <1>1, <1>2 DEF TypeOK
  <2>4. overwrote' \in BOOLEAN
    BY <1>1, <1>2 DEF TypeOK, CallRecords
  <2>. QED
    BY <1>1, <1>2, <1>4, <2>1, <2>2, <2>3, <2>4 DEF TypeOK
<1>8. Untouched' /\ Carried'
  <2>1. \A a \in answers : a.call \in Calls
    BY <1>1 DEF TypeOK
  <2>. QED
    BY <1>2, <1>4, <2>1 DEF IInv, Untouched, Carried
<1>9. FreshCopies'
  BY <1>4, <1>5, <1>6 DEF FreshCopies
<1>10. ~overwrote' => ~overwrote /\ ~call[c].old /\ call[c].copy = meta
  BY <1>2, <1>5 DEF IInv, FreshCopies
<1>11. AdminConfigKept'
  <2>. SUFFICES ASSUME ~overwrote'
                PROVE  IF saved' = NoCall THEN meta'.admin \notin Calls ELSE meta'.admin = saved'
    BY DEF AdminConfigKept
  <2>1. /\ call[c].copy = meta
        /\ IF saved = NoCall THEN meta.admin \notin Calls ELSE meta.admin = saved
    BY <1>10 DEF IInv, AdminConfigKept
  <2>2. saved \in Calls \cup {NoCall} /\ NoCall \notin Calls
        /\ "none" \notin Calls /\ "agent" \notin Calls
    BY <1>1, NamesAssumption DEF TypeOK
  <2>. QED
    BY <1>1, <1>2, <2>1, <2>2, WrittenFields
<1>12. RemoteAccounted'
  <2>. SUFFICES ASSUME ~overwrote', ~missed'
                PROVE  /\ (\A d \in Calls : ~Owed(d)') => meta'.active = remote'
                       /\ \A d \in Calls : /\ Owed(d)' /\ ~call'[d].old
                                           /\ \A e \in Calls \ {d} : ~Owed(e)'
                            => remote' = (call'[d].kind = "start")
    BY DEF RemoteAccounted
  <2>1. ~overwrote /\ ~missed /\ ~call[c].old /\ call[c].copy = meta
    BY <1>2, <1>10
  <2>2. \A d \in Calls : Owed(d)' <=> d # c /\ Owed(d)
    BY <1>4, <1>5, <1>6 DEF Owed, Unknown
  <2>3. \A d \in Calls : Owed(d)' => call'[d].old
    BY <1>4, <2>2 DEF Owed
  <2>4. ASSUME \A d \in Calls : ~Owed(d)' PROVE meta'.active = remote'
    <3>1. CASE call[c].kind \in {"start", "stop"}
      <4>1. Owed(c) /\ \A d \in Calls \ {c} : ~Owed(d)
        BY <1>1, <1>5, <2>2, <2>4, <3>1 DEF Owed, Unknown
      <4>2. remote = (call[c].kind = "start")
        BY <2>1, <4>1 DEF IInv, RemoteAccounted
      <4>. QED
        BY <1>1, <1>2, <3>1, <4>2, WrittenFields
    <3>2. CASE call[c].kind \in {"edit", "wake", "report"}
      <4>1. \A d \in Calls : ~Owed(d)
        BY <2>2, <2>4, <3>2 DEF Owed, Unknown
      <4>2. meta.active = remote
        BY <2>1, <4>1 DEF IInv, RemoteAccounted
      <4>. QED
        BY <1>1, <1>2, <2>1, <3>2, <4>2, WrittenFields
    <3>. QED
      BY <1>1, <3>1, <3>2
  <2>. QED
    BY <2>3, <2>4
<1>. QED
  BY <1>7, <1>8, <1>9, <1>11, <1>12 DEF IInv

\* After a restart no call is open any more; a deed of one that was is missed.
LEMMA RestartStep ==
  ASSUME IInv, Restart
  PROVE  IInv'
<1>1. TypeOK /\ call \in [Calls -> CallRecords]
  BY DEF IInv, TypeOK
<1>2. /\ room' = {} /\ answers' = {} /\ waiters' = {}
      /\ restarts < MaxRestarts /\ restarts' = restarts + 1
      /\ missed' = (missed \/ \E c \in Calls : call[c].pc \in {"waiting", "writing"} /\ Unknown(c))
      /\ UNCHANGED <<asks, remote, meta, copies, saved, overwrote, faults>>
  BY DEF Restart, db
<1>3. \A c \in Calls : call'[c] = IF call[c].pc \in {"new", "done"} THEN call[c]
                                  ELSE [call[c] EXCEPT !.pc = "failed"]
  BY DEF Restart
<1>4. \A c \in Calls : /\ call'[c] \in CallRecords
                       /\ Keeps(call[c], call'[c])
                       /\ call'[c].pc \in {"new", "done", "failed"}
                       /\ call'[c].pc = "new" <=> call[c].pc = "new"
  <2>. SUFFICES ASSUME NEW c \in Calls
                PROVE  /\ call'[c] \in CallRecords
                       /\ Keeps(call[c], call'[c])
                       /\ call'[c].pc \in {"new", "done", "failed"}
                       /\ call'[c].pc = "new" <=> call[c].pc = "new"
    OBVIOUS
  <2>1. /\ [call[c] EXCEPT !.pc = "failed"] \in CallRecords
        /\ [call[c] EXCEPT !.pc = "failed"].pc = "failed"
        /\ Keeps(call[c], [call[c] EXCEPT !.pc = "failed"])
    BY <1>1, PcUpdate DEF Pcs
  <2>2. call[c] \in CallRecords
    BY <1>1
  <2>3. CASE call[c].pc \in {"new", "done"}
    BY <1>3, <2>2, <2>3 DEF Keeps
  <2>4. CASE call[c].pc \notin {"new", "done"}
    <3>1. call'[c] = [call[c] EXCEPT !.pc = "failed"]
      BY <1>3, <2>4
    <3>2. call'[c].pc = "failed" /\ call'[c] \in CallRecords /\ Keeps(call[c], call'[c])
      BY <2>1, <3>1, Zenon
    <3>. QED
      BY <2>4, <3>2
  <2>. QED
    BY <2>3, <2>4
<1>5. call' \in [Calls -> CallRecords]
  <2>1. call' = [c \in Calls |-> call'[c]]
    BY DEF Restart
  <2>. QED
    BY <1>4, <2>1
<1>6. \A c \in Calls : ~(c \in Open)' /\ ~Owed(c)'
  BY <1>4 DEF Open, Owed
<1>7. TypeOK'
  <2>1. waiters' = {c \in Calls : call'[c].pc = "waiting"}
    BY <1>2, <1>4
  <2>2. restarts' \in 0..MaxRestarts /\ missed' \in BOOLEAN
    BY <1>1, <1>2, BoundsAssumption DEF TypeOK
  <2>. QED
    BY <1>1, <1>2, <1>5, <2>1, <2>2 DEF TypeOK
<1>8. Untouched' /\ Carried'
  BY <1>2, <1>4 DEF IInv, Untouched, Carried, Keeps
<1>9. FreshCopies'
  BY <1>6 DEF FreshCopies
<1>10. AdminConfigKept'
  BY <1>2 DEF IInv, AdminConfigKept
<1>11. RemoteAccounted'
  <2>1. ~missed' => ~missed /\ \A c \in Calls : ~Owed(c)
    BY <1>2 DEF Owed, Open
  <2>. QED
    BY <1>2, <1>6, <2>1 DEF IInv, RemoteAccounted
<1>. QED
  BY <1>7, <1>8, <1>9, <1>10, <1>11 DEF IInv

-----------------------------------------------------------------------------
(* The theorems                                                            *)

LEMMA StutteringStep ==
  ASSUME IInv, UNCHANGED vars
  PROVE  IInv'
<1>1. UNCHANGED <<call, waiters, room, asks, answers, remote, meta, copies, saved, overwrote,
                  missed, faults, restarts>>
  BY DEF vars, net, db, ghost
<1>2. \A c \in Calls : ((c \in Open)' <=> c \in Open) /\ (Owed(c)' <=> Owed(c))
  BY <1>1 DEF Owed, Open, Unknown
<1>3. TypeOK'
  BY <1>1 DEF IInv, TypeOK
<1>4. Untouched' /\ Carried'
  BY <1>1 DEF IInv, Untouched, Carried
<1>5. FreshCopies' /\ AdminConfigKept'
  BY <1>1, <1>2 DEF IInv, FreshCopies, AdminConfigKept
<1>6. RemoteAccounted'
  BY <1>1, <1>2 DEF IInv, RemoteAccounted
<1>. QED
  BY <1>3, <1>4, <1>5, <1>6 DEF IInv

LEMMA NextHolds == IInv /\ [Next]_vars => IInv'
<1>. SUFFICES ASSUME IInv, [Next]_vars PROVE IInv'
  OBVIOUS
<1>1. ASSUME NEW c \in Calls, NEW kind \in Kinds, Request(c, kind) PROVE IInv'
  BY <1>1, RequestStep
<1>2. ASSUME NEW c \in Calls, NEW kind \in Kinds, Rewrite(c, kind) PROVE IInv'
  BY <1>2, RewriteStep
<1>3. ASSUME NEW c \in Calls, Timeout(c) PROVE IInv'
  BY <1>3, TimeoutStep
<1>4. ASSUME NEW c \in Calls, Write(c) PROVE IInv'
  BY <1>4, WriteStep
<1>5. ASSUME NEW c \in Calls, SyncFind(c) \/ SyncWrite(c) PROVE IInv'
  BY <1>5, SyncSteps
<1>6. ASSUME NEW c \in Calls, Throws(c) PROVE IInv'
  BY <1>6, ThrowsStep
<1>7. ASSUME NEW a \in answers, Result(a) PROVE IInv'
  BY <1>7, ResultStep
<1>8. ASSUME NEW a \in asks, CarryOut(a) PROVE IInv'
  BY <1>8, CarryOutStep
<1>9. ASSUME NEW s \in Sockets, Connect(s) \/ Disconnect(s) PROVE IInv'
  BY <1>9, ConnectionSteps
<1>10. CASE Restart
  BY <1>10, RestartStep
<1>11. CASE UNCHANGED vars
  BY <1>11, StutteringStep
<1>. QED
  BY <1>1, <1>2, <1>3, <1>4, <1>5, <1>6, <1>7, <1>8, <1>9, <1>10, <1>11 DEF Next, CallStep

\* What the properties rest on holds in every state.
LEMMA IInvHolds == Spec => []IInv
<1>. QED
  BY InitHolds, NextHolds, PTL DEF Spec

\* Every variable has its type, and the registries hold the calls that wait and
\* no other (PendingRequestMap and the registries built on it).
THEOREM TypeCorrect == Spec => []TypeOK
<1>1. IInv => TypeOK
  BY DEF IInv
<1>. QED
  BY <1>1, IInvHolds, PTL

\* The administrator's remote access setting outlives what the agent reports
\* and what remote access is told to do (mergeConnectMetadata,
\* updateRemoteAccess), however many calls rewrite the metadata at a time,
\* until one of them writes back a copy another has replaced.
THEOREM AdminConfigIsKept == Spec => []AdminConfigKept
<1>1. IInv => AdminConfigKept
  BY DEF IInv
<1>. QED
  BY <1>1, IInvHolds, PTL

\* Once no start or stop is in progress rustdeskRemoteActive is what the
\* machine does (startAgentRemote, stopAgentRemote), unless a deed was never
\* heard of or a copy out of date was written back.
THEOREM RemoteIsTold == Spec => []RemoteTells
<1>1. IInv => RemoteTells
  <2>. SUFFICES ASSUME IInv, ~overwrote, ~missed,
                       \A c \in Open : call[c].kind \notin {"start", "stop"}
                PROVE  meta.active = remote
    BY DEF RemoteTells
  <2>1. \A c \in Calls : ~Owed(c)
    BY DEF Owed, Unknown
  <2>. QED
    BY <2>1 DEF IInv, RemoteAccounted
<1>. QED
  BY <1>1, IInvHolds, PTL
=============================================================================
