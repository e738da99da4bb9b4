------------------------ MODULE BrowserBridgeProofs ------------------------
(***************************************************************************)
(* Theorems about BrowserBridge, for every set of calls and recordings and *)
(* every value of the bounds.                                              *)
(*                                                                         *)
(* A step of a call is followed from the command queue of the agent to the *)
(* page and back (Alone): it is in one of these places and there once, and *)
(* its request goes out before the extension knows of it (RequestFirst).   *)
(* Everything that is on its way about a call carries the number the call  *)
(* was made under (Numbered), which is what an answer is told apart by.    *)
(* Until a save is given up there is one message about a save, and it is   *)
(* about the save that is waited for (OneSave).                            *)
(***************************************************************************)
EXTENDS BrowserBridge, TLAPS

Elems(s)   == {s[i] : i \in 1..Len(s)}
Has(s, S)  == \E i \in 1..Len(s) : s[i] \in S
Once(s, S) == \A i, j \in 1..Len(s) : s[i] \in S /\ s[j] \in S => i = j

-----------------------------------------------------------------------------
(* The invariant                                                           *)

CallPhases  == {"new", "waiting", "offline", "timeout", "answered", "failed", "gone"}
CallRecords == [phase : CallPhases, at : Ids, id : Ids, of : Jobs \cup {NoJob}]
HostRecords == [pipe_active : BOOLEAN, link : {"none", "trying", "handing", "reading"},
                writer : Nat, handed : Nat, lost : Nat]
JobPhases   == {"none", "tab", "saving", "ended", "givenUp", "gone"}
JobRecords  == [phase : JobPhases, script : Jobs \cup {NoJob}]

About(kinds, jobs) == [kind : kinds, id : Ids, of : jobs, ok : BOOLEAN]
PipeDown == About({"request"}, Calls)
PipeUp   == About({"response"}, Calls)
HostOut  == About({"request", "error"}, Calls) \cup About({"saved"}, Jobs)
HostIn   == About({"response"}, Calls) \cup About({"complete"}, Jobs)

TypeOK ==
  /\ call \in [Calls -> CallRecords] /\ now \in Ids
  /\ agent \in {"down", "listening", "serving"}
  /\ cmds \in Seq(Calls) /\ pending \in [Ids -> Calls \cup {NoJob}]
  /\ pipe \in [gen : Nat, down : Seq(PipeDown), up : Seq(PipeUp)]
  /\ host \in HostRecords
  /\ overtaken \in BOOLEAN /\ nativePort \in BOOLEAN
  /\ toChrome \in Seq(HostOut) /\ fromChrome \in Seq(HostIn)
  /\ job \in [Jobs -> JobRecords]
  /\ pendingRecordingSave \in Jobs \cup {NoJob} /\ timers \subseteq Jobs
  /\ faults \in 0..MaxFaults

\* Where the step of a call can be, from before the call to its answer.
IsNew(c)  == call[c].phase = "new"
InCmds(c) == Has(cmds, {c})
InDown(c) == Has(pipe.down, StepMessages(c))
InTo(c)   == Has(toChrome, StepMessages(c))
InTab(c)  == job[c].phase \in {"tab", "saving"}
InFrom(c) == Has(fromChrome, StepMessages(c))
InUp(c)   == Has(pipe.up, StepMessages(c))

Alone(c) ==
  /\ IsNew(c)  => ~InCmds(c) /\ ~InDown(c) /\ ~InTo(c) /\ ~InTab(c) /\ ~InFrom(c) /\ ~InUp(c)
  /\ InCmds(c) => ~InDown(c) /\ ~InTo(c) /\ ~InTab(c) /\ ~InFrom(c) /\ ~InUp(c)
  /\ InDown(c) => ~InTo(c) /\ ~InTab(c) /\ ~InFrom(c) /\ ~InUp(c)
  /\ InTo(c)   => ~InTab(c) /\ ~InFrom(c) /\ ~InUp(c)
  /\ InTab(c)  => ~InFrom(c) /\ ~InUp(c)
  /\ InFrom(c) => ~InUp(c)

OnceEach(c) ==
  /\ Once(cmds, {c})
  /\ Once(pipe.down, StepMessages(c)) /\ Once(pipe.up, StepMessages(c))
  /\ Once(toChrome, StepMessages(c)) /\ Once(fromChrome, StepMessages(c))

\* The extension has not heard of a call whose request is still on its way.
RequestFirst(c) ==
  IsNew(c) \/ InCmds(c) \/ InDown(c) \/ Has(toChrome, About({"request"}, {c}))
    => job[c].phase = "none"

StepInv == \A c \in Calls : Alone(c) /\ OnceEach(c) /\ RequestFirst(c)

\* The number of a call is the time it was made at, and whatever waits for it or
\* is about it carries its number.
Asked(m) == m.kind \in {"request", "response", "error"} => m.id = call[m.of].id

OnTheWay == Elems(pipe.down) \cup Elems(pipe.up) \cup Elems(toChrome) \cup Elems(fromChrome)

Numbered ==
  /\ \A c \in Calls : call[c].id = call[c].at
  /\ \A i \in Ids : pending[i] # NoJob => ~IsNew(pending[i]) /\ call[pending[i]].id = i
  /\ \A c \in Calls : call[c].phase \in {"answered", "failed"} =>
       /\ call[c].of \in Calls /\ ~IsNew(call[c].of)
       /\ call[call[c].of].id = call[c].id
  /\ \A m \in OnTheWay : Asked(m)

\* The save that is waited for, and the one message about a save.
SaveMessages == About({"complete", "saved"}, Jobs)
NoneGivenUp  == \A k \in Jobs : job[k].phase # "givenUp"

SaveAwaited == pendingRecordingSave # NoJob => job[pendingRecordingSave].phase = "saving"

OneSave ==
  /\ Once(toChrome, SaveMessages) /\ Once(fromChrome, SaveMessages)
  /\ ~(Has(toChrome, SaveMessages) /\ Has(fromChrome, SaveMessages))
  /\ \A m \in Elems(toChrome) \cup Elems(fromChrome) :
       m \in SaveMessages => m.of = pendingRecordingSave
  /\ \A j \in Jobs : job[j].script \in {NoJob, j}

SaveInv == SaveAwaited /\ (NoneGivenUp => OneSave)

IInv == TypeOK /\ StepInv /\ Numbered /\ SaveInv

-----------------------------------------------------------------------------
(* Sequences: what Append and Tail do to the places of a set of elements    *)

LEMMA EmptyHasNone ==
  ASSUME NEW S
  PROVE  ~Has(<<>>, S) /\ Once(<<>>, S) /\ Elems(<<>>) = {}
  BY DEF Has, Once, Elems

LEMMA AppendPlaces ==
  ASSUME NEW T, NEW s \in Seq(T), NEW m \in T, NEW S
  PROVE  /\ Append(s, m) \in Seq(T)
         /\ Has(Append(s, m), S) <=> Has(s, S) \/ m \in S
         /\ Once(s, S) /\ ~(Has(s, S) /\ m \in S) => Once(Append(s, m), S)
<1>1. /\ Append(s, m) \in Seq(T) /\ Len(Append(s, m)) = Len(s) + 1 /\ Len(s) \in Nat
      /\ \A i \in 1..Len(s) : Append(s, m)[i] = s[i]
      /\ Append(s, m)[Len(s) + 1] = m
  OBVIOUS
<1>. DEFINE n == Len(s)
            t == Append(s, m)
<1>2. /\ Len(t) = n + 1 /\ n \in Nat /\ n = Len(s) /\ \A i \in 1..n : t[i] = s[i]
      /\ t[n + 1] = m /\ t = Append(s, m)
  BY <1>1
<1>. HIDE DEF n, t
<1>3. Has(t, S) <=> Has(s, S) \/ m \in S
  <2>1. 1..Len(t) = (1..n) \cup {n + 1}
    BY <1>2
  <2>. QED
    BY <1>2, <2>1 DEF Has
<1>4. Once(s, S) /\ ~(Has(s, S) /\ m \in S) => Once(t, S)
  <2>1. 1..Len(t) = (1..n) \cup {n + 1}
    BY <1>2
  <2>. QED
    BY <1>2, <2>1 DEF Has, Once
<1>. QED
  BY <1>1, <1>2, <1>3, <1>4

LEMMA TailPlaces ==
  ASSUME NEW T, NEW s \in Seq(T), s # <<>>, NEW S
  PROVE  /\ Tail(s) \in Seq(T) /\ Head(s) \in T
         /\ Has(Tail(s), S) => Has(s, S)
         /\ Head(s) \in S => Has(s, S)
         /\ Once(s, S) => Once(Tail(s), S)
         /\ Once(s, S) /\ Head(s) \in S => ~Has(Tail(s), S)
         /\ Head(s) \notin S => (Has(Tail(s), S) <=> Has(s, S))
<1>. DEFINE n == Len(s)
            t == Tail(s)
            h == Head(s)
<1>1. /\ n \in Nat /\ n >= 1 /\ t \in Seq(T) /\ h \in T /\ Len(t) = n - 1 /\ h = s[1]
      /\ \A i \in 1..(n - 1) : t[i] = s[i + 1]
  OBVIOUS
<1>2. n = Len(s) /\ t = Tail(s) /\ h = Head(s)
  OBVIOUS
<1>. HIDE DEF n, t, h
<1>3. \A i \in 1..Len(t) : i \in Nat /\ i + 1 \in 1..n /\ i + 1 # 1 /\ t[i] = s[i + 1]
  BY <1>1
<1>4. 1 \in 1..n
  BY <1>1
<1>5. \A i \in 1..n : i = 1 \/ (i - 1 \in 1..Len(t) /\ t[i - 1] = s[i])
  BY <1>1
<1>6. Has(t, S) => Has(s, S)
  BY <1>2, <1>3 DEF Has
<1>7. h \in S => Has(s, S)
  BY <1>1, <1>2, <1>4 DEF Has
<1>8. Once(s, S) => Once(t, S)
  <2>1. SUFFICES ASSUME Once(s, S), NEW i \in 1..Len(t), NEW j \in 1..Len(t), t[i] \in S, t[j] \in S
                 PROVE  i = j
    BY DEF Once
  <2>2. i + 1 = j + 1
    BY <1>2, <1>3, <2>1 DEF Once
  <2>. QED
    BY <1>3, <2>2
<1>9. Once(s, S) /\ h \in S => ~Has(t, S)
  BY <1>1, <1>2, <1>3, <1>4 DEF Once, Has
<1>10. h \notin S => (Has(t, S) <=> Has(s, S))
  BY <1>1, <1>2, <1>5, <1>6 DEF Has
<1>. QED
  BY <1>1, <1>2, <1>6, <1>7, <1>8, <1>9, <1>10

LEMMA ElemsOf ==
  ASSUME NEW T, NEW s \in Seq(T)
  PROVE  /\ Elems(s) \subseteq T
         /\ \A S : Has(s, S) <=> \E m \in Elems(s) : m \in S
         /\ \A m \in T : Elems(Append(s, m)) = Elems(s) \cup {m}
         /\ s # <<>> => Head(s) \in Elems(s) /\ Elems(Tail(s)) \subseteq Elems(s)
<1>1. \A i \in 1..Len(s) : s[i] \in T
  OBVIOUS
<1>2. Elems(s) \subseteq T
  BY <1>1 DEF Elems
<1>3. \A S : Has(s, S) <=> \E m \in Elems(s) : m \in S
  BY DEF Elems, Has
<1>4. ASSUME NEW m \in T PROVE Elems(Append(s, m)) = Elems(s) \cup {m}
  <2>1. /\ 1..Len(Append(s, m)) = (1..Len(s)) \cup {Len(s) + 1}
        /\ \A i \in 1..Len(s) : Append(s, m)[i] = s[i]
        /\ Append(s, m)[Len(s) + 1] = m
    OBVIOUS
  <2>. QED
    BY <2>1 DEF Elems
<1>5. ASSUME s # <<>> PROVE Head(s) \in Elems(s) /\ Elems(Tail(s)) \subseteq Elems(s)
  <2>1. /\ Head(s) = s[1] /\ 1 \in 1..Len(s)
        /\ \A i \in 1..Len(Tail(s)) : i + 1 \in 1..Len(s) /\ Tail(s)[i] = s[i + 1]
    BY <1>5
  <2>. QED
    BY <2>1 DEF Elems
<1>. QED
  BY <1>2, <1>3, <1>4, <1>5

-----------------------------------------------------------------------------
(* Type correctness *)

\* Telling some of those who wait changes nothing else.
LEMMA ToldCalls ==
  ASSUME TypeOK, NEW cs, NEW phase \in CallPhases \ {"new"}, NEW of \in Jobs \cup {NoJob}
  PROVE  /\ Told(cs, phase, of) \in [Calls -> CallRecords]
         /\ \A c \in Calls :
              /\ Told(cs, phase, of)[c].id = call[c].id /\ Told(cs, phase, of)[c].at = call[c].at
              /\ (Told(cs, phase, of)[c].phase = "new") <=> (call[c].phase = "new")
              /\ \/ Told(cs, phase, of)[c] = call[c]
                 \/ /\ c \in cs /\ call[c].phase = "waiting"
                    /\ Told(cs, phase, of)[c].phase = phase /\ Told(cs, phase, of)[c].of = of
<1>1. ASSUME NEW c \in Calls PROVE call[c] \in CallRecords
  BY <1>1 DEF TypeOK
<1>2. ASSUME NEW r \in CallRecords
      PROVE  /\ [r EXCEPT !.phase = phase, !.of = of] \in CallRecords
             /\ [r EXCEPT !.phase = phase, !.of = of].phase = phase
             /\ [r EXCEPT !.phase = phase, !.of = of].of = of
             /\ [r EXCEPT !.phase = phase, !.of = of].id = r.id
             /\ [r EXCEPT !.phase = phase, !.of = of].at = r.at
  BY DEF CallRecords
<1>3. ASSUME NEW c \in Calls
      PROVE  \/ Told(cs, phase, of)[c] = call[c]
             \/ /\ c \in cs /\ call[c].phase = "waiting"
                /\ Told(cs, phase, of)[c] = [call[c] EXCEPT !.phase = phase, !.of = of]
  BY DEF Told
<1>. HIDE DEF CallRecords, CallPhases
<1>4. \A c \in Calls : Told(cs, phase, of)[c] \in CallRecords
  BY <1>1, <1>2, <1>3
<1>5. Told(cs, phase, of) \in [Calls -> CallRecords]
  <2>1. Told(cs, phase, of) = [c \in Calls |-> Told(cs, phase, of)[c]]
    BY DEF Told
  <2>. QED
    BY <1>4, <2>1
<1>6. ASSUME NEW c \in Calls
      PROVE  /\ Told(cs, phase, of)[c].id = call[c].id /\ Told(cs, phase, of)[c].at = call[c].at
             /\ (Told(cs, phase, of)[c].phase = "new") <=> (call[c].phase = "new")
             /\ \/ Told(cs, phase, of)[c] = call[c]
                \/ /\ c \in cs /\ call[c].phase = "waiting"
                   /\ Told(cs, phase, of)[c].phase = phase /\ Told(cs, phase, of)[c].of = of
  <2>1. CASE Told(cs, phase, of)[c] = call[c]
    BY <2>1
  <2>2. CASE /\ c \in cs /\ call[c].phase = "waiting"
             /\ Told(cs, phase, of)[c] = [call[c] EXCEPT !.phase = phase, !.of = of]
    <3>. DEFINE v == [call[c] EXCEPT !.phase = phase, !.of = of]
    <3>1. /\ v.phase = phase /\ v.of = of /\ v.id = call[c].id /\ v.at = call[c].at
      BY <1>1, <1>2
    <3>2. Told(cs, phase, of)[c] = v /\ call[c].phase # "new" /\ phase # "new"
      BY <2>2
    <3>. HIDE DEF v
    <3>. QED
      BY <2>2, <3>1, <3>2
  <2>. QED
    BY <1>3, <2>1, <2>2
<1>7. \A c \in Calls :
        /\ Told(cs, phase, of)[c].id = call[c].id /\ Told(cs, phase, of)[c].at = call[c].at
        /\ (Told(cs, phase, of)[c].phase = "new") <=> (call[c].phase = "new")
        /\ \/ Told(cs, phase, of)[c] = call[c]
           \/ /\ c \in cs /\ call[c].phase = "waiting"
              /\ Told(cs, phase, of)[c].phase = phase /\ Told(cs, phase, of)[c].of = of
  BY <1>6
<1>. QED
  BY <1>5, <1>7

LEMMA MessagesTyped ==
  ASSUME NEW id \in Ids, NEW of \in Jobs, NEW ok \in BOOLEAN
  PROVE  /\ Message("saved", id, of, ok) \in HostOut /\ Message("complete", id, of, ok) \in HostIn
         /\ of \in Calls => /\ Message("request", id, of, ok) \in PipeDown
                            /\ Message("error", id, of, ok) \in HostOut
                            /\ Message("response", id, of, ok) \in HostIn
  BY DEF Message, PipeDown, HostOut, HostIn, About

LEMMA FieldsOfMessage ==
  ASSUME NEW kind, NEW id, NEW of, NEW ok
  PROVE  /\ Message(kind, id, of, ok).kind = kind /\ Message(kind, id, of, ok).id = id
         /\ Message(kind, id, of, ok).of = of /\ Message(kind, id, of, ok).ok = ok
  BY DEF Message

LEMMA MessageFields ==
  /\ \A m \in PipeDown : m.kind = "request" /\ m.id \in Ids /\ m.of \in Calls /\ m.ok \in BOOLEAN
  /\ \A m \in PipeUp : m.kind = "response" /\ m.id \in Ids /\ m.of \in Calls /\ m.ok \in BOOLEAN
  /\ \A m \in HostOut : /\ m.id \in Ids /\ m.ok \in BOOLEAN
                        /\ \/ m.kind \in {"request", "error"} /\ m.of \in Calls
                           \/ m.kind = "saved" /\ m.of \in Jobs
  /\ \A m \in HostIn : /\ m.id \in Ids /\ m.ok \in BOOLEAN
                       /\ \/ m.kind = "response" /\ m.of \in Calls
                          \/ m.kind = "complete" /\ m.of \in Jobs
  /\ PipeDown \subseteq HostOut
  /\ \A m \in HostIn : m.kind = "response" => m \in PipeUp
  BY DEF PipeDown, PipeUp, HostOut, HostIn, About

LEMMA TypeInit == Init => TypeOK
<1>. SUFFICES ASSUME Init PROVE TypeOK
  OBVIOUS
<1>1. now \in Ids /\ faults \in 0..MaxFaults
  BY BoundsAssumption DEF Init, Ids
<1>2. NewCall \in CallRecords /\ NewHost \in HostRecords /\ NewJob \in JobRecords
  BY BoundsAssumption
     DEF NewCall, CallRecords, CallPhases, NewHost, HostRecords, NewJob, JobRecords, JobPhases, Ids
<1>3. /\ call \in [Calls -> CallRecords] /\ job \in [Jobs -> JobRecords] /\ host \in HostRecords
      /\ pending \in [Ids -> Calls \cup {NoJob}]
  BY <1>2 DEF Init, NoneAwaited
<1>4. /\ cmds \in Seq(Calls) /\ toChrome \in Seq(HostOut) /\ fromChrome \in Seq(HostIn)
      /\ pipe \in [gen : Nat, down : Seq(PipeDown), up : Seq(PipeUp)]
  BY DEF Init
<1>. QED
  BY <1>1, <1>3, <1>4 DEF Init, TypeOK

LEMMA NewJobPhase ==
  ASSUME NEW f \in [Jobs -> JobRecords], NEW j \in Jobs, NEW phase \in JobPhases
  PROVE  /\ [f EXCEPT ![j].phase = phase] \in [Jobs -> JobRecords]
         /\ \A k \in Jobs \ {j} : [f EXCEPT ![j].phase = phase][k] = f[k]
         /\ [f EXCEPT ![j].phase = phase][j].phase = phase
         /\ [f EXCEPT ![j].phase = phase][j].script = f[j].script
  BY DEF JobRecords

LEMMA ResponsesTyped ==
  ASSUME TypeOK, NEW j \in Jobs, NEW ok \in BOOLEAN
  PROVE  /\ Responses(j, ok) \in Seq(HostIn)
         /\ \/ j \in Calls /\ Responses(j, ok) = Append(fromChrome, Message("response", call[j].id, j, ok))
            \/ Responses(j, ok) = fromChrome
<1>1. ASSUME j \in Calls PROVE Message("response", call[j].id, j, ok) \in HostIn
  <2>1. call[j].id \in Ids
    BY <1>1 DEF TypeOK, CallRecords
  <2>. QED
    BY <1>1, <2>1, MessagesTyped
<1>2. fromChrome \in Seq(HostIn)
  BY DEF TypeOK
<1>3. j \in Calls => Append(fromChrome, Message("response", call[j].id, j, ok)) \in Seq(HostIn)
  BY <1>1, <1>2, AppendPlaces
<1>. QED
  BY <1>2, <1>3 DEF Responses

\* The pipe is a record whose two directions change one at a time.
LEMMA PipeUpdates ==
  ASSUME NEW p \in [gen : Nat, down : Seq(PipeDown), up : Seq(PipeUp)],
         NEW d \in Seq(PipeDown), NEW u \in Seq(PipeUp)
  PROVE  /\ p.gen \in Nat /\ p.down \in Seq(PipeDown) /\ p.up \in Seq(PipeUp)
         /\ [p EXCEPT !.down = d] \in [gen : Nat, down : Seq(PipeDown), up : Seq(PipeUp)]
         /\ [p EXCEPT !.down = d].down = d /\ [p EXCEPT !.down = d].up = p.up
         /\ [p EXCEPT !.up = u] \in [gen : Nat, down : Seq(PipeDown), up : Seq(PipeUp)]
         /\ [p EXCEPT !.up = u].up = u /\ [p EXCEPT !.up = u].down = p.down
  OBVIOUS

\* The steps by what they do to the state the invariant speaks of: each lemma
\* says what is typed afterwards and what the channels hold.
LEMMA ExecuteDoes ==
  ASSUME TypeOK, NEW c \in Calls, Execute(c)
  PROVE  /\ call[c].phase = "new" /\ call' \in [Calls -> CallRecords] /\ now' \in Ids
         /\ \A d \in Calls \ {c} : call'[d] = call[d]
         /\ call'[c].phase \in {"waiting", "offline"} /\ call'[c].id = call'[c].at
         /\ cmds' \in Seq(Calls)
         /\ cmds' = Append(cmds, c) \/ cmds' = cmds
         /\ UNCHANGED <<agent, pending, pipe, host, overtaken, nativePort, toChrome, fromChrome,
                        job, pendingRecordingSave, timers, faults>>
<1>1. now' \in Ids
  BY BoundsAssumption DEF Execute, TypeOK, Ids
<1>. DEFINE v == [NewCall EXCEPT !.phase = IF agent = "serving" THEN "waiting" ELSE "offline",
                                 !.at = now', !.id = requestId]
<1>2. v \in CallRecords /\ v.phase \in {"waiting", "offline"} /\ v.id = v.at
  BY <1>1 DEF NewCall, CallRecords, CallPhases, requestId
<1>3. call' = [call EXCEPT ![c] = v]
  BY DEF Execute
<1>. HIDE DEF v
<1>4. /\ call' \in [Calls -> CallRecords] /\ call'[c] = v
      /\ \A d \in Calls \ {c} : call'[d] = call[d]
  BY <1>2, <1>3 DEF TypeOK
<1>5. cmds' = Append(cmds, c) \/ cmds' = cmds
  BY DEF Execute
<1>6. cmds' \in Seq(Calls)
  <2>1. cmds \in Seq(Calls)
    BY DEF TypeOK
  <2>2. Append(cmds, c) \in Seq(Calls)
    BY <2>1
  <2>. QED
    BY <1>5, <2>1, <2>2
<1>. QED
  BY <1>1, <1>2, <1>4, <1>5, <1>6 DEF Execute, channels, extension

LEMMA ForwardDoes ==
  ASSUME TypeOK, Forward
  PROVE  LET c == Head(cmds)  m == Message("request", call[c].id, c, TRUE) IN
         /\ cmds # <<>> /\ c \in Calls /\ m \in PipeDown
         /\ cmds' = Tail(cmds) /\ cmds' \in Seq(Calls)
         /\ pending' \in [Ids -> Calls \cup {NoJob}] /\ pending'[call[c].id] = c
         /\ \A i \in Ids \ {call[c].id} : pending'[i] = pending[i]
         /\ pipe' \in [gen : Nat, down : Seq(PipeDown), up : Seq(PipeUp)]
         /\ pipe'.down = Append(pipe.down, m) /\ pipe'.up = pipe.up
         /\ call' = Told({pending[call[c].id]}, "offline", NoJob)
         /\ UNCHANGED <<now, agent, host, overtaken, nativePort, toChrome, fromChrome,
                        job, pendingRecordingSave, timers, faults>>
<1>. DEFINE c == Head(cmds)
            id == call[c].id
            m == Message("request", id, c, TRUE)
<1>1. cmds # <<>> /\ cmds \in Seq(Calls)
  BY DEF Forward, TypeOK
<1>2. c \in Calls /\ Tail(cmds) \in Seq(Calls)
  BY <1>1, TailPlaces
<1>3. id \in Ids
  BY <1>2 DEF TypeOK, CallRecords
<1>4. /\ cmds' = Tail(cmds) /\ pending' = [pending EXCEPT ![id] = c]
      /\ pipe' = [pipe EXCEPT !.down = Append(@, m)]
      /\ call' = Told({pending[id]}, "offline", NoJob)
      /\ UNCHANGED <<now, agent, host, overtaken, nativePort, toChrome, fromChrome,
                     job, pendingRecordingSave, timers, faults>>
  BY DEF Forward, channels, extension
<1>. HIDE DEF c, id
<1>5. m \in PipeDown
  BY <1>2, <1>3, MessagesTyped DEF Jobs
<1>. HIDE DEF m
<1>6. /\ pending' \in [Ids -> Calls \cup {NoJob}] /\ pending'[id] = c
      /\ \A i \in Ids \ {id} : pending'[i] = pending[i]
  BY <1>2, <1>3, <1>4 DEF TypeOK
<1>7. pipe \in [gen : Nat, down : Seq(PipeDown), up : Seq(PipeUp)]
  BY DEF TypeOK
<1>8. Append(pipe.down, m) \in Seq(PipeDown)
  BY <1>5, <1>7, AppendPlaces
<1>9. /\ pipe' \in [gen : Nat, down : Seq(PipeDown), up : Seq(PipeUp)]
      /\ pipe'.down = Append(pipe.down, m) /\ pipe'.up = pipe.up
  BY <1>4, <1>7, <1>8, PipeUpdates
<1>. QED
  BY <1>1, <1>2, <1>4, <1>5, <1>6, <1>9 DEF c, id, m

LEMMA RespondDoes ==
  ASSUME TypeOK, Respond
  PROVE  LET m == Head(pipe.up) IN
         /\ pipe.up # <<>> /\ m \in PipeUp
         /\ pipe' \in [gen : Nat, down : Seq(PipeDown), up : Seq(PipeUp)]
         /\ pipe'.up = Tail(pipe.up) /\ pipe'.down = pipe.down
         /\ pending' \in [Ids -> Calls \cup {NoJob}] /\ pending'[m.id] = NoJob
         /\ \A i \in Ids \ {m.id} : pending'[i] = pending[i]
         /\ call' = Told({pending[m.id]}, IF m.ok THEN "answered" ELSE "failed", m.of)
         /\ UNCHANGED <<now, agent, cmds, host, overtaken, nativePort, toChrome, fromChrome,
                        job, pendingRecordingSave, timers, faults>>
<1>. DEFINE m == Head(pipe.up)
<1>1. pipe \in [gen : Nat, down : Seq(PipeDown), up : Seq(PipeUp)] /\ pipe.up # <<>>
  BY DEF TypeOK, Respond
<1>2. m \in PipeUp /\ Tail(pipe.up) \in Seq(PipeUp)
  BY <1>1, TailPlaces
<1>3. /\ pipe' = [pipe EXCEPT !.up = Tail(@)] /\ pending' = [pending EXCEPT ![m.id] = NoJob]
      /\ call' = Told({pending[m.id]}, IF m.ok THEN "answered" ELSE "failed", m.of)
      /\ UNCHANGED <<now, agent, cmds, host, overtaken, nativePort, toChrome, fromChrome,
                     job, pendingRecordingSave, timers, faults>>
  BY DEF Respond, channels, extension
<1>. HIDE DEF m
<1>4. m.id \in Ids
  BY <1>2, MessageFields
<1>5. /\ pending' \in [Ids -> Calls \cup {NoJob}] /\ pending'[m.id] = NoJob
      /\ \A i \in Ids \ {m.id} : pending'[i] = pending[i]
  BY <1>3, <1>4 DEF TypeOK
<1>6. /\ pipe' \in [gen : Nat, down : Seq(PipeDown), up : Seq(PipeUp)]
      /\ pipe'.up = Tail(pipe.up) /\ pipe'.down = pipe.down
  BY <1>1, <1>2, <1>3, PipeUpdates
<1>. QED
  BY <1>1, <1>2, <1>3, <1>5, <1>6 DEF m

LEMMA ReadLineDoes ==
  ASSUME TypeOK, ReadLine
  PROVE  LET m == Head(pipe.down) IN
         /\ pipe.down # <<>> /\ m \in PipeDown /\ m \in HostOut
         /\ pipe' \in [gen : Nat, down : Seq(PipeDown), up : Seq(PipeUp)]
         /\ pipe'.down = Tail(pipe.down) /\ pipe'.up = pipe.up
         /\ toChrome' = Append(toChrome, m) /\ toChrome' \in Seq(HostOut)
         /\ UNCHANGED <<call, now, agent, cmds, pending, host, overtaken, nativePort, fromChrome,
                        job, pendingRecordingSave, timers, faults>>
<1>. DEFINE m == Head(pipe.down)
<1>1. pipe \in [gen : Nat, down : Seq(PipeDown), up : Seq(PipeUp)] /\ pipe.down # <<>>
  BY DEF TypeOK, ReadLine
<1>2. m \in PipeDown /\ Tail(pipe.down) \in Seq(PipeDown)
  BY <1>1, TailPlaces
<1>3. /\ pipe' = [pipe EXCEPT !.down = Tail(@)] /\ toChrome' = Append(toChrome, m)
      /\ UNCHANGED <<call, now, agent, cmds, pending, host, overtaken, nativePort, fromChrome,
                     job, pendingRecordingSave, timers, faults>>
  BY DEF ReadLine, server, extension
<1>. HIDE DEF m
<1>4. m \in HostOut
  BY <1>2, MessageFields
<1>5. toChrome' \in Seq(HostOut)
  BY <1>3, <1>4, AppendPlaces DEF TypeOK
<1>6. /\ pipe' \in [gen : Nat, down : Seq(PipeDown), up : Seq(PipeUp)]
      /\ pipe'.down = Tail(pipe.down) /\ pipe'.up = pipe.up
  BY <1>1, <1>2, <1>3, PipeUpdates
<1>. QED
  BY <1>1, <1>2, <1>3, <1>4, <1>5, <1>6 DEF m

LEMMA SaveScriptDoes ==
  ASSUME TypeOK, SaveScript
  PROVE  LET m == Head(fromChrome) IN
         /\ fromChrome # <<>> /\ m \in HostIn /\ m.kind = "complete" /\ m.of \in Jobs
         /\ fromChrome' = Tail(fromChrome) /\ fromChrome' \in Seq(HostIn)
         /\ toChrome' \in Seq(HostOut)
         /\ \E ok \in BOOLEAN : /\ Message("saved", 0, m.of, ok) \in HostOut
                                /\ toChrome' = Append(toChrome, Message("saved", 0, m.of, ok))
         /\ UNCHANGED <<call, now, agent, cmds, pending, pipe, host, overtaken, nativePort,
                        job, pendingRecordingSave, timers, faults>>
<1>. DEFINE m == Head(fromChrome)
<1>1. fromChrome # <<>> /\ fromChrome \in Seq(HostIn) /\ m.kind = "complete"
  BY DEF SaveScript, TypeOK
<1>2. m \in HostIn /\ Tail(fromChrome) \in Seq(HostIn)
  BY <1>1, TailPlaces
<1>3. /\ fromChrome' = Tail(fromChrome)
      /\ \E ok \in BOOLEAN : toChrome' = Append(toChrome, Message("saved", 0, m.of, ok))
      /\ UNCHANGED <<call, now, agent, cmds, pending, pipe, host, overtaken, nativePort,
                     job, pendingRecordingSave, timers, faults>>
  BY DEF SaveScript, server, extension
<1>. HIDE DEF m
<1>4. m.of \in Jobs
  BY <1>1, <1>2, MessageFields
<1>5. 0 \in Ids
  BY BoundsAssumption DEF Ids
<1>6. \A ok \in BOOLEAN : Message("saved", 0, m.of, ok) \in HostOut
  BY <1>4, <1>5, MessagesTyped
<1>7. toChrome' \in Seq(HostOut)
  BY <1>3, <1>6, AppendPlaces DEF TypeOK
<1>. QED
  BY <1>1, <1>2, <1>3, <1>4, <1>6, <1>7 DEF m

LEMMA RelayDoes ==
  ASSUME TypeOK, RelayResponse
  PROVE  LET m == Head(fromChrome)  e == Message("error", m.id, m.of, FALSE) IN
         /\ fromChrome # <<>> /\ m \in HostIn /\ m.kind = "response" /\ m.of \in Calls /\ m.id \in Ids
         /\ fromChrome' = Tail(fromChrome) /\ fromChrome' \in Seq(HostIn)
         /\ toChrome' \in Seq(HostOut) /\ host' \in HostRecords
         /\ pipe' \in [gen : Nat, down : Seq(PipeDown), up : Seq(PipeUp)]
         /\ pipe'.down = pipe.down
         /\ \/ m \in PipeUp /\ pipe'.up = Append(pipe.up, m) /\ toChrome' = toChrome
            \/ e \in HostOut /\ toChrome' = Append(toChrome, e) /\ pipe' = pipe
         /\ UNCHANGED <<call, now, agent, cmds, pending, overtaken, nativePort,
                        job, pendingRecordingSave, timers, faults>>
<1>. DEFINE m == Head(fromChrome)
            e == Message("error", m.id, m.of, FALSE)
<1>1. fromChrome # <<>> /\ fromChrome \in Seq(HostIn) /\ m.kind = "response"
  BY DEF RelayResponse, TypeOK
<1>2. m \in HostIn /\ Tail(fromChrome) \in Seq(HostIn)
  BY <1>1, TailPlaces
<1>3. /\ fromChrome' = Tail(fromChrome)
      /\ \/ pipe' = [pipe EXCEPT !.up = Append(@, m)] /\ UNCHANGED <<host, toChrome>>
         \/ /\ host' = [host EXCEPT !.writer = 0]
            /\ toChrome' = Append(toChrome, e) /\ UNCHANGED pipe
      /\ UNCHANGED <<call, now, agent, cmds, pending, overtaken, nativePort,
                     job, pendingRecordingSave, timers, faults>>
  BY DEF RelayResponse, server, extension
<1>. HIDE DEF m, e
<1>4. m.of \in Calls /\ m.id \in Ids /\ m \in PipeUp
  BY <1>1, <1>2, MessageFields
<1>5. e \in HostOut
  BY <1>4, MessagesTyped DEF e, Jobs
<1>6. /\ pipe \in [gen : Nat, down : Seq(PipeDown), up : Seq(PipeUp)] /\ host \in HostRecords
      /\ toChrome \in Seq(HostOut)
  BY DEF TypeOK
<1>7. /\ Append(pipe.up, m) \in Seq(PipeUp) /\ Append(toChrome, e) \in Seq(HostOut)
  BY <1>4, <1>5, <1>6, AppendPlaces
<1>8. host' \in HostRecords
  BY <1>3, <1>6 DEF HostRecords
<1>9. CASE pipe' = [pipe EXCEPT !.up = Append(@, m)] /\ UNCHANGED <<host, toChrome>>
  <2>1. /\ pipe' \in [gen : Nat, down : Seq(PipeDown), up : Seq(PipeUp)]
        /\ pipe'.down = pipe.down /\ pipe'.up = Append(pipe.up, m)
    BY <1>6, <1>7, <1>9, PipeUpdates
  <2>. QED
    BY <1>1, <1>2, <1>3, <1>4, <1>6, <1>8, <1>9, <2>1 DEF m
<1>10. CASE toChrome' = Append(toChrome, e) /\ UNCHANGED pipe
  BY <1>1, <1>2, <1>3, <1>4, <1>5, <1>6, <1>7, <1>8, <1>10 DEF m, e
<1>. QED
  BY <1>3, <1>9, <1>10

LEMMA OnRequestDoes ==
  ASSUME TypeOK, OnRequest
  PROVE  LET m == Head(toChrome) IN
         /\ toChrome # <<>> /\ m \in HostOut /\ m.kind = "request" /\ m.of \in Calls
         /\ toChrome' = Tail(toChrome) /\ toChrome' \in Seq(HostOut)
         /\ job' \in [Jobs -> JobRecords] /\ \A k \in Jobs \ {m.of} : job'[k] = job[k]
         /\ job'[m.of].phase = "tab" /\ job'[m.of].script = job[m.of].script
         /\ UNCHANGED <<call, now, agent, cmds, pending, pipe, host, overtaken, nativePort,
                        fromChrome, pendingRecordingSave, timers, faults>>
<1>. DEFINE m == Head(toChrome)
<1>1. toChrome # <<>> /\ toChrome \in Seq(HostOut) /\ m.kind = "request"
  BY DEF OnRequest, TypeOK
<1>2. m \in HostOut /\ Tail(toChrome) \in Seq(HostOut)
  BY <1>1, TailPlaces
<1>3. /\ toChrome' = Tail(toChrome) /\ job' = [job EXCEPT ![m.of].phase = "tab"]
      /\ UNCHANGED <<call, now, agent, cmds, pending, pipe, host, overtaken, nativePort,
                     fromChrome, pendingRecordingSave, timers, faults>>
  BY DEF OnRequest, Elsewhere, server
<1>. HIDE DEF m
<1>4. m.of \in Calls /\ m.of \in Jobs
  BY <1>1, <1>2, MessageFields DEF Jobs
<1>5. "tab" \in JobPhases /\ job \in [Jobs -> JobRecords]
  BY DEF JobPhases, TypeOK
<1>6. /\ job' \in [Jobs -> JobRecords] /\ \A k \in Jobs \ {m.of} : job'[k] = job[k]
      /\ job'[m.of].phase = "tab" /\ job'[m.of].script = job[m.of].script
  BY <1>3, <1>4, <1>5, NewJobPhase
<1>. QED
  BY <1>1, <1>2, <1>3, <1>4, <1>6 DEF m

LEMMA PopupStopDoes ==
  ASSUME TypeOK, NEW p \in Popups, PopupStop(p)
  PROVE  /\ p \in Jobs /\ p \notin Calls /\ job[p].phase = "none"
         /\ job' \in [Jobs -> JobRecords] /\ \A k \in Jobs \ {p} : job'[k] = job[k]
         /\ job'[p].phase = "tab" /\ job'[p].script = job[p].script
         /\ UNCHANGED <<call, now, agent, cmds, pending, pipe, host, overtaken, nativePort,
                        toChrome, fromChrome, pendingRecordingSave, timers, faults>>
<1>1. p \in Jobs /\ p \notin Calls
  BY NamesAssumption DEF Jobs
<1>2. job[p].phase = "none" /\ job' = [job EXCEPT ![p].phase = "tab"]
  BY DEF PopupStop
<1>3. "tab" \in JobPhases /\ job \in [Jobs -> JobRecords]
  BY DEF JobPhases, TypeOK
<1>4. /\ job' \in [Jobs -> JobRecords] /\ \A k \in Jobs \ {p} : job'[k] = job[k]
      /\ job'[p].phase = "tab" /\ job'[p].script = job[p].script
  BY <1>1, <1>2, <1>3, NewJobPhase
<1>. QED
  BY <1>1, <1>2, <1>4 DEF PopupStop, Elsewhere, server, channels

LEMMA OnErrorDoes ==
  ASSUME TypeOK, OnError
  PROVE  LET m == Head(toChrome)  a == Message("response", m.id, m.of, m.ok) IN
         /\ toChrome # <<>> /\ m \in HostOut /\ m.kind = "error" /\ m.of \in Calls /\ m.id \in Ids
         /\ toChrome' = Tail(toChrome) /\ toChrome' \in Seq(HostOut)
         /\ a \in HostIn /\ fromChrome' = Append(fromChrome, a) /\ fromChrome' \in Seq(HostIn)
         /\ UNCHANGED <<call, now, agent, cmds, pending, pipe, host, overtaken, nativePort,
                        job, pendingRecordingSave, timers, faults>>
<1>. DEFINE m == Head(toChrome)
            a == Message("response", m.id, m.of, m.ok)
<1>1. toChrome # <<>> /\ toChrome \in Seq(HostOut) /\ m.kind = "error"
  BY DEF OnError, TypeOK
<1>2. m \in HostOut /\ Tail(toChrome) \in Seq(HostOut)
  BY <1>1, TailPlaces
<1>3. [m EXCEPT !.kind = "response"] = a
  BY <1>2 DEF HostOut, About, Message
<1>4. /\ toChrome' = Tail(toChrome) /\ fromChrome' = Append(fromChrome, a)
      /\ UNCHANGED <<call, now, agent, cmds, pending, pipe, host, overtaken, nativePort,
                     job, pendingRecordingSave, timers, faults>>
  BY <1>3 DEF OnError, Elsewhere, server, extension
<1>. HIDE DEF m, a
<1>5. m.of \in Calls /\ m.id \in Ids /\ m.ok \in BOOLEAN
  BY <1>1, <1>2, MessageFields
<1>6. a \in HostIn
  BY <1>5, MessagesTyped DEF a, Jobs
<1>7. fromChrome' \in Seq(HostIn)
  BY <1>4, <1>6, AppendPlaces DEF TypeOK
<1>. QED
  BY <1>1, <1>2, <1>4, <1>5, <1>6, <1>7 DEF m, a

\* What happens when the promise of a save is settled.
Settles(j, phase) ==
  /\ j \in Jobs /\ pendingRecordingSave = j /\ pendingRecordingSave' = NoJob
  /\ job' \in [Jobs -> JobRecords] /\ \A k \in Jobs \ {j} : job'[k] = job[k]
  /\ job'[j].phase = phase
  /\ \E ok \in BOOLEAN : fromChrome' = Responses(j, ok)
  /\ fromChrome' \in Seq(HostIn)

LEMMA SettleDoes ==
  ASSUME TypeOK, NEW j \in Jobs, pendingRecordingSave = j, NEW phase \in JobPhases,
         NEW script \in Jobs \cup {NoJob}, NEW ok \in BOOLEAN, Settle(j, phase, script, ok)
  PROVE  Settles(j, phase) /\ job'[j].script = script
<1>. DEFINE v == [phase |-> phase, script |-> script]
<1>1. v \in JobRecords /\ v.phase = phase /\ v.script = script
  BY DEF JobRecords
<1>2. job' = [job EXCEPT ![j] = v] /\ pendingRecordingSave' = NoJob /\ fromChrome' = Responses(j, ok)
  BY DEF Settle
<1>. HIDE DEF v
<1>3. /\ job' \in [Jobs -> JobRecords] /\ job'[j] = v /\ \A k \in Jobs \ {j} : job'[k] = job[k]
  BY <1>1, <1>2 DEF TypeOK
<1>. QED
  BY <1>1, <1>2, <1>3, ResponsesTyped DEF Settles

LEMMA OnSavedDoes ==
  ASSUME TypeOK, OnSaved
  PROVE  LET m == Head(toChrome)  j == pendingRecordingSave IN
         /\ toChrome # <<>> /\ m \in HostOut /\ m.kind = "saved" /\ m.of \in Jobs
         /\ toChrome' = Tail(toChrome) /\ toChrome' \in Seq(HostOut)
         /\ \/ j = NoJob /\ UNCHANGED <<fromChrome, job, pendingRecordingSave>>
            \/ Settles(j, "ended") /\ job'[j].script \in {m.of, NoJob}
         /\ UNCHANGED <<call, now, agent, cmds, pending, pipe, host, overtaken, nativePort,
                        timers, faults>>
<1>. DEFINE m == Head(toChrome)
            j == pendingRecordingSave
<1>1. toChrome # <<>> /\ toChrome \in Seq(HostOut) /\ m.kind = "saved"
  BY DEF OnSaved, TypeOK
<1>2. m \in HostOut /\ Tail(toChrome) \in Seq(HostOut)
  BY <1>1, TailPlaces
<1>3. /\ toChrome' = Tail(toChrome)
      /\ \/ j = NoJob /\ UNCHANGED <<fromChrome, job, pendingRecordingSave>>
         \/ j # NoJob /\ Settle(j, "ended", IF m.ok THEN m.of ELSE NoJob, m.ok)
      /\ UNCHANGED <<call, now, agent, cmds, pending, pipe, host, overtaken, nativePort,
                     timers, faults>>
  BY DEF OnSaved, Elsewhere, server
<1>. HIDE DEF m
<1>4. m.of \in Jobs /\ m.ok \in BOOLEAN
  BY <1>1, <1>2, MessageFields
<1>5. ASSUME j # NoJob, Settle(j, "ended", IF m.ok THEN m.of ELSE NoJob, m.ok)
      PROVE  Settles(j, "ended") /\ job'[j].script \in {m.of, NoJob}
  <2>. DEFINE script == IF m.ok THEN m.of ELSE NoJob
  <2>1. script \in {m.of, NoJob} /\ script \in Jobs \cup {NoJob} /\ Settle(j, "ended", script, m.ok)
    BY <1>4, <1>5
  <2>. HIDE DEF script
  <2>2. j \in Jobs /\ "ended" \in JobPhases
    BY <1>5 DEF TypeOK, JobPhases
  <2>. QED
    BY <1>4, <2>1, <2>2, SettleDoes
<1>. QED
  BY <1>1, <1>2, <1>3, <1>4, <1>5 DEF m

LEMMA TabAnswersDoes ==
  ASSUME TypeOK, NEW j \in Jobs, NEW ok \in BOOLEAN, TabAnswers(j, ok)
  PROVE  /\ job[j].phase = "tab"
         /\ job' \in [Jobs -> JobRecords] /\ \A k \in Jobs \ {j} : job'[k] = job[k]
         /\ job'[j].phase = "ended" /\ job'[j].script = job[j].script
         /\ fromChrome' = Responses(j, ok) /\ fromChrome' \in Seq(HostIn)
         /\ UNCHANGED <<call, now, agent, cmds, pending, pipe, host, overtaken, nativePort,
                        toChrome, pendingRecordingSave, timers, faults>>
<1>1. /\ job[j].phase = "tab" /\ job' = [job EXCEPT ![j].phase = "ended"]
      /\ fromChrome' = Responses(j, ok)
  BY DEF TabAnswers
<1>2. "ended" \in JobPhases /\ job \in [Jobs -> JobRecords]
  BY DEF JobPhases, TypeOK
<1>3. /\ job' \in [Jobs -> JobRecords] /\ \A k \in Jobs \ {j} : job'[k] = job[k]
      /\ job'[j].phase = "ended" /\ job'[j].script = job[j].script
  BY <1>1, <1>2, NewJobPhase
<1>. QED
  BY <1>1, <1>3, ResponsesTyped DEF TabAnswers, Elsewhere, server

LEMMA PostDoes ==
  ASSUME TypeOK, NEW j \in Jobs, postRecordingComplete(j)
  PROVE  /\ job[j].phase = "tab"
         /\ job' \in [Jobs -> JobRecords] /\ \A k \in Jobs \ {j} : job'[k] = job[k]
         /\ job'[j].script = job[j].script
         /\ fromChrome' \in Seq(HostIn)
         /\ \/ /\ pendingRecordingSave = NoJob /\ pendingRecordingSave' = j
               /\ job'[j].phase = "saving" /\ Message("complete", 0, j, TRUE) \in HostIn
               /\ fromChrome' = Append(fromChrome, Message("complete", 0, j, TRUE))
            \/ /\ UNCHANGED pendingRecordingSave /\ job'[j].phase = "ended"
               /\ fromChrome' = Responses(j, FALSE)
         /\ timers' \subseteq Jobs
         /\ UNCHANGED <<call, now, agent, cmds, pending, pipe, host, overtaken, nativePort,
                        toChrome, faults>>
<1>1. /\ job[j].phase = "tab"
      /\ \/ /\ pendingRecordingSave = NoJob /\ pendingRecordingSave' = j
            /\ job' = [job EXCEPT ![j].phase = "saving"]
            /\ fromChrome' = Append(fromChrome, Message("complete", 0, j, TRUE))
            /\ timers' = timers \cup {j}
         \/ /\ UNCHANGED <<pendingRecordingSave, timers>>
            /\ job' = [job EXCEPT ![j].phase = "ended"]
            /\ fromChrome' = Responses(j, FALSE)
  BY DEF postRecordingComplete, MayPost
<1>2. {"ended", "saving"} \subseteq JobPhases /\ job \in [Jobs -> JobRecords] /\ timers \subseteq Jobs
  BY DEF JobPhases, TypeOK
<1>3. 0 \in Ids
  BY BoundsAssumption DEF Ids
<1>4. Message("complete", 0, j, TRUE) \in HostIn
  BY <1>3, MessagesTyped
<1>5. Append(fromChrome, Message("complete", 0, j, TRUE)) \in Seq(HostIn)
  <2>1. fromChrome \in Seq(HostIn)
    BY DEF TypeOK
  <2>2. ASSUME NEW m \in HostIn PROVE Append(fromChrome, m) \in Seq(HostIn)
    BY <2>1
  <2>. QED
    BY <1>4, <2>2
<1>6. UNCHANGED <<call, now, agent, cmds, pending, pipe, host, overtaken, nativePort,
                  toChrome, faults>>
  BY DEF postRecordingComplete, Elsewhere, server
<1>7. ASSUME NEW phase \in JobPhases, job' = [job EXCEPT ![j].phase = phase]
      PROVE  /\ job' \in [Jobs -> JobRecords] /\ \A k \in Jobs \ {j} : job'[k] = job[k]
             /\ job'[j].phase = phase /\ job'[j].script = job[j].script
  BY <1>2, <1>7, NewJobPhase
<1>. QED
  BY <1>1, <1>2, <1>4, <1>5, <1>6, <1>7, ResponsesTyped

LEMMA SaveTimeoutDoes ==
  ASSUME TypeOK, NEW j \in Jobs, SaveTimeout(j)
  PROVE  LET k == pendingRecordingSave IN
         /\ \/ k = NoJob /\ UNCHANGED <<fromChrome, job, pendingRecordingSave>>
            \/ Settles(k, "givenUp") /\ job'[k].script = NoJob
         /\ timers' \subseteq Jobs
         /\ UNCHANGED <<call, now, agent, cmds, pending, pipe, host, overtaken, nativePort,
                        toChrome, faults>>
<1>1. "givenUp" \in JobPhases /\ timers \subseteq Jobs
      /\ pendingRecordingSave \in Jobs \cup {NoJob}
  BY DEF TypeOK, JobPhases
<1>2. CASE pendingRecordingSave = NoJob /\ UNCHANGED <<fromChrome, job, pendingRecordingSave>>
  BY <1>1, <1>2 DEF SaveTimeout, Elsewhere, server
<1>3. CASE pendingRecordingSave # NoJob /\ Settle(pendingRecordingSave, "givenUp", NoJob, FALSE)
  BY <1>1, <1>3, SettleDoes DEF SaveTimeout, Elsewhere, server
<1>. QED
  BY <1>2, <1>3 DEF SaveTimeout

\* The steps that end a process, or the agent's end of the pipe: channels are
\* emptied, callers told, jobs lost.
Emptied ==
  /\ call' \in [Calls -> CallRecords] /\ job' \in [Jobs -> JobRecords]
  /\ host' \in HostRecords
  /\ pipe' \in [gen : Nat, down : Seq(PipeDown), up : Seq(PipeUp)]
  /\ \A c \in Calls : /\ call'[c].id = call[c].id /\ call'[c].at = call[c].at
                      /\ (call'[c].phase = "new") <=> (call[c].phase = "new")
                      /\ call'[c].phase \in {"answered", "failed"} => call'[c] = call[c]
  /\ cmds' \in {cmds, <<>>} /\ pending' \in {pending, NoneAwaited}
  /\ pipe'.down \in {pipe.down, <<>>} /\ pipe'.up \in {pipe.up, <<>>}
  /\ \/ UNCHANGED <<toChrome, fromChrome>>
     \/ toChrome' = <<>> /\ fromChrome' = <<>>
  /\ \A j \in Jobs : /\ job'[j].script = job[j].script
                     /\ \/ job'[j] = job[j]
                        \/ job[j].phase \in {"tab", "saving"} /\ job'[j].phase = "gone"
  /\ \/ job' = job /\ UNCHANGED <<pendingRecordingSave, timers>>
     \/ /\ pendingRecordingSave' = NoJob /\ timers' = {}
        /\ toChrome' = <<>> /\ fromChrome' = <<>>

Empties ==
  \/ \E c \in Calls : Timeout(c)
  \/ Disconnected \/ TryToConnect \/ GiveUp \/ Connect \/ HandWriter \/ PipeLost \/ TakeWriter
  \/ TakeLost \/ connectNative \/ Environment

LEMMA EmptiesDoes ==
  ASSUME TypeOK, Empties
  PROVE  /\ Emptied /\ now' = now /\ agent' \in {"down", "listening", "serving"}
         /\ overtaken' \in BOOLEAN /\ nativePort' \in BOOLEAN /\ faults' \in 0..MaxFaults
<1>t. /\ call \in [Calls -> CallRecords] /\ job \in [Jobs -> JobRecords] /\ host \in HostRecords
      /\ pipe \in [gen : Nat, down : Seq(PipeDown), up : Seq(PipeUp)] /\ faults \in 0..MaxFaults
      /\ agent \in {"down", "listening", "serving"}
  BY DEF TypeOK
<1>b. overtaken \in BOOLEAN /\ nativePort \in BOOLEAN
  BY DEF TypeOK
<1>1. host' \in HostRecords
  <2>1. NewHost \in HostRecords
    BY DEF NewHost, HostRecords
  <2>2. pipe.gen \in Nat
    BY <1>t
  <2>3. CASE TakeLost
    <3>1. host.lost \in Nat
      BY <1>t DEF HostRecords
    <3>2. host.lost > 0 /\ host' = [host EXCEPT !.lost = host.lost - 1, !.writer = 0]
      BY <2>3 DEF TakeLost
    <3>3. host.lost - 1 \in Nat
      BY <3>1, <3>2
    <3>. DEFINE n == host.lost - 1
    <3>4. n \in Nat /\ host' = [host EXCEPT !.lost = n, !.writer = 0]
      BY <3>2, <3>3
    <3>. HIDE DEF n
    <3>. QED
      BY <1>t, <3>4 DEF HostRecords
  <2>4. CASE TryToConnect \/ GiveUp \/ Connect \/ HandWriter
    BY <1>t, <2>2, <2>4 DEF HostTask, TryToConnect, GiveUp, Connect, HandWriter, HostRecords
  <2>7. CASE TakeWriter
    BY <1>t, <2>7 DEF HostTask, TakeWriter, HostRecords
  <2>8. CASE PipeLost
    <3>. DEFINE n == host.lost + 1
    <3>1. n \in Nat
      BY <1>t DEF HostRecords
    <3>2. host' = [host EXCEPT !.pipe_active = FALSE, !.link = "none", !.lost = n]
      BY <2>8 DEF PipeLost, HostTask
    <3>. HIDE DEF n
    <3>. QED
      BY <1>t, <3>1, <3>2 DEF HostRecords
  <2>5. CASE Environment
    BY <1>t, <2>1, <2>5 DEF Environment, HostDies, ChromeDies, AgentDies, AgentStarts, HostEnds
  <2>6. CASE (\E c \in Calls : Timeout(c)) \/ Disconnected \/ connectNative
    BY <1>t, <2>6 DEF Timeout, Disconnected, connectNative
  <2>. QED
    BY <2>3, <2>4, <2>5, <2>6, <2>7, <2>8 DEF Empties
<1>2. /\ pipe' \in [gen : Nat, down : Seq(PipeDown), up : Seq(PipeUp)]
      /\ pipe'.down \in {pipe.down, <<>>} /\ pipe'.up \in {pipe.up, <<>>}
  <2>1. CASE Connect
    BY <1>t, <2>1 DEF Connect
  <2>2. CASE ~Connect
    BY <1>t, <2>2 DEF Empties, HostTask, Timeout, Disconnected, TryToConnect, GiveUp, HandWriter,
       PipeLost, TakeWriter, TakeLost, connectNative, Environment, HostDies, ChromeDies, AgentDies,
       AgentStarts
  <2>. QED
    BY <2>1, <2>2
<1>3. /\ call' \in [Calls -> CallRecords]
      /\ \A c \in Calls : /\ call'[c].id = call[c].id /\ call'[c].at = call[c].at
                          /\ (call'[c].phase = "new") <=> (call[c].phase = "new")
                          /\ call'[c].phase \in {"answered", "failed"} => call'[c] = call[c]
  <2>1. \/ call' = call
        \/ \E cs, phase : phase \in {"timeout", "offline", "gone"} /\ call' = Told(cs, phase, NoJob)
    BY DEF Empties, HostTask, Timeout, Disconnected, TryToConnect, GiveUp, Connect, HandWriter,
       PipeLost, TakeWriter, TakeLost, connectNative, Environment, HostDies, ChromeDies, AgentDies,
       AgentStarts
  <2>2. CASE call' = call
    BY <1>t, <2>2
  <2>3. ASSUME NEW cs, NEW phase \in {"timeout", "offline", "gone"}, call' = Told(cs, phase, NoJob)
        PROVE  /\ call' \in [Calls -> CallRecords]
               /\ \A c \in Calls : /\ call'[c].id = call[c].id /\ call'[c].at = call[c].at
                                   /\ (call'[c].phase = "new") <=> (call[c].phase = "new")
                                   /\ call'[c].phase \in {"answered", "failed"} => call'[c] = call[c]
    <3>1. phase \in CallPhases \ {"new"}
      BY DEF CallPhases
    <3>2. /\ Told(cs, phase, NoJob) \in [Calls -> CallRecords]
          /\ \A c \in Calls :
               /\ Told(cs, phase, NoJob)[c].id = call[c].id
               /\ Told(cs, phase, NoJob)[c].at = call[c].at
               /\ (Told(cs, phase, NoJob)[c].phase = "new") <=> (call[c].phase = "new")
               /\ \/ Told(cs, phase, NoJob)[c] = call[c]
                  \/ Told(cs, phase, NoJob)[c].phase = phase
      BY <3>1, ToldCalls
    <3>3. phase \notin {"answered", "failed"}
      OBVIOUS
    <3>4. \A c \in Calls :
            /\ call'[c].id = call[c].id /\ call'[c].at = call[c].at
            /\ (call'[c].phase = "new") <=> (call[c].phase = "new")
            /\ call'[c].phase \in {"answered", "failed"} => call'[c] = call[c]
      BY <2>3, <3>2, <3>3
    <3>. QED
      BY <2>3, <3>2, <3>4
  <2>. QED
    BY <2>1, <2>2, <2>3
<1>4. cmds' \in {cmds, <<>>} /\ pending' \in {pending, NoneAwaited}
  BY DEF Empties, HostTask, Timeout, Disconnected, TryToConnect, GiveUp, Connect, HandWriter,
     PipeLost, TakeWriter, TakeLost, connectNative, Environment, HostDies, ChromeDies, AgentDies,
     AgentStarts, server
<1>5. /\ \/ UNCHANGED <<toChrome, fromChrome>>
         \/ toChrome' = <<>> /\ fromChrome' = <<>>
      /\ \/ job' = job /\ UNCHANGED <<pendingRecordingSave, timers>>
         \/ ChromeDies /\ pendingRecordingSave' = NoJob /\ timers' = {}
                       /\ toChrome' = <<>> /\ fromChrome' = <<>>
  BY DEF Empties, HostTask, Timeout, Disconnected, TryToConnect, GiveUp, Connect, HandWriter,
     PipeLost, TakeWriter, TakeLost, connectNative, Environment, HostDies, ChromeDies, AgentDies,
     AgentStarts, channels, extension, HostEnds
<1>6. /\ job' \in [Jobs -> JobRecords]
      /\ \A j \in Jobs : /\ job'[j].script = job[j].script
                         /\ \/ job'[j] = job[j]
                            \/ job[j].phase \in {"tab", "saving"} /\ job'[j].phase = "gone"
  <2>1. CASE job' = job
    BY <1>t, <2>1
  <2>2. CASE ChromeDies
    <3>1. job' = [j \in Jobs |-> IF job[j].phase \in {"tab", "saving"}
                                 THEN [job[j] EXCEPT !.phase = "gone"] ELSE job[j]]
      BY <2>2 DEF ChromeDies
    <3>2. ASSUME NEW j \in Jobs
          PROVE  /\ [job[j] EXCEPT !.phase = "gone"] \in JobRecords
                 /\ [job[j] EXCEPT !.phase = "gone"].phase = "gone"
                 /\ [job[j] EXCEPT !.phase = "gone"].script = job[j].script
      BY <1>t DEF JobRecords, JobPhases
    <3>. QED
      BY <1>t, <3>1, <3>2
  <2>. QED
    BY <1>5, <2>1, <2>2
<1>7. now' = now /\ agent' \in {"down", "listening", "serving"}
  BY <1>t DEF Empties, HostTask, Timeout, Disconnected, TryToConnect, GiveUp, Connect, HandWriter,
     PipeLost, TakeWriter, TakeLost, connectNative, Environment, HostDies, ChromeDies, AgentDies,
     AgentStarts, server
<1>8. overtaken' \in BOOLEAN
  BY <1>b DEF Empties, HostTask, Timeout, Disconnected, TryToConnect, GiveUp, Connect, HandWriter,
     PipeLost, TakeWriter, TakeLost, connectNative, Environment, HostDies, ChromeDies, AgentDies,
     AgentStarts
<1>9. nativePort' \in BOOLEAN
  BY <1>b DEF Empties, HostTask, Timeout, Disconnected, TryToConnect, GiveUp, Connect, HandWriter,
     PipeLost, TakeWriter, TakeLost, connectNative, Environment, HostDies, ChromeDies, AgentDies,
     AgentStarts, HostEnds
<1>10. faults' \in 0..MaxFaults
  <2>1. \/ faults' = faults
        \/ faults < MaxFaults /\ faults' = faults + 1
    BY DEF Empties, HostTask, Timeout, Disconnected, TryToConnect, GiveUp, Connect, HandWriter,
       PipeLost, TakeWriter, TakeLost, connectNative, Environment, HostDies, ChromeDies, AgentDies,
       AgentStarts
  <2>. QED
    BY <1>t, <2>1, BoundsAssumption
<1>. QED
  BY <1>1, <1>2, <1>3, <1>4, <1>5, <1>6, <1>7, <1>8, <1>9, <1>10 DEF Emptied

LEMMA TypeStep == TypeOK /\ [Next]_vars => TypeOK'
<1>. SUFFICES ASSUME TypeOK, [Next]_vars PROVE TypeOK'
  OBVIOUS
<1>1. ASSUME NEW c \in Calls, Execute(c) PROVE TypeOK'
  BY <1>1, ExecuteDoes DEF TypeOK
<1>2. CASE Forward
  <2>1. "offline" \in CallPhases \ {"new"} /\ NoJob \in Jobs \cup {NoJob}
    BY DEF CallPhases
  <2>2. \A cs : Told(cs, "offline", NoJob) \in [Calls -> CallRecords]
    BY <2>1, ToldCalls
  <2>3. call' \in [Calls -> CallRecords]
    BY <1>2, <2>2, ForwardDoes
  <2>. QED
    BY <1>2, <2>3, ForwardDoes DEF TypeOK
<1>3. CASE Respond
  <2>. DEFINE m == Head(pipe.up)
              phase == IF m.ok THEN "answered" ELSE "failed"
  <2>1. m \in PipeUp /\ call' = Told({pending[m.id]}, phase, m.of)
    BY <1>3, RespondDoes
  <2>2. phase \in CallPhases \ {"new"} /\ m.of \in Jobs \cup {NoJob}
    BY <2>1, MessageFields DEF CallPhases, Jobs
  <2>. HIDE DEF m, phase
  <2>3. call' \in [Calls -> CallRecords]
    BY <2>1, <2>2, ToldCalls
  <2>. QED
    BY <1>3, <2>3, RespondDoes DEF TypeOK
<1>4. CASE ReadLine
  BY <1>4, ReadLineDoes DEF TypeOK
<1>5. CASE SaveScript
  BY <1>5, SaveScriptDoes DEF TypeOK
<1>6. CASE RelayResponse
  BY <1>6, RelayDoes DEF TypeOK
<1>7. CASE OnRequest
  BY <1>7, OnRequestDoes DEF TypeOK
<1>8. CASE OnError
  BY <1>8, OnErrorDoes DEF TypeOK
<1>9. CASE OnSaved
  BY <1>9, OnSavedDoes DEF TypeOK, Settles
<1>10. ASSUME NEW p \in Popups, PopupStop(p) PROVE TypeOK'
  BY <1>10, PopupStopDoes DEF TypeOK
<1>11. ASSUME NEW j \in Jobs, NEW ok \in BOOLEAN, TabAnswers(j, ok) PROVE TypeOK'
  BY <1>11, TabAnswersDoes DEF TypeOK
<1>12. ASSUME NEW j \in Jobs, postRecordingComplete(j) PROVE TypeOK'
  BY <1>12, PostDoes DEF TypeOK
<1>13. ASSUME NEW j \in Jobs, SaveTimeout(j) PROVE TypeOK'
  BY <1>13, SaveTimeoutDoes DEF TypeOK, Settles
<1>14. CASE Empties
  <2>1. NoneAwaited \in [Ids -> Calls \cup {NoJob}] /\ <<>> \in Seq(Calls)
        /\ <<>> \in Seq(HostOut) /\ <<>> \in Seq(HostIn)
    BY DEF NoneAwaited
  <2>. QED
    BY <1>14, <2>1, EmptiesDoes DEF TypeOK, Emptied
<1>15. CASE UNCHANGED vars
  BY <1>15 DEF vars, server, channels, extension, TypeOK
<1>. QED
  BY <1>1, <1>2, <1>3, <1>4, <1>5, <1>6, <1>7, <1>8, <1>9, <1>10, <1>11, <1>12, <1>13, <1>14, <1>15
     DEF Next, Empties

-----------------------------------------------------------------------------
(* One place at a time                                                     *)

LEMMA StepMessageOf ==
  ASSUME NEW c \in Calls
  PROVE  /\ \A m \in PipeDown : (m \in StepMessages(c)) <=> (m.of = c)
         /\ \A m \in PipeUp : (m \in StepMessages(c)) <=> (m.of = c)
         /\ \A m \in HostOut :
              (m \in StepMessages(c)) <=> (m.kind \in {"request", "error"} /\ m.of = c)
         /\ \A m \in HostIn : (m \in StepMessages(c)) <=> (m.kind = "response" /\ m.of = c)
         /\ \A m \in HostOut : (m \in About({"request"}, {c})) <=> (m.kind = "request" /\ m.of = c)
         /\ About({"request"}, {c}) \subseteq StepMessages(c)
  BY DEF StepMessages, About, PipeDown, PipeUp, HostOut, HostIn

LEMMA HasMore ==
  ASSUME NEW S, NEW R, R \subseteq S, NEW s, Has(s, R)
  PROVE  Has(s, S)
  BY DEF Has

\* An answer goes out for a job that is in the tab, so for none that has one out.
LEMMA AnsweredOnce ==
  ASSUME TypeOK, NEW c \in Calls, Alone(c), OnceEach(c),
         NEW j \in Jobs, job[j].phase \in {"tab", "saving"},
         NEW ok \in BOOLEAN
  PROVE  /\ c # j => (Has(Responses(j, ok), StepMessages(c)) <=> InFrom(c))
         /\ Once(Responses(j, ok), StepMessages(c))
<1>. DEFINE a == Message("response", call[j].id, j, ok)
            t == Responses(j, ok)
<1>1. fromChrome \in Seq(HostIn)
  BY DEF TypeOK
<1>2. CASE t = fromChrome
  BY <1>2 DEF InFrom, OnceEach
<1>3. CASE j \in Calls /\ t = Append(fromChrome, a)
  <2>1. call[j].id \in Ids
    BY <1>3 DEF TypeOK, CallRecords
  <2>2. a \in HostIn /\ a.kind = "response" /\ a.of = j
    BY <1>3, <2>1, MessagesTyped, FieldsOfMessage DEF Jobs
  <2>. HIDE DEF a
  <2>3. (a \in StepMessages(c)) <=> (c = j)
    BY <2>2, StepMessageOf
  <2>4. /\ Has(Append(fromChrome, a), StepMessages(c)) <=> InFrom(c) \/ a \in StepMessages(c)
        /\ ~(InFrom(c) /\ a \in StepMessages(c)) => Once(Append(fromChrome, a), StepMessages(c))
    BY <1>1, <2>2, AppendPlaces DEF InFrom, OnceEach
  <2>5. c = j => ~InFrom(c)
    BY DEF Alone, InTab
  <2>. QED
    BY <1>3, <2>3, <2>4, <2>5
<1>. QED
  BY <1>2, <1>3, ResponsesTyped

\* What a job that answers, or posts its save, does to the step of a call.
LEMMA AnswersMove ==
  ASSUME TypeOK, NEW c \in Calls, Alone(c), OnceEach(c), RequestFirst(c),
         NEW j \in Jobs, job[j].phase \in {"tab", "saving"}, job'[j].phase \in JobPhases \ {"none", "tab", "saving"},
         \A k \in Jobs \ {j} : job'[k] = job[k],
         NEW ok \in BOOLEAN, fromChrome' = Responses(j, ok),
         UNCHANGED <<call, cmds, pipe>>,
         Has(toChrome', StepMessages(c)) <=> InTo(c), Once(toChrome', StepMessages(c)),
         Has(toChrome', About({"request"}, {c})) => Has(toChrome, About({"request"}, {c}))
  PROVE  Alone(c)' /\ OnceEach(c)' /\ RequestFirst(c)'
<1>1. /\ c # j => (Has(fromChrome', StepMessages(c)) <=> InFrom(c))
      /\ Once(fromChrome', StepMessages(c))
  BY AnsweredOnce
<1>2. /\ IsNew(c)' <=> IsNew(c)
      /\ InCmds(c)' <=> InCmds(c)
      /\ InDown(c)' <=> InDown(c)
      /\ InUp(c)' <=> InUp(c)
      /\ InTo(c)' <=> InTo(c)
  BY DEF IsNew, InCmds, InDown, InUp, InTo
<1>3. OnceEach(c)'
  BY <1>1 DEF OnceEach
<1>4. c \in Jobs
  BY DEF Jobs
<1>5. CASE c = j
  <2>1. InTab(c) /\ ~InTab(c)'
    BY <1>5 DEF InTab
  <2>2. Alone(c)'
    BY <1>2, <2>1 DEF Alone
  <2>3. RequestFirst(c)'
    BY <1>2, <1>5 DEF RequestFirst
  <2>. QED
    BY <1>3, <2>2, <2>3
<1>6. CASE c # j
  <2>1. /\ InTab(c)' <=> InTab(c)
        /\ InFrom(c)' <=> InFrom(c)
        /\ job'[c] = job[c]
    BY <1>1, <1>4, <1>6 DEF InTab, InFrom
  <2>2. Alone(c)'
    BY <1>2, <2>1 DEF Alone
  <2>3. RequestFirst(c)'
    BY <1>2, <2>1 DEF RequestFirst
  <2>. QED
    BY <1>3, <2>2, <2>3
<1>. QED
  BY <1>5, <1>6

LEMMA StepInit == Init => StepInv
<1>. SUFFICES ASSUME Init PROVE StepInv
  OBVIOUS
<1>1. ASSUME NEW c \in Calls PROVE Alone(c) /\ OnceEach(c) /\ RequestFirst(c)
  <2>1. /\ cmds = <<>> /\ pipe.down = <<>> /\ pipe.up = <<>> /\ toChrome = <<>> /\ fromChrome = <<>>
        /\ job[c].phase = "none"
    BY <1>1 DEF Init, NewJob, Jobs
  <2>2. /\ ~InCmds(c) /\ ~InDown(c) /\ ~InTo(c) /\ ~InFrom(c) /\ ~InUp(c) /\ ~InTab(c)
        /\ OnceEach(c)
    BY <2>1, EmptyHasNone DEF InCmds, InDown, InTo, InFrom, InUp, InTab, OnceEach
  <2>. QED
    BY <2>1, <2>2 DEF Alone, RequestFirst
<1>. QED
  BY <1>1 DEF StepInv

LEMMA StepStep == TypeOK /\ StepInv /\ SaveAwaited /\ [Next]_vars => StepInv'
<1>. SUFFICES ASSUME TypeOK, StepInv, SaveAwaited, [Next]_vars, NEW c \in Calls
              PROVE  Alone(c)' /\ OnceEach(c)' /\ RequestFirst(c)'
  BY DEF StepInv
<1>. DEFINE S == StepMessages(c)
            R == About({"request"}, {c})
<1>i. Alone(c) /\ OnceEach(c) /\ RequestFirst(c)
  BY DEF StepInv
<1>j. c \in Jobs /\ R \subseteq S
  BY StepMessageOf DEF Jobs
<1>s. /\ cmds \in Seq(Calls) /\ toChrome \in Seq(HostOut) /\ fromChrome \in Seq(HostIn)
      /\ pipe \in [gen : Nat, down : Seq(PipeDown), up : Seq(PipeUp)]
      /\ pipe.down \in Seq(PipeDown) /\ pipe.up \in Seq(PipeUp)
  BY DEF TypeOK
<1>. HIDE DEF S, R
<1>d. /\ S = StepMessages(c) /\ R = About({"request"}, {c})
  BY DEF S, R
<1>1. ASSUME NEW d \in Calls, Execute(d) PROVE Alone(c)' /\ OnceEach(c)' /\ RequestFirst(c)'
  <2>1. /\ call[d].phase = "new" /\ call'[d].phase # "new"
        /\ \A e \in Calls \ {d} : call'[e] = call[e]
        /\ cmds' = Append(cmds, d) \/ cmds' = cmds
        /\ UNCHANGED <<pipe, toChrome, fromChrome, job>>
    BY <1>1, ExecuteDoes
  <2>2. /\ InDown(c)' <=> InDown(c)
        /\ InTo(c)' <=> InTo(c)
        /\ InFrom(c)' <=> InFrom(c)
        /\ InUp(c)' <=> InUp(c)
        /\ InTab(c)' <=> InTab(c)
    BY <2>1 DEF InDown, InTo, InFrom, InUp, InTab
  <2>3. IsNew(c)' <=> IsNew(c) /\ c # d
    BY <2>1 DEF IsNew
  <2>4. /\ InCmds(c)' => InCmds(c) \/ c = d
        /\ InCmds(c)' => InCmds(c) \/ IsNew(c)
        /\ IsNew(c) /\ InCmds(c)' => c = d
        /\ Once(cmds', {c})
    <3>1. CASE cmds' = cmds
      BY <1>i, <3>1 DEF InCmds, OnceEach, Alone
    <3>2. CASE cmds' = Append(cmds, d)
      <4>1. /\ Has(Append(cmds, d), {c}) <=> Has(cmds, {c}) \/ d \in {c}
            /\ Once(cmds, {c}) /\ ~(Has(cmds, {c}) /\ d \in {c}) => Once(Append(cmds, d), {c})
        BY <1>s, AppendPlaces
      <4>2. d = c => IsNew(c) /\ ~InCmds(c)
        BY <1>i, <2>1 DEF IsNew, Alone
      <4>3. IsNew(c) => ~InCmds(c)
        BY <1>i DEF Alone
      <4>. QED
        BY <1>i, <3>2, <4>1, <4>2, <4>3 DEF InCmds, OnceEach
    <3>. QED
      BY <2>1, <3>1, <3>2
  <2>5. Alone(c)'
    BY <1>i, <2>2, <2>3, <2>4 DEF Alone
  <2>6. OnceEach(c)'
    BY <1>i, <2>1, <2>4 DEF OnceEach
  <2>7. RequestFirst(c)'
    BY <1>i, <2>1, <2>2, <2>3, <2>4 DEF RequestFirst
  <2>. QED
    BY <2>5, <2>6, <2>7
<1>2. CASE Forward
  <2>. DEFINE d == Head(cmds)
              m == Message("request", call[d].id, d, TRUE)
  <2>1. /\ cmds # <<>> /\ d \in Calls /\ m \in PipeDown /\ cmds' = Tail(cmds)
        /\ pipe'.down = Append(pipe.down, m) /\ pipe'.up = pipe.up
        /\ call' = Told({pending[call[d].id]}, "offline", NoJob)
        /\ UNCHANGED <<toChrome, fromChrome, job>>
    BY <1>2, ForwardDoes
  <2>2. m.of = d
    BY DEF Message
  <2>n. IsNew(c)' <=> IsNew(c)
    <3>1. "offline" \in CallPhases \ {"new"} /\ NoJob \in Jobs \cup {NoJob}
      BY DEF CallPhases
    <3>2. \A cs : (Told(cs, "offline", NoJob)[c].phase = "new") <=> (call[c].phase = "new")
      BY <3>1, ToldCalls
    <3>. QED
      BY <2>1, <3>2 DEF IsNew
  <2>. HIDE DEF m, d
  <2>3. (m \in S) <=> (d \in {c})
    BY <1>d, <2>1, <2>2, StepMessageOf
  <2>4. /\ Has(Append(pipe.down, m), S) <=> Has(pipe.down, S) \/ m \in S
        /\ Once(pipe.down, S) /\ ~(Has(pipe.down, S) /\ m \in S) => Once(Append(pipe.down, m), S)
    BY <1>s, <2>1, AppendPlaces
  <2>5. /\ d \in {c} => InCmds(c) /\ ~InCmds(c)'
        /\ InCmds(c)' => InCmds(c)
        /\ Once(cmds', {c})
    BY <1>s, <1>i, <2>1, TailPlaces DEF d, InCmds, OnceEach
  <2>6. /\ InDown(c)' <=> InDown(c) \/ d \in {c}
        /\ InTo(c)' <=> InTo(c)
        /\ InFrom(c)' <=> InFrom(c)
        /\ InUp(c)' <=> InUp(c)
        /\ InTab(c)' <=> InTab(c)
    BY <1>d, <2>1, <2>3, <2>4 DEF InDown, InTo, InFrom, InUp, InTab
  <2>7. Alone(c)'
    BY <1>i, <2>5, <2>6, <2>n DEF Alone
  <2>8. OnceEach(c)'
    <3>1. d \in {c} => ~InDown(c)
      BY <1>i, <2>5 DEF Alone
    <3>. QED
      BY <1>i, <1>d, <2>1, <2>3, <2>4, <2>5, <3>1 DEF OnceEach, InDown
  <2>9. RequestFirst(c)'
    BY <1>i, <2>1, <2>5, <2>6, <2>n DEF RequestFirst
  <2>. QED
    BY <2>7, <2>8, <2>9
<1>3. CASE Respond
  <2>. DEFINE m == Head(pipe.up)
              phase == IF m.ok THEN "answered" ELSE "failed"
  <2>1. /\ pipe.up # <<>> /\ m \in PipeUp /\ pipe'.up = Tail(pipe.up) /\ pipe'.down = pipe.down
        /\ call' = Told({pending[m.id]}, phase, m.of)
        /\ UNCHANGED <<cmds, toChrome, fromChrome, job>>
    BY <1>3, RespondDoes
  <2>2. phase \in CallPhases \ {"new"} /\ m.of \in Jobs \cup {NoJob}
    BY <2>1, MessageFields DEF CallPhases, Jobs
  <2>. HIDE DEF m, phase
  <2>n. IsNew(c)' <=> IsNew(c)
    <3>1. \A cs : (Told(cs, phase, m.of)[c].phase = "new") <=> (call[c].phase = "new")
      BY <2>2, ToldCalls
    <3>. QED
      BY <2>1, <3>1 DEF IsNew
  <2>3. /\ InUp(c)' => InUp(c)
        /\ Once(pipe'.up, S)
    BY <1>s, <1>i, <1>d, <2>1, TailPlaces DEF InUp, OnceEach
  <2>4. /\ InCmds(c)' <=> InCmds(c)
        /\ InDown(c)' <=> InDown(c)
        /\ InTo(c)' <=> InTo(c)
        /\ InFrom(c)' <=> InFrom(c)
        /\ InTab(c)' <=> InTab(c)
    BY <2>1 DEF InCmds, InDown, InTo, InFrom, InTab
  <2>5. Alone(c)'
    BY <1>i, <2>3, <2>4, <2>n DEF Alone
  <2>6. OnceEach(c)'
    BY <1>i, <1>d, <2>1, <2>3 DEF OnceEach
  <2>7. RequestFirst(c)'
    BY <1>i, <2>1, <2>4, <2>n DEF RequestFirst
  <2>. QED
    BY <2>5, <2>6, <2>7
<1>4. CASE ReadLine
  <2>. DEFINE m == Head(pipe.down)
  <2>1. /\ pipe.down # <<>> /\ m \in PipeDown /\ m \in HostOut
        /\ pipe'.down = Tail(pipe.down) /\ pipe'.up = pipe.up /\ toChrome' = Append(toChrome, m)
        /\ UNCHANGED <<call, cmds, fromChrome, job>>
    BY <1>4, ReadLineDoes
  <2>2. /\ (m \in S) <=> (m.of = c)
        /\ m \in R => m \in S
    BY <1>d, <1>j, <2>1, StepMessageOf
  <2>3. /\ m \in S => InDown(c) /\ ~InDown(c)'
        /\ InDown(c)' => InDown(c)
        /\ Once(pipe'.down, S)
    BY <1>s, <1>i, <1>d, <2>1, TailPlaces DEF InDown, OnceEach
  <2>4. /\ Has(toChrome', S) <=> Has(toChrome, S) \/ m \in S
        /\ Once(toChrome, S) /\ ~(Has(toChrome, S) /\ m \in S) => Once(toChrome', S)
        /\ Has(toChrome', R) <=> Has(toChrome, R) \/ m \in R
    BY <1>s, <2>1, AppendPlaces
  <2>5. m \in S => ~InTo(c)
    BY <1>i, <2>3 DEF Alone
  <2>6. /\ InCmds(c)' <=> InCmds(c)
        /\ InTo(c)' <=> InTo(c) \/ m \in S
        /\ InFrom(c)' <=> InFrom(c)
        /\ InUp(c)' <=> InUp(c)
        /\ InTab(c)' <=> InTab(c)
        /\ IsNew(c)' <=> IsNew(c)
    BY <1>d, <2>1, <2>4 DEF InCmds, InTo, InFrom, InUp, InTab, IsNew
  <2>7. Alone(c)'
    BY <1>i, <2>3, <2>6 DEF Alone
  <2>8. OnceEach(c)'
    BY <1>i, <1>d, <2>1, <2>3, <2>4, <2>5 DEF OnceEach, InTo
  <2>9. RequestFirst(c)'
    BY <1>i, <1>d, <2>1, <2>2, <2>3, <2>4, <2>6 DEF RequestFirst
  <2>. QED
    BY <2>7, <2>8, <2>9
<1>5. CASE SaveScript
  <2>. DEFINE m == Head(fromChrome)
  <2>1. /\ fromChrome # <<>> /\ m \in HostIn /\ m.kind = "complete"
        /\ fromChrome' = Tail(fromChrome)
        /\ UNCHANGED <<call, cmds, pipe, job>>
    BY <1>5, SaveScriptDoes
  <2>2. PICK ok \in BOOLEAN : /\ Message("saved", 0, m.of, ok) \in HostOut
                              /\ toChrome' = Append(toChrome, Message("saved", 0, m.of, ok))
    BY <1>5, SaveScriptDoes
  <2>. DEFINE a == Message("saved", 0, m.of, ok)
  <2>3. a \in HostOut /\ a.kind = "saved" /\ toChrome' = Append(toChrome, a)
    BY <2>2, FieldsOfMessage
  <2>. HIDE DEF m, a
  <2>4. m \notin S /\ a \notin S /\ a \notin R
    BY <1>d, <2>1, <2>3, StepMessageOf
  <2>5. /\ Has(fromChrome', S) <=> Has(fromChrome, S)
        /\ Once(fromChrome, S) => Once(fromChrome', S)
    BY <1>s, <2>1, <2>4, TailPlaces DEF m
  <2>6. /\ Has(toChrome', S) <=> Has(toChrome, S)
        /\ Once(toChrome, S) => Once(toChrome', S)
        /\ Has(toChrome', R) <=> Has(toChrome, R)
    BY <1>s, <2>3, <2>4, AppendPlaces
  <2>7. /\ InCmds(c)' <=> InCmds(c)
        /\ InDown(c)' <=> InDown(c)
        /\ InTo(c)' <=> InTo(c)
        /\ InFrom(c)' <=> InFrom(c)
        /\ InUp(c)' <=> InUp(c)
        /\ InTab(c)' <=> InTab(c)
        /\ IsNew(c)' <=> IsNew(c)
    BY <1>d, <2>1, <2>5, <2>6 DEF InCmds, InDown, InTo, InFrom, InUp, InTab, IsNew
  <2>8. Alone(c)'
    BY <1>i, <2>7 DEF Alone
  <2>9. OnceEach(c)'
    BY <1>i, <1>d, <2>1, <2>5, <2>6 DEF OnceEach
  <2>10. RequestFirst(c)'
    BY <1>i, <1>d, <2>1, <2>6, <2>7 DEF RequestFirst
  <2>. QED
    BY <2>8, <2>9, <2>10
<1>6. CASE RelayResponse
  <2>. DEFINE m == Head(fromChrome)
              e == Message("error", m.id, m.of, FALSE)
  <2>1. /\ fromChrome # <<>> /\ m \in HostIn /\ m.kind = "response"
        /\ fromChrome' = Tail(fromChrome) /\ pipe'.down = pipe.down
        /\ \/ m \in PipeUp /\ pipe'.up = Append(pipe.up, m) /\ toChrome' = toChrome
           \/ e \in HostOut /\ toChrome' = Append(toChrome, e) /\ pipe' = pipe
        /\ UNCHANGED <<call, cmds, job>>
    BY <1>6, RelayDoes
  <2>2. e.kind = "error" /\ e.of = m.of
    BY DEF Message
  <2>. HIDE DEF m, e
  <2>3. /\ (m \in S) <=> (m.of = c)
        /\ e \in HostOut => /\ (e \in S) <=> (m.of = c)
                            /\ e \notin R
    BY <1>d, <2>1, <2>2, StepMessageOf
  <2>4. /\ m \in S => InFrom(c) /\ ~InFrom(c)'
        /\ InFrom(c)' => InFrom(c)
        /\ Once(fromChrome', S)
    BY <1>s, <1>i, <1>d, <2>1, TailPlaces DEF m, InFrom, OnceEach
  <2>5. m \in S => ~InUp(c) /\ ~InTo(c)
    BY <1>i, <2>4 DEF Alone
  <2>6. /\ InCmds(c)' <=> InCmds(c)
        /\ InDown(c)' <=> InDown(c)
        /\ InTab(c)' <=> InTab(c)
        /\ IsNew(c)' <=> IsNew(c)
    BY <2>1 DEF InCmds, InDown, InTab, IsNew
  <2>7. CASE m \in PipeUp /\ pipe'.up = Append(pipe.up, m) /\ toChrome' = toChrome
    <3>1. /\ Has(pipe'.up, S) <=> Has(pipe.up, S) \/ m \in S
          /\ Once(pipe.up, S) /\ ~(Has(pipe.up, S) /\ m \in S) => Once(pipe'.up, S)
      BY <1>s, <2>7, AppendPlaces
    <3>2. /\ InUp(c)' <=> InUp(c) \/ m \in S
          /\ InTo(c)' <=> InTo(c)
      BY <1>d, <2>7, <3>1 DEF InUp, InTo
    <3>3. Alone(c)'
      BY <1>i, <2>4, <2>6, <3>2 DEF Alone
    <3>4. OnceEach(c)'
      BY <1>i, <1>d, <2>1, <2>4, <2>5, <2>7, <3>1 DEF OnceEach, InUp
    <3>5. RequestFirst(c)'
      BY <1>i, <2>1, <2>6, <2>7 DEF RequestFirst
    <3>. QED
      BY <3>3, <3>4, <3>5
  <2>8. CASE e \in HostOut /\ toChrome' = Append(toChrome, e) /\ pipe' = pipe
    <3>1. /\ Has(toChrome', S) <=> Has(toChrome, S) \/ e \in S
          /\ Once(toChrome, S) /\ ~(Has(toChrome, S) /\ e \in S) => Once(toChrome', S)
          /\ Has(toChrome', R) <=> Has(toChrome, R) \/ e \in R
      BY <1>s, <2>8, AppendPlaces
    <3>2. /\ InTo(c)' <=> InTo(c) \/ m \in S
          /\ InUp(c)' <=> InUp(c)
          /\ (e \in S) <=> (m \in S)
      BY <1>d, <2>3, <2>8, <3>1 DEF InUp, InTo
    <3>3. Alone(c)'
      BY <1>i, <2>4, <2>6, <3>2 DEF Alone
    <3>4. OnceEach(c)'
      BY <1>i, <1>d, <2>1, <2>4, <2>5, <2>8, <3>1, <3>2 DEF OnceEach, InTo
    <3>5. RequestFirst(c)'
      BY <1>i, <1>d, <2>1, <2>3, <2>6, <2>8, <3>1 DEF RequestFirst
    <3>. QED
      BY <3>3, <3>4, <3>5
  <2>. QED
    BY <2>1, <2>7, <2>8
<1>7. CASE OnRequest
  <2>. DEFINE m == Head(toChrome)
  <2>1. /\ toChrome # <<>> /\ m \in HostOut /\ m.kind = "request" /\ m.of \in Calls
        /\ toChrome' = Tail(toChrome) /\ \A k \in Jobs \ {m.of} : job'[k] = job[k]
        /\ job'[m.of].phase = "tab"
        /\ UNCHANGED <<call, cmds, pipe, fromChrome>>
    BY <1>7, OnRequestDoes
  <2>. HIDE DEF m
  <2>2. (m \in S) <=> (m.of = c)
    BY <1>d, <2>1, StepMessageOf
  <2>3. /\ m \in S => InTo(c) /\ ~InTo(c)'
        /\ InTo(c)' => InTo(c)
        /\ Once(toChrome', S)
        /\ Has(toChrome', R) => Has(toChrome, R)
    BY <1>s, <1>i, <1>d, <2>1, TailPlaces DEF m, InTo, OnceEach
  <2>4. Has(toChrome', R) => InTo(c)'
    BY <1>d, <1>j, HasMore DEF InTo
  <2>5. /\ InCmds(c)' <=> InCmds(c)
        /\ InDown(c)' <=> InDown(c)
        /\ InFrom(c)' <=> InFrom(c)
        /\ InUp(c)' <=> InUp(c)
        /\ IsNew(c)' <=> IsNew(c)
    BY <2>1 DEF InCmds, InDown, InFrom, InUp, IsNew
  <2>6. /\ m \in S => InTab(c)'
        /\ m \notin S => job'[c] = job[c] /\ (InTab(c)' <=> InTab(c))
    BY <1>j, <2>1, <2>2 DEF InTab
  <2>7. Alone(c)'
    BY <1>i, <2>3, <2>5, <2>6 DEF Alone
  <2>8. OnceEach(c)'
    BY <1>i, <1>d, <2>1, <2>3 DEF OnceEach
  <2>9. RequestFirst(c)'
    <3>1. m \in S => ~IsNew(c) /\ ~InCmds(c) /\ ~InDown(c)
      BY <1>i, <2>3 DEF Alone
    <3>. QED
      BY <1>i, <1>d, <2>3, <2>4, <2>5, <2>6, <3>1 DEF RequestFirst
  <2>. QED
    BY <2>7, <2>8, <2>9
<1>8. CASE OnError
  <2>. DEFINE m == Head(toChrome)
              a == Message("response", m.id, m.of, m.ok)
  <2>1. /\ toChrome # <<>> /\ m \in HostOut /\ m.kind = "error" /\ m.of \in Calls
        /\ toChrome' = Tail(toChrome) /\ a \in HostIn /\ fromChrome' = Append(fromChrome, a)
        /\ UNCHANGED <<call, cmds, pipe, job>>
    BY <1>8, OnErrorDoes
  <2>2. a.kind = "response" /\ a.of = m.of
    BY FieldsOfMessage
  <2>. HIDE DEF m, a
  <2>3. /\ (m \in S) <=> (m.of = c)
        /\ (a \in S) <=> (m.of = c)
    BY <1>d, <2>1, <2>2, StepMessageOf
  <2>4. /\ m \in S => InTo(c) /\ ~InTo(c)'
        /\ InTo(c)' => InTo(c)
        /\ Once(toChrome', S)
        /\ Has(toChrome', R) => Has(toChrome, R)
    BY <1>s, <1>i, <1>d, <2>1, TailPlaces DEF m, InTo, OnceEach
  <2>5. /\ Has(fromChrome', S) <=> Has(fromChrome, S) \/ a \in S
        /\ Once(fromChrome, S) /\ ~(Has(fromChrome, S) /\ a \in S) => Once(fromChrome', S)
    BY <1>s, <2>1, AppendPlaces
  <2>6. m \in S => ~InFrom(c)
    BY <1>i, <2>4 DEF Alone
  <2>7. /\ InCmds(c)' <=> InCmds(c)
        /\ InDown(c)' <=> InDown(c)
        /\ InFrom(c)' <=> InFrom(c) \/ m \in S
        /\ InUp(c)' <=> InUp(c)
        /\ InTab(c)' <=> InTab(c)
        /\ IsNew(c)' <=> IsNew(c)
    BY <1>d, <2>1, <2>3, <2>5 DEF InCmds, InDown, InFrom, InUp, InTab, IsNew
  <2>8. Alone(c)'
    BY <1>i, <2>4, <2>7 DEF Alone
  <2>9. OnceEach(c)'
    BY <1>i, <1>d, <2>1, <2>3, <2>4, <2>5, <2>6 DEF OnceEach, InFrom
  <2>10. RequestFirst(c)'
    BY <1>i, <1>d, <2>1, <2>4, <2>7 DEF RequestFirst
  <2>. QED
    BY <2>8, <2>9, <2>10
<1>9. CASE OnSaved
  <2>. DEFINE m == Head(toChrome)
              j == pendingRecordingSave
  <2>1. /\ toChrome # <<>> /\ m \in HostOut /\ m.kind = "saved"
        /\ toChrome' = Tail(toChrome)
        /\ \/ j = NoJob /\ UNCHANGED <<fromChrome, job, pendingRecordingSave>>
           \/ Settles(j, "ended")
        /\ UNCHANGED <<call, cmds, pipe>>
    BY <1>9, OnSavedDoes
  <2>. HIDE DEF m, j
  <2>2. m \notin S /\ m \notin R
    BY <1>d, <2>1, StepMessageOf
  <2>3. /\ Has(toChrome', S) <=> InTo(c)
        /\ Once(toChrome', S)
        /\ Has(toChrome', R) => Has(toChrome, R)
    BY <1>s, <1>i, <1>d, <2>1, <2>2, TailPlaces DEF m, InTo, OnceEach
  <2>4. CASE UNCHANGED <<fromChrome, job>>
    <3>1. /\ InCmds(c)' <=> InCmds(c)
          /\ InDown(c)' <=> InDown(c)
          /\ InTo(c)' <=> InTo(c)
          /\ InFrom(c)' <=> InFrom(c)
          /\ InUp(c)' <=> InUp(c)
          /\ InTab(c)' <=> InTab(c)
          /\ IsNew(c)' <=> IsNew(c)
      BY <1>d, <2>1, <2>3, <2>4 DEF InCmds, InDown, InTo, InFrom, InUp, InTab, IsNew
    <3>2. Alone(c)'
      BY <1>i, <3>1 DEF Alone
    <3>3. OnceEach(c)'
      BY <1>i, <1>d, <2>1, <2>3, <2>4 DEF OnceEach
    <3>4. RequestFirst(c)'
      BY <1>i, <1>d, <2>3, <2>4, <3>1 DEF RequestFirst
    <3>. QED
      BY <3>2, <3>3, <3>4
  <2>5. CASE Settles(j, "ended")
    <3>1. j \in Jobs /\ job[j].phase = "saving"
      BY <2>5, NamesAssumption DEF j, Settles, SaveAwaited, Jobs
    <3>2. PICK ok \in BOOLEAN : fromChrome' = Responses(j, ok)
      BY <2>5 DEF Settles
    <3>3. job'[j].phase = "ended" /\ \A k \in Jobs \ {j} : job'[k] = job[k]
      BY <2>5 DEF Settles
    <3>4. "ended" \in JobPhases \ {"none", "tab", "saving"}
      BY DEF JobPhases
    <3>. QED
      BY <1>i, <1>d, <2>1, <2>3, <3>1, <3>2, <3>3, <3>4, AnswersMove
  <2>. QED
    BY <2>1, <2>4, <2>5
<1>10. ASSUME NEW p \in Popups, PopupStop(p) PROVE Alone(c)' /\ OnceEach(c)' /\ RequestFirst(c)'
  <2>1. /\ p \notin Calls /\ \A k \in Jobs \ {p} : job'[k] = job[k]
        /\ UNCHANGED <<call, cmds, pipe, toChrome, fromChrome>>
    BY <1>10, PopupStopDoes
  <2>2. job'[c] = job[c]
    BY <1>j, <2>1
  <2>. QED
    BY <1>i, <2>1, <2>2 DEF Alone, OnceEach, RequestFirst, InCmds, InDown, InTo, InFrom, InUp, InTab,
       IsNew
<1>11. ASSUME NEW j \in Jobs, NEW ok \in BOOLEAN, TabAnswers(j, ok)
       PROVE  Alone(c)' /\ OnceEach(c)' /\ RequestFirst(c)'
  <2>1. /\ job[j].phase = "tab" /\ \A k \in Jobs \ {j} : job'[k] = job[k]
        /\ job'[j].phase = "ended" /\ fromChrome' = Responses(j, ok)
        /\ UNCHANGED <<call, cmds, pipe, toChrome>>
    BY <1>11, TabAnswersDoes
  <2>2. "ended" \in JobPhases \ {"none", "tab", "saving"}
    BY DEF JobPhases
  <2>3. /\ Has(toChrome', S) <=> InTo(c)
        /\ Once(toChrome', S)
        /\ Has(toChrome', R) => Has(toChrome, R)
    BY <1>i, <1>d, <2>1 DEF InTo, OnceEach
  <2>. QED
    BY <1>i, <1>d, <2>1, <2>2, <2>3, AnswersMove
<1>12. ASSUME NEW j \in Jobs, postRecordingComplete(j)
       PROVE  Alone(c)' /\ OnceEach(c)' /\ RequestFirst(c)'
  <2>. DEFINE a == Message("complete", 0, j, TRUE)
  <2>1. /\ job[j].phase = "tab" /\ \A k \in Jobs \ {j} : job'[k] = job[k]
        /\ \/ /\ job'[j].phase = "saving" /\ a \in HostIn
              /\ fromChrome' = Append(fromChrome, a)
           \/ /\ job'[j].phase = "ended"
              /\ fromChrome' = Responses(j, FALSE)
        /\ UNCHANGED <<call, cmds, pipe, toChrome>>
    BY <1>12, PostDoes
  <2>2. a.kind = "complete"
    BY DEF Message
  <2>. HIDE DEF a
  <2>3. /\ Has(toChrome', S) <=> InTo(c)
        /\ Once(toChrome', S)
        /\ Has(toChrome', R) => Has(toChrome, R)
    BY <1>i, <1>d, <2>1 DEF InTo, OnceEach
  <2>4. CASE job'[j].phase = "ended" /\ fromChrome' = Responses(j, FALSE)
    <3>1. "ended" \in JobPhases \ {"none", "tab", "saving"}
      BY DEF JobPhases
    <3>. QED
      BY <1>i, <1>d, <2>1, <2>3, <2>4, <3>1, AnswersMove
  <2>5. CASE job'[j].phase = "saving" /\ a \in HostIn /\ fromChrome' = Append(fromChrome, a)
    <3>1. a \notin S
      BY <1>d, <2>2, <2>5, StepMessageOf
    <3>2. /\ Has(fromChrome', S) <=> Has(fromChrome, S)
          /\ Once(fromChrome, S) => Once(fromChrome', S)
      BY <1>s, <2>5, <3>1, AppendPlaces
    <3>3. /\ InTab(c)' <=> InTab(c)
          /\ job[c].phase = "none" => job'[c].phase = "none"
      BY <1>j, <2>1, <2>5 DEF InTab
    <3>4. /\ InCmds(c)' <=> InCmds(c)
          /\ InDown(c)' <=> InDown(c)
          /\ InTo(c)' <=> InTo(c)
          /\ InFrom(c)' <=> InFrom(c)
          /\ InUp(c)' <=> InUp(c)
          /\ IsNew(c)' <=> IsNew(c)
      BY <1>d, <2>1, <3>2 DEF InCmds, InDown, InTo, InFrom, InUp, IsNew
    <3>5. Alone(c)'
      BY <1>i, <3>3, <3>4 DEF Alone
    <3>6. OnceEach(c)'
      BY <1>i, <1>d, <2>1, <3>2 DEF OnceEach
    <3>7. RequestFirst(c)'
      BY <1>i, <2>1, <3>3, <3>4 DEF RequestFirst
    <3>. QED
      BY <3>5, <3>6, <3>7
  <2>. QED
    BY <2>1, <2>4, <2>5
<1>13. ASSUME NEW j \in Jobs, SaveTimeout(j) PROVE Alone(c)' /\ OnceEach(c)' /\ RequestFirst(c)'
  <2>. DEFINE k == pendingRecordingSave
  <2>1. /\ \/ k = NoJob /\ UNCHANGED <<fromChrome, job, pendingRecordingSave>>
           \/ Settles(k, "givenUp")
        /\ UNCHANGED <<call, cmds, pipe, toChrome>>
    BY <1>13, SaveTimeoutDoes
  <2>. HIDE DEF k
  <2>2. CASE UNCHANGED <<fromChrome, job>>
    BY <1>i, <2>1, <2>2 DEF Alone, OnceEach, RequestFirst, InCmds, InDown, InTo, InFrom, InUp, InTab,
       IsNew
  <2>3. CASE Settles(k, "givenUp")
    <3>1. k \in Jobs /\ job[k].phase = "saving"
      BY <2>3, NamesAssumption DEF k, Settles, SaveAwaited, Jobs
    <3>2. PICK ok \in BOOLEAN : fromChrome' = Responses(k, ok)
      BY <2>3 DEF Settles
    <3>3. job'[k].phase = "givenUp" /\ \A i \in Jobs \ {k} : job'[i] = job[i]
      BY <2>3 DEF Settles
    <3>4. "givenUp" \in JobPhases \ {"none", "tab", "saving"}
      BY DEF JobPhases
    <3>5. /\ Has(toChrome', S) <=> InTo(c)
          /\ Once(toChrome', S)
          /\ Has(toChrome', R) => Has(toChrome, R)
      BY <1>i, <1>d, <2>1 DEF InTo, OnceEach
    <3>. QED
      BY <1>i, <1>d, <2>1, <3>1, <3>2, <3>3, <3>4, <3>5, AnswersMove
  <2>. QED
    BY <2>1, <2>2, <2>3
<1>14. CASE Empties
  <2>1. Emptied
    BY <1>14, EmptiesDoes
  <2>2. /\ cmds' \in {cmds, <<>>} /\ pipe'.down \in {pipe.down, <<>>} /\ pipe'.up \in {pipe.up, <<>>}
        /\ toChrome' \in {toChrome, <<>>} /\ fromChrome' \in {fromChrome, <<>>}
    BY <2>1 DEF Emptied
  <2>3. IsNew(c)' <=> IsNew(c)
    BY <2>1 DEF Emptied, IsNew
  <2>4. /\ InTab(c)' => InTab(c)
        /\ job[c].phase = "none" => job'[c].phase = "none"
    BY <1>j, <2>1 DEF Emptied, InTab
  <2>5. /\ InCmds(c)' => InCmds(c)
        /\ InDown(c)' => InDown(c)
        /\ InTo(c)' => InTo(c)
        /\ InFrom(c)' => InFrom(c)
        /\ InUp(c)' => InUp(c)
        /\ Has(toChrome', R) => Has(toChrome, R)
    BY <2>2, EmptyHasNone DEF InCmds, InDown, InTo, InFrom, InUp
  <2>6. Alone(c)'
    BY <1>i, <2>3, <2>4, <2>5 DEF Alone
  <2>7. OnceEach(c)'
    BY <1>i, <2>2, EmptyHasNone DEF OnceEach
  <2>8. RequestFirst(c)'
    BY <1>i, <1>d, <2>3, <2>4, <2>5 DEF RequestFirst
  <2>. QED
    BY <2>6, <2>7, <2>8
<1>15. CASE UNCHANGED vars
  BY <1>i, <1>15 DEF vars, server, channels, extension, Alone, OnceEach, RequestFirst, InCmds, InDown,
     InTo, InFrom, InUp, InTab, IsNew
<1>. QED
  BY <1>1, <1>2, <1>3, <1>4, <1>5, <1>6, <1>7, <1>8, <1>9, <1>10, <1>11, <1>12, <1>13, <1>14, <1>15
     DEF Next, Empties

-----------------------------------------------------------------------------
(* The numbers of the calls                                                *)

\* A call keeps its number once it is made, and is told an outcome by Respond.
LEMMA CallsStep ==
  ASSUME TypeOK, [Next]_vars, NEW c \in Calls
  PROVE  /\ ~IsNew(c) => call'[c].id = call[c].id /\ call'[c].phase # "new"
         /\ call[c].id = call[c].at => call'[c].id = call'[c].at
         /\ call'[c].phase \in {"answered", "failed"} =>
              \/ call'[c] = call[c]
              \/ Respond /\ c = pending[Head(pipe.up).id] /\ call'[c].of = Head(pipe.up).of
<1>. DEFINE Kept == /\ call'[c].id = call[c].id /\ call'[c].at = call[c].at
                    /\ (call'[c].phase = "new") <=> (call[c].phase = "new")
                    /\ call'[c].phase \in {"answered", "failed"} => call'[c] = call[c]
<1>1. ASSUME NEW d \in Calls, Execute(d)
      PROVE  \/ Kept
             \/ IsNew(c) /\ call'[c].id = call'[c].at /\ call'[c].phase \notin {"answered", "failed"}
  <2>1. /\ call[d].phase = "new" /\ \A e \in Calls \ {d} : call'[e] = call[e]
        /\ call'[d].phase \in {"waiting", "offline"} /\ call'[d].id = call'[d].at
    BY <1>1, ExecuteDoes
  <2>. QED
    BY <2>1 DEF IsNew
<1>2. ASSUME Forward PROVE Kept
  <2>1. PICK cs : call' = Told(cs, "offline", NoJob)
    BY <1>2 DEF Forward
  <2>2. "offline" \in CallPhases \ {"new"} /\ NoJob \in Jobs \cup {NoJob}
    BY DEF CallPhases
  <2>3. /\ call'[c].id = call[c].id /\ call'[c].at = call[c].at
        /\ (call'[c].phase = "new") <=> (call[c].phase = "new")
        /\ call'[c] = call[c] \/ call'[c].phase = "offline"
    BY <2>1, <2>2, ToldCalls
  <2>. QED
    BY <2>3
<1>3. ASSUME Respond
      PROVE  /\ call'[c].id = call[c].id /\ call'[c].at = call[c].at
             /\ (call'[c].phase = "new") <=> (call[c].phase = "new")
             /\ \/ call'[c] = call[c]
                \/ c = pending[Head(pipe.up).id] /\ call'[c].of = Head(pipe.up).of
  <2>. DEFINE m == Head(pipe.up)
              phase == IF m.ok THEN "answered" ELSE "failed"
              cs == {pending[m.id]}
  <2>1. m \in PipeUp /\ call' = Told(cs, phase, m.of)
    BY <1>3, RespondDoes
  <2>2. phase \in CallPhases \ {"new"} /\ m.of \in Jobs \cup {NoJob}
    BY <2>1, MessageFields DEF CallPhases, Jobs
  <2>3. c \in cs => c = pending[m.id]
    OBVIOUS
  <2>. HIDE DEF phase, cs, m
  <2>4. /\ call'[c].id = call[c].id /\ call'[c].at = call[c].at
        /\ (call'[c].phase = "new") <=> (call[c].phase = "new")
        /\ call'[c] = call[c] \/ (c \in cs /\ call'[c].of = m.of)
    <3>. DEFINE t == Told(cs, phase, m.of)
    <3>1. /\ t[c].id = call[c].id /\ t[c].at = call[c].at
          /\ (t[c].phase = "new") <=> (call[c].phase = "new")
          /\ t[c] = call[c] \/ (c \in cs /\ t[c].of = m.of)
      BY <2>2, ToldCalls
    <3>2. call' = t
      BY <2>1
    <3>. HIDE DEF t
    <3>. QED
      BY <3>1, <3>2
  <2>. QED
    BY <2>3, <2>4 DEF m
<1>4. ASSUME Empties PROVE Kept
  <2>1. Emptied
    BY <1>4, EmptiesDoes
  <2>. QED
    BY <2>1 DEF Emptied
<1>5. CASE UNCHANGED call
  BY <1>5 DEF IsNew
<1>. HIDE DEF Kept
<1>8. ASSUME Kept
      PROVE  /\ ~IsNew(c) => call'[c].id = call[c].id /\ call'[c].phase # "new"
             /\ call[c].id = call[c].at => call'[c].id = call'[c].at
             /\ call'[c].phase \in {"answered", "failed"} => call'[c] = call[c]
  BY <1>8 DEF Kept, IsNew
<1>6. UNCHANGED vars => UNCHANGED call
  BY DEF vars
<1>7. \/ \E d \in Calls : Execute(d)
      \/ Forward \/ Respond \/ Empties \/ UNCHANGED call
  BY <1>6 DEF Next, Empties, ReadLine, SaveScript, RelayResponse, OnRequest, OnError, OnSaved, PopupStop,
     TabAnswers, postRecordingComplete, SaveTimeout, Elsewhere
<1>. QED
  BY <1>1, <1>2, <1>3, <1>4, <1>5, <1>7, <1>8 DEF IsNew

\* A message about a step is about a call that was made, under its number.
IsAsked(m) ==
  m.kind \in {"request", "response", "error"} =>
    m.of \in Calls /\ ~IsNew(m.of) /\ m.id = call[m.of].id

LEMMA AllAsked ==
  ASSUME TypeOK, StepInv, Numbered, NEW m \in OnTheWay
  PROVE  IsAsked(m)
<1>. SUFFICES ASSUME m.kind \in {"request", "response", "error"} PROVE m.of \in Calls /\ ~IsNew(m.of)
  BY DEF Numbered, IsAsked, Asked
<1>s. /\ toChrome \in Seq(HostOut) /\ fromChrome \in Seq(HostIn)
      /\ pipe.down \in Seq(PipeDown) /\ pipe.up \in Seq(PipeUp)
  BY DEF TypeOK
<1>1. CASE m \in Elems(pipe.down)
  <2>1. m \in PipeDown
    BY <1>s, <1>1, ElemsOf
  <2>2. m.of \in Calls /\ m \in StepMessages(m.of)
    BY <2>1, MessageFields, StepMessageOf
  <2>3. InDown(m.of)
    BY <1>1, <2>2 DEF InDown, Elems, Has
  <2>. QED
    BY <2>2, <2>3 DEF StepInv, Alone
<1>2. CASE m \in Elems(pipe.up)
  <2>1. m \in PipeUp
    BY <1>s, <1>2, ElemsOf
  <2>2. m.of \in Calls /\ m \in StepMessages(m.of)
    BY <2>1, MessageFields, StepMessageOf
  <2>3. InUp(m.of)
    BY <1>2, <2>2 DEF InUp, Elems, Has
  <2>. QED
    BY <2>2, <2>3 DEF StepInv, Alone
<1>3. CASE m \in Elems(toChrome)
  <2>1. m \in HostOut
    BY <1>s, <1>3, ElemsOf
  <2>2. m.of \in Calls /\ m \in StepMessages(m.of)
    BY <2>1, MessageFields, StepMessageOf
  <2>3. InTo(m.of)
    BY <1>3, <2>2 DEF InTo, Elems, Has
  <2>. QED
    BY <2>2, <2>3 DEF StepInv, Alone
<1>4. CASE m \in Elems(fromChrome)
  <2>1. m \in HostIn
    BY <1>s, <1>4, ElemsOf
  <2>2. m.of \in Calls /\ m \in StepMessages(m.of)
    BY <2>1, MessageFields, StepMessageOf
  <2>3. InFrom(m.of)
    BY <1>4, <2>2 DEF InFrom, Elems, Has
  <2>. QED
    BY <2>2, <2>3 DEF StepInv, Alone
<1>. QED
  BY <1>1, <1>2, <1>3, <1>4 DEF OnTheWay

\* An answer carries the number of its call.
LEMMA ResponseAsked ==
  ASSUME TypeOK, StepInv, NEW j \in Jobs, job[j].phase \in {"tab", "saving"}, NEW ok \in BOOLEAN,
         NEW m \in Elems(Responses(j, ok)), m \notin Elems(fromChrome)
  PROVE  IsAsked(m) /\ m.kind = "response"
<1>. DEFINE a == Message("response", call[j].id, j, ok)
<1>1. j \in Calls /\ Responses(j, ok) = Append(fromChrome, a)
  BY ResponsesTyped
<1>2. fromChrome \in Seq(HostIn)
  BY DEF TypeOK
<1>3. a \in HostIn
  <2>1. call[j].id \in Ids
    BY <1>1 DEF TypeOK, CallRecords
  <2>. QED
    BY <1>1, <2>1, MessagesTyped
<1>4. a.kind = "response" /\ a.of = j /\ a.id = call[j].id
  BY DEF Message
<1>. HIDE DEF a
<1>5. m = a
  BY <1>1, <1>2, <1>3, ElemsOf
<1>6. ~IsNew(j)
  BY <1>1 DEF StepInv, Alone, InTab
<1>. QED
  BY <1>1, <1>4, <1>5, <1>6 DEF IsAsked

LEMMA MessageStep ==
  ASSUME TypeOK, StepInv, Numbered, SaveAwaited, [Next]_vars, NEW m \in OnTheWay'
  PROVE  IsAsked(m)
<1>s. /\ cmds \in Seq(Calls) /\ toChrome \in Seq(HostOut) /\ fromChrome \in Seq(HostIn)
      /\ pipe.down \in Seq(PipeDown) /\ pipe.up \in Seq(PipeUp)
  BY DEF TypeOK
<1>0. \A n \in OnTheWay : IsAsked(n)
  BY AllAsked
<1>w. /\ OnTheWay' = Elems(pipe'.down) \cup Elems(pipe'.up) \cup Elems(toChrome')
                       \cup Elems(fromChrome')
      /\ OnTheWay = Elems(pipe.down) \cup Elems(pipe.up) \cup Elems(toChrome)
                       \cup Elems(fromChrome)
  BY DEF OnTheWay
<1>1. ASSUME NEW d \in Calls, Execute(d) PROVE m \in OnTheWay
  <2>1. UNCHANGED <<pipe, toChrome, fromChrome>>
    BY <1>1, ExecuteDoes
  <2>. QED
    BY <1>w, <2>1
<1>2. CASE Forward
  <2>. DEFINE c == Head(cmds)
              a == Message("request", call[c].id, c, TRUE)
  <2>1. /\ cmds # <<>> /\ c \in Calls /\ a \in PipeDown
        /\ pipe'.down = Append(pipe.down, a) /\ pipe'.up = pipe.up
        /\ UNCHANGED <<toChrome, fromChrome>>
    BY <1>2, ForwardDoes
  <2>2. a.of = c /\ a.id = call[c].id
    BY DEF Message
  <2>3. ~IsNew(c)
    <3>1. InCmds(c)
      BY <1>s, <2>1, TailPlaces DEF InCmds
    <3>. QED
      BY <2>1, <3>1 DEF StepInv, Alone
  <2>. HIDE DEF a, c
  <2>4. Elems(pipe'.down) = Elems(pipe.down) \cup {a}
    BY <1>s, <2>1, ElemsOf
  <2>5. m \in OnTheWay \/ m = a
    BY <1>w, <2>1, <2>4
  <2>. QED
    BY <1>0, <2>1, <2>2, <2>3, <2>5 DEF IsAsked
<1>3. CASE Respond
  <2>1. /\ pipe.up # <<>> /\ pipe'.up = Tail(pipe.up) /\ pipe'.down = pipe.down
        /\ UNCHANGED <<toChrome, fromChrome>>
    BY <1>3, RespondDoes
  <2>2. Elems(pipe'.up) \subseteq Elems(pipe.up)
    BY <1>s, <2>1, ElemsOf
  <2>. QED
    BY <1>0, <1>w, <2>1, <2>2
<1>4. CASE ReadLine
  <2>1. /\ pipe.down # <<>> /\ Head(pipe.down) \in HostOut /\ toChrome' = Append(toChrome, Head(pipe.down))
        /\ pipe'.down = Tail(pipe.down) /\ pipe'.up = pipe.up
        /\ UNCHANGED fromChrome
    BY <1>4, ReadLineDoes
  <2>2. Elems(pipe'.down) \subseteq Elems(pipe.down) /\ Head(pipe.down) \in Elems(pipe.down)
    BY <1>s, <2>1, ElemsOf
  <2>3. Elems(toChrome') = Elems(toChrome) \cup {Head(pipe.down)}
    BY <1>s, <2>1, ElemsOf
  <2>. QED
    BY <1>0, <1>w, <2>1, <2>2, <2>3
<1>5. CASE SaveScript
  <2>1. /\ fromChrome # <<>> /\ fromChrome' = Tail(fromChrome) /\ UNCHANGED pipe
    BY <1>5, SaveScriptDoes
  <2>2. PICK ok \in BOOLEAN : /\ Message("saved", 0, Head(fromChrome).of, ok) \in HostOut
                              /\ toChrome' = Append(toChrome, Message("saved", 0, Head(fromChrome).of, ok))
    BY <1>5, SaveScriptDoes
  <2>. DEFINE a == Message("saved", 0, Head(fromChrome).of, ok)
  <2>3. a \in HostOut /\ a.kind = "saved" /\ toChrome' = Append(toChrome, a)
    BY <2>2 DEF Message
  <2>. HIDE DEF a
  <2>4. Elems(fromChrome') \subseteq Elems(fromChrome) /\ Elems(toChrome') = Elems(toChrome) \cup {a}
    BY <1>s, <2>1, <2>3, ElemsOf
  <2>5. m \in OnTheWay \/ m = a
    BY <1>w, <2>1, <2>4
  <2>. QED
    BY <1>0, <2>3, <2>5 DEF IsAsked
<1>6. CASE RelayResponse
  <2>. DEFINE r == Head(fromChrome)
              e == Message("error", r.id, r.of, FALSE)
  <2>1. /\ fromChrome # <<>> /\ r.kind = "response"
        /\ fromChrome' = Tail(fromChrome) /\ pipe'.down = pipe.down
        /\ \/ r \in PipeUp /\ pipe'.up = Append(pipe.up, r) /\ toChrome' = toChrome
           \/ e \in HostOut /\ toChrome' = Append(toChrome, e) /\ pipe' = pipe
    BY <1>6, RelayDoes
  <2>2. e.of = r.of /\ e.id = r.id
    BY DEF Message
  <2>. HIDE DEF e
  <2>3. Elems(fromChrome') \subseteq Elems(fromChrome) /\ r \in Elems(fromChrome)
    BY <1>s, <2>1, ElemsOf
  <2>4. m \in OnTheWay \/ m = e
    <3>1. CASE r \in PipeUp /\ pipe'.up = Append(pipe.up, r) /\ toChrome' = toChrome
      <4>1. Elems(pipe'.up) = Elems(pipe.up) \cup {r}
        BY <1>s, <3>1, ElemsOf
      <4>. QED
        BY <1>w, <2>1, <2>3, <3>1, <4>1
    <3>2. CASE e \in HostOut /\ toChrome' = Append(toChrome, e) /\ pipe' = pipe
      <4>1. Elems(toChrome') = Elems(toChrome) \cup {e}
        BY <1>s, <3>2, ElemsOf
      <4>. QED
        BY <1>w, <2>1, <2>3, <3>2, <4>1
    <3>. QED
      BY <2>1, <3>1, <3>2
  <2>5. IsAsked(r)
    BY <1>0, <1>w, <2>3
  <2>. QED
    BY <1>0, <2>1, <2>2, <2>4, <2>5 DEF IsAsked
<1>7. CASE OnRequest
  <2>1. toChrome # <<>> /\ toChrome' = Tail(toChrome) /\ UNCHANGED <<pipe, fromChrome>>
    BY <1>7, OnRequestDoes
  <2>2. Elems(toChrome') \subseteq Elems(toChrome)
    BY <1>s, <2>1, ElemsOf
  <2>. QED
    BY <1>0, <1>w, <2>1, <2>2
<1>8. CASE OnError
  <2>. DEFINE r == Head(toChrome)
              a == Message("response", r.id, r.of, r.ok)
  <2>1. /\ toChrome # <<>> /\ r.kind = "error" /\ toChrome' = Tail(toChrome)
        /\ a \in HostIn /\ fromChrome' = Append(fromChrome, a) /\ UNCHANGED pipe
    BY <1>8, OnErrorDoes
  <2>2. a.of = r.of /\ a.id = r.id
    BY DEF Message
  <2>. HIDE DEF a
  <2>3. Elems(toChrome') \subseteq Elems(toChrome) /\ r \in Elems(toChrome)
    BY <1>s, <2>1, ElemsOf
  <2>4. Elems(fromChrome') = Elems(fromChrome) \cup {a}
    BY <1>s, <2>1, ElemsOf
  <2>5. m \in OnTheWay \/ m = a
    BY <1>w, <2>1, <2>3, <2>4
  <2>6. IsAsked(r)
    BY <1>0, <1>w, <2>3
  <2>. QED
    BY <1>0, <2>1, <2>2, <2>5, <2>6 DEF IsAsked
<1>9. CASE OnSaved
  <2>1. /\ toChrome # <<>> /\ toChrome' = Tail(toChrome)
        /\ \/ UNCHANGED fromChrome
           \/ Settles(pendingRecordingSave, "ended")
        /\ UNCHANGED pipe
    BY <1>9, OnSavedDoes
  <2>2. Elems(toChrome') \subseteq Elems(toChrome)
    BY <1>s, <2>1, ElemsOf
  <2>3. CASE UNCHANGED fromChrome
    BY <1>0, <1>w, <2>1, <2>2, <2>3
  <2>4. CASE Settles(pendingRecordingSave, "ended")
    <3>1. /\ pendingRecordingSave \in Jobs /\ job[pendingRecordingSave].phase = "saving"
          /\ \E ok \in BOOLEAN : fromChrome' = Responses(pendingRecordingSave, ok)
      BY <2>4, NamesAssumption DEF Settles, SaveAwaited, Jobs
    <3>2. m \in OnTheWay \/ (m \in Elems(fromChrome') /\ m \notin Elems(fromChrome))
      BY <1>w, <2>1, <2>2
    <3>. QED
      BY <1>0, <3>1, <3>2, ResponseAsked
  <2>. QED
    BY <2>1, <2>3, <2>4
<1>10. ASSUME NEW p \in Popups, PopupStop(p) PROVE m \in OnTheWay
  <2>1. UNCHANGED <<pipe, toChrome, fromChrome>>
    BY <1>10, PopupStopDoes
  <2>. QED
    BY <1>w, <2>1
<1>11. ASSUME NEW j \in Jobs, NEW ok \in BOOLEAN, TabAnswers(j, ok) PROVE IsAsked(m)
  <2>1. job[j].phase = "tab" /\ fromChrome' = Responses(j, ok) /\ UNCHANGED <<pipe, toChrome>>
    BY <1>11, TabAnswersDoes
  <2>2. m \in OnTheWay \/ (m \in Elems(fromChrome') /\ m \notin Elems(fromChrome))
    BY <1>w, <2>1
  <2>. QED
    BY <1>0, <2>1, <2>2, ResponseAsked
<1>12. ASSUME NEW j \in Jobs, postRecordingComplete(j) PROVE IsAsked(m)
  <2>. DEFINE a == Message("complete", 0, j, TRUE)
  <2>1. /\ job[j].phase = "tab" /\ UNCHANGED <<pipe, toChrome>>
        /\ \/ a \in HostIn /\ fromChrome' = Append(fromChrome, a)
           \/ fromChrome' = Responses(j, FALSE)
    BY <1>12, PostDoes
  <2>2. a.kind = "complete"
    BY DEF Message
  <2>. HIDE DEF a
  <2>3. CASE a \in HostIn /\ fromChrome' = Append(fromChrome, a)
    <3>1. Elems(fromChrome') = Elems(fromChrome) \cup {a}
      BY <1>s, <2>3, ElemsOf
    <3>. QED
      BY <1>0, <1>w, <2>1, <2>2, <3>1 DEF IsAsked
  <2>4. CASE fromChrome' = Responses(j, FALSE)
    <3>1. m \in OnTheWay \/ (m \in Elems(fromChrome') /\ m \notin Elems(fromChrome))
      BY <1>w, <2>1
    <3>. QED
      BY <1>0, <2>1, <2>4, <3>1, ResponseAsked
  <2>. QED
    BY <2>1, <2>3, <2>4
<1>13. ASSUME NEW j \in Jobs, SaveTimeout(j) PROVE IsAsked(m)
  <2>1. /\ \/ UNCHANGED fromChrome
           \/ Settles(pendingRecordingSave, "givenUp")
        /\ UNCHANGED <<pipe, toChrome>>
    BY <1>13, SaveTimeoutDoes
  <2>2. CASE UNCHANGED fromChrome
    BY <1>0, <1>w, <2>1, <2>2
  <2>3. CASE Settles(pendingRecordingSave, "givenUp")
    <3>1. /\ pendingRecordingSave \in Jobs /\ job[pendingRecordingSave].phase = "saving"
          /\ \E ok \in BOOLEAN : fromChrome' = Responses(pendingRecordingSave, ok)
      BY <2>3, NamesAssumption DEF Settles, SaveAwaited, Jobs
    <3>2. m \in OnTheWay \/ (m \in Elems(fromChrome') /\ m \notin Elems(fromChrome))
      BY <1>w, <2>1
    <3>. QED
      BY <1>0, <3>1, <3>2, ResponseAsked
  <2>. QED
    BY <2>1, <2>2, <2>3
<1>14. CASE Empties
  <2>1. /\ pipe'.down \in {pipe.down, <<>>} /\ pipe'.up \in {pipe.up, <<>>}
        /\ toChrome' \in {toChrome, <<>>} /\ fromChrome' \in {fromChrome, <<>>}
    BY <1>14, EmptiesDoes DEF Emptied
  <2>2. Elems(<<>>) = {}
    BY EmptyHasNone
  <2>. QED
    BY <1>0, <1>w, <2>1, <2>2
<1>15. CASE UNCHANGED vars
  BY <1>0, <1>15 DEF vars, channels, OnTheWay
<1>. QED
  BY <1>0, <1>1, <1>2, <1>3, <1>4, <1>5, <1>6, <1>7, <1>8, <1>9, <1>10, <1>11, <1>12, <1>13, <1>14,
     <1>15 DEF Next, Empties

LEMMA NumberedInit == Init => Numbered
<1>. SUFFICES ASSUME Init PROVE Numbered
  OBVIOUS
<1>1. \A c \in Calls : call[c].id = call[c].at /\ call[c].phase = "new"
  BY DEF Init, NewCall
<1>2. \A i \in Ids : pending[i] = NoJob
  BY DEF Init, NoneAwaited
<1>3. OnTheWay = {}
  <2>1. pipe.down = <<>> /\ pipe.up = <<>> /\ toChrome = <<>> /\ fromChrome = <<>>
    BY DEF Init
  <2>. QED
    BY <2>1, EmptyHasNone DEF OnTheWay
<1>. QED
  BY <1>1, <1>2, <1>3 DEF Numbered

LEMMA NumberedStep ==
  TypeOK /\ StepInv /\ Numbered /\ SaveAwaited /\ [Next]_vars => Numbered'
<1>. SUFFICES ASSUME TypeOK, StepInv, Numbered, SaveAwaited, [Next]_vars PROVE Numbered'
  OBVIOUS
<1>1. \A c \in Calls : ~IsNew(c) => call'[c].id = call[c].id /\ call'[c].phase # "new"
  BY CallsStep
<1>2. ASSUME NEW c \in Calls PROVE call'[c].id = call'[c].at
  BY CallsStep DEF Numbered
<1>3. ASSUME NEW i \in Ids, pending'[i] # NoJob
      PROVE  pending'[i] \in Calls /\ ~IsNew(pending'[i]) /\ call[pending'[i]].id = i
  <2>1. CASE pending'[i] = pending[i]
    BY <1>3, <2>1 DEF Numbered, TypeOK
  <2>2. CASE Forward
    <3>. DEFINE c == Head(cmds)
    <3>1. /\ cmds # <<>> /\ c \in Calls /\ pending'[call[c].id] = c
          /\ \A k \in Ids \ {call[c].id} : pending'[k] = pending[k]
      BY <2>2, ForwardDoes
    <3>2. InCmds(c)
      BY <3>1, TailPlaces DEF InCmds, TypeOK
    <3>3. ~IsNew(c)
      BY <3>1, <3>2 DEF StepInv, Alone
    <3>. HIDE DEF c
    <3>4. i = call[c].id \/ pending'[i] = pending[i]
      BY <3>1
    <3>. QED
      BY <2>1, <3>1, <3>3, <3>4
  <2>3. CASE Respond
    <3>1. \A k \in Ids : pending'[k] \in {pending[k], NoJob}
      BY <2>3, RespondDoes
    <3>. QED
      BY <1>3, <2>1, <3>1
  <2>4. CASE Empties
    <3>1. pending' \in {pending, NoneAwaited}
      BY <2>4, EmptiesDoes DEF Emptied
    <3>. QED
      BY <1>3, <2>1, <3>1 DEF NoneAwaited
  <2>5. \/ Forward \/ Respond \/ Empties \/ UNCHANGED pending
    BY DEF Next, Empties, Execute, ReadLine, SaveScript, RelayResponse, OnRequest, OnError, OnSaved,
       PopupStop, TabAnswers, postRecordingComplete, SaveTimeout, Elsewhere, server, vars
  <2>. QED
    BY <2>1, <2>2, <2>3, <2>4, <2>5
<1>4. ASSUME NEW c \in Calls, call'[c].phase \in {"answered", "failed"}
      PROVE  /\ call'[c].of \in Calls /\ ~IsNew(call'[c].of) /\ ~IsNew(c)
             /\ call[call'[c].of].id = call[c].id
  <2>1. CASE call'[c] = call[c]
    BY <1>4, <2>1 DEF Numbered, IsNew
  <2>2. CASE Respond /\ c = pending[Head(pipe.up).id] /\ call'[c].of = Head(pipe.up).of
    <3>. DEFINE m == Head(pipe.up)
    <3>1. pipe.up # <<>> /\ m \in PipeUp
      BY <2>2, RespondDoes
    <3>2. m \in OnTheWay
      BY <3>1, ElemsOf DEF OnTheWay, TypeOK
    <3>3. m.kind = "response" /\ m.id \in Ids
      BY <3>1, MessageFields
    <3>4. m.of \in Calls /\ ~IsNew(m.of) /\ m.id = call[m.of].id
      BY <3>2, <3>3, AllAsked DEF IsAsked
    <3>5. c # NoJob
      BY NamesAssumption
    <3>. HIDE DEF m
    <3>6. c = pending[m.id] /\ call'[c].of = m.of
      BY <2>2 DEF m
    <3>7. ~IsNew(c) /\ call[c].id = m.id
      BY <3>3, <3>5, <3>6 DEF Numbered
    <3>. QED
      BY <3>4, <3>6, <3>7
  <2>. QED
    BY <1>4, <2>1, <2>2, CallsStep
<1>5. ASSUME NEW m \in OnTheWay', m.kind \in {"request", "response", "error"}
      PROVE  m.id = call'[m.of].id
  BY <1>1, <1>5, MessageStep DEF IsAsked
<1>6. \A i \in Ids : pending'[i] # NoJob =>
       call'[pending'[i]].phase # "new" /\ call'[pending'[i]].id = i
  BY <1>1, <1>3
<1>7. \A c \in Calls : call'[c].phase \in {"answered", "failed"} =>
        /\ call'[c].of \in Calls /\ call'[call'[c].of].phase # "new"
        /\ call'[call'[c].of].id = call'[c].id
  BY <1>1, <1>4
<1>. QED
  BY <1>2, <1>5, <1>6, <1>7 DEF Numbered, Asked, IsNew

-----------------------------------------------------------------------------
(* The saves                                                               *)

\* A save that is given up stays so, and the one waited for is "saving".
LEMMA JobsStep ==
  ASSUME TypeOK, StepInv, SaveAwaited, [Next]_vars
  PROVE  /\ SaveAwaited'
         /\ \A k \in Jobs : job[k].phase = "givenUp" => job'[k].phase = "givenUp"
<1>0. pendingRecordingSave \in Jobs \cup {NoJob}
  BY DEF TypeOK
<1>1. CASE UNCHANGED <<job, pendingRecordingSave>>
  BY <1>1 DEF SaveAwaited
<1>2. CASE OnRequest
  <2>. DEFINE m == Head(toChrome)
  <2>1. /\ toChrome # <<>> /\ m \in HostOut /\ m.kind = "request" /\ m.of \in Calls
        /\ \A k \in Jobs \ {m.of} : job'[k] = job[k]
        /\ UNCHANGED pendingRecordingSave
    BY <1>2, OnRequestDoes
  <2>2. m \in About({"request"}, {m.of})
    BY <2>1, StepMessageOf
  <2>3. Has(toChrome, About({"request"}, {m.of}))
    BY <2>1, <2>2, TailPlaces DEF TypeOK
  <2>4. job[m.of].phase = "none"
    BY <2>1, <2>3 DEF StepInv, RequestFirst
  <2>. HIDE DEF m
  <2>5. \A k \in Jobs : job[k].phase # "none" => job'[k] = job[k]
    BY <2>1, <2>4
  <2>. QED
    BY <1>0, <2>1, <2>5 DEF SaveAwaited
<1>3. ASSUME NEW p \in Popups, PopupStop(p)
      PROVE  /\ UNCHANGED pendingRecordingSave
             /\ \A k \in Jobs : job[k].phase # "none" => job'[k] = job[k]
  BY <1>3, PopupStopDoes
<1>4. ASSUME NEW j \in Jobs, NEW ok \in BOOLEAN, TabAnswers(j, ok)
      PROVE  /\ UNCHANGED pendingRecordingSave
             /\ \A k \in Jobs : job[k].phase # "tab" => job'[k] = job[k]
  BY <1>4, TabAnswersDoes
<1>5. ASSUME NEW j \in Jobs, postRecordingComplete(j)
      PROVE  /\ \A k \in Jobs : job[k].phase # "tab" => job'[k] = job[k]
             /\ \/ UNCHANGED pendingRecordingSave
                \/ pendingRecordingSave' = j /\ job'[j].phase = "saving"
  BY <1>5, PostDoes
<1>6. ASSUME NEW phase \in {"ended", "givenUp"}, Settles(pendingRecordingSave, phase)
      PROVE  /\ pendingRecordingSave' = NoJob
             /\ \A k \in Jobs : job[k].phase # "saving" => job'[k] = job[k]
  BY <1>6, NamesAssumption DEF Settles, SaveAwaited, Jobs
<1>7. CASE Empties
  BY <1>0, <1>7, EmptiesDoes DEF Emptied, SaveAwaited
<1>8. \/ UNCHANGED <<job, pendingRecordingSave>>
      \/ OnRequest \/ Empties
      \/ \E p \in Popups : PopupStop(p)
      \/ \E j \in Jobs : (\E ok \in BOOLEAN : TabAnswers(j, ok)) \/ postRecordingComplete(j)
      \/ \E phase \in {"ended", "givenUp"} : Settles(pendingRecordingSave, phase)
  <2>1. CASE UNCHANGED vars
    BY <2>1 DEF vars, extension
  <2>2. ASSUME NEW c \in Calls, Execute(c) PROVE UNCHANGED <<job, pendingRecordingSave>>
    BY <2>2, ExecuteDoes
  <2>3. CASE Forward \/ Respond \/ ReadLine \/ SaveScript \/ RelayResponse \/ OnError
    BY <2>3 DEF Forward, Respond, ReadLine, SaveScript, RelayResponse, OnError, extension
  <2>4. CASE OnSaved
    BY <2>4, OnSavedDoes
  <2>5. ASSUME NEW j \in Jobs, SaveTimeout(j)
        PROVE  \/ UNCHANGED <<job, pendingRecordingSave>>
               \/ \E phase \in {"ended", "givenUp"} : Settles(pendingRecordingSave, phase)
    BY <2>5, SaveTimeoutDoes
  <2>. QED
    BY <2>1, <2>2, <2>3, <2>4, <2>5 DEF Next, Empties
<1>. QED
  <2>1. CASE \E phase \in {"ended", "givenUp"} : Settles(pendingRecordingSave, phase)
    BY <1>6, <2>1 DEF SaveAwaited
  <2>2. CASE \E p \in Popups : PopupStop(p)
    BY <1>0, <1>3, <2>2 DEF SaveAwaited
  <2>3. CASE \E j \in Jobs : \E ok \in BOOLEAN : TabAnswers(j, ok)
    BY <1>0, <1>4, <2>3 DEF SaveAwaited
  <2>4. CASE \E j \in Jobs : postRecordingComplete(j)
    BY <1>0, <1>5, <2>4 DEF SaveAwaited
  <2>. QED
    BY <1>1, <1>2, <1>7, <1>8, <2>1, <2>2, <2>3, <2>4

LEMMA SaveMessageKinds ==
  /\ \A m \in HostOut : (m \in SaveMessages) <=> (m.kind = "saved")
  /\ \A m \in HostIn : (m \in SaveMessages) <=> (m.kind = "complete")
  /\ \A m \in SaveMessages : m.of \in Jobs
  BY DEF SaveMessages, HostOut, HostIn, About

\* Answers are no messages about saves.
LEMMA ResponsesSaveNothing ==
  ASSUME TypeOK, NEW j \in Jobs, NEW ok \in BOOLEAN
  PROVE  /\ Has(Responses(j, ok), SaveMessages) <=> Has(fromChrome, SaveMessages)
         /\ Once(fromChrome, SaveMessages) => Once(Responses(j, ok), SaveMessages)
         /\ \A m \in Elems(Responses(j, ok)) : m \in SaveMessages => m \in Elems(fromChrome)
<1>. DEFINE a == Message("response", call[j].id, j, ok)
<1>1. fromChrome \in Seq(HostIn)
  BY DEF TypeOK
<1>2. CASE Responses(j, ok) = fromChrome
  BY <1>2
<1>3. CASE j \in Calls /\ Responses(j, ok) = Append(fromChrome, a)
  <2>1. a \in HostIn
    <3>1. call[j].id \in Ids
      BY <1>3 DEF TypeOK, CallRecords
    <3>. QED
      BY <1>3, <3>1, MessagesTyped
  <2>2. a.kind = "response"
    BY DEF Message
  <2>. HIDE DEF a
  <2>3. a \notin SaveMessages
    BY <2>1, <2>2, SaveMessageKinds
  <2>4. Elems(Append(fromChrome, a)) = Elems(fromChrome) \cup {a}
    BY <1>1, <2>1, ElemsOf
  <2>5. /\ Has(Append(fromChrome, a), SaveMessages) <=> Has(fromChrome, SaveMessages)
        /\ Once(fromChrome, SaveMessages) => Once(Append(fromChrome, a), SaveMessages)
    BY <1>1, <2>1, <2>3, AppendPlaces
  <2>. QED
    BY <1>3, <2>3, <2>4, <2>5
<1>. QED
  BY <1>2, <1>3, ResponsesTyped

\* A step that adds no message about a save, loses some perhaps, and keeps what
\* is waited for.
LEMMA OneSaveKept ==
  ASSUME OneSave,
         \A m \in Elems(toChrome') : m \in SaveMessages => m \in Elems(toChrome),
         \A m \in Elems(fromChrome') : m \in SaveMessages => m \in Elems(fromChrome),
         Has(toChrome', SaveMessages) => Has(toChrome, SaveMessages),
         Has(fromChrome', SaveMessages) => Has(fromChrome, SaveMessages),
         Once(toChrome', SaveMessages), Once(fromChrome', SaveMessages),
         \/ UNCHANGED pendingRecordingSave
         \/ ~Has(toChrome', SaveMessages) /\ ~Has(fromChrome', SaveMessages),
         \A j \in Jobs : job'[j].script \in {NoJob, j}
  PROVE  OneSave'
<1>1. CASE UNCHANGED pendingRecordingSave
  BY <1>1 DEF OneSave
<1>2. CASE ~Has(toChrome', SaveMessages) /\ ~Has(fromChrome', SaveMessages)
  <2>1. \A m \in Elems(toChrome') \cup Elems(fromChrome') : m \notin SaveMessages
    BY <1>2 DEF Has, Elems
  <2>. QED
    BY <1>2, <2>1 DEF OneSave
<1>. QED
  BY <1>1, <1>2

LEMMA OneSaveInit == Init => SaveAwaited /\ OneSave
<1>. SUFFICES ASSUME Init PROVE SaveAwaited /\ OneSave
  OBVIOUS
<1>1. toChrome = <<>> /\ fromChrome = <<>> /\ pendingRecordingSave = NoJob
      /\ \A j \in Jobs : job[j].script = NoJob
  BY DEF Init, NewJob
<1>. QED
  BY <1>1, EmptyHasNone DEF SaveAwaited, OneSave

LEMMA OneSaveStep ==
  ASSUME TypeOK, SaveAwaited, OneSave, NoneGivenUp, NoneGivenUp', [Next]_vars
  PROVE  OneSave'
<1>. DEFINE V == SaveMessages
<1>s. /\ toChrome \in Seq(HostOut) /\ fromChrome \in Seq(HostIn)
      /\ pipe.down \in Seq(PipeDown) /\ pipe.up \in Seq(PipeUp)
  BY DEF TypeOK
<1>o. /\ Once(toChrome, V) /\ Once(fromChrome, V)
      /\ ~(Has(toChrome, V) /\ Has(fromChrome, V))
      /\ \A m \in Elems(toChrome) \cup Elems(fromChrome) : m \in V => m.of = pendingRecordingSave
      /\ \A j \in Jobs : job[j].script \in {NoJob, j}
  BY DEF OneSave
<1>v. V = SaveMessages
  OBVIOUS
<1>. HIDE DEF V
<1>1. CASE UNCHANGED <<toChrome, fromChrome, job, pendingRecordingSave>>
  BY <1>1 DEF OneSave
<1>2. CASE ReadLine
  <2>. DEFINE m == Head(pipe.down)
  <2>1. /\ m \in PipeDown /\ m \in HostOut /\ toChrome' = Append(toChrome, m)
        /\ UNCHANGED <<fromChrome, job, pendingRecordingSave>>
    BY <1>2, ReadLineDoes
  <2>. HIDE DEF m
  <2>2. m \notin V
    BY <1>v, <2>1, MessageFields, SaveMessageKinds
  <2>3. /\ Has(toChrome', V) <=> Has(toChrome, V)
        /\ Once(toChrome, V) => Once(toChrome', V)
        /\ Elems(toChrome') = Elems(toChrome) \cup {m}
    BY <1>s, <2>1, <2>2, AppendPlaces, ElemsOf
  <2>. QED
    BY <1>o, <1>v, <2>1, <2>2, <2>3, OneSaveKept
<1>3. CASE SaveScript
  <2>. DEFINE m == Head(fromChrome)
  <2>1. /\ fromChrome # <<>> /\ m \in HostIn /\ m.kind = "complete" /\ fromChrome' = Tail(fromChrome)
        /\ UNCHANGED <<job, pendingRecordingSave>>
    BY <1>3, SaveScriptDoes
  <2>2. PICK ok \in BOOLEAN : /\ Message("saved", 0, m.of, ok) \in HostOut
                              /\ toChrome' = Append(toChrome, Message("saved", 0, m.of, ok))
    BY <1>3, SaveScriptDoes
  <2>. DEFINE a == Message("saved", 0, m.of, ok)
  <2>3. a \in HostOut /\ a.kind = "saved" /\ a.of = m.of /\ toChrome' = Append(toChrome, a)
    BY <2>2 DEF Message
  <2>. HIDE DEF a
  <2>4. m \in V /\ m \in Elems(fromChrome)
    BY <1>s, <1>v, <2>1, SaveMessageKinds, ElemsOf
  <2>5. Has(fromChrome, V)
    BY <1>s, <2>1, <2>4, TailPlaces
  <2>6. ~Has(fromChrome', V) /\ Once(fromChrome', V) /\ Elems(fromChrome') \subseteq Elems(fromChrome)
    BY <1>s, <1>o, <2>1, <2>4, TailPlaces, ElemsOf
  <2>7. Once(toChrome', V) /\ Elems(toChrome') = Elems(toChrome) \cup {a}
    BY <1>s, <1>o, <2>3, <2>5, AppendPlaces, ElemsOf
  <2>8. a.of = pendingRecordingSave
    BY <1>o, <2>3, <2>4
  <2>9. \A n \in Elems(toChrome') \cup Elems(fromChrome') : n \in V => n.of = pendingRecordingSave
    BY <1>o, <2>6, <2>7, <2>8
  <2>. QED
    BY <1>o, <1>v, <2>1, <2>6, <2>7, <2>9 DEF OneSave
<1>4. CASE RelayResponse
  <2>. DEFINE m == Head(fromChrome)
              e == Message("error", m.id, m.of, FALSE)
  <2>1. /\ fromChrome # <<>> /\ m \in HostIn /\ m.kind = "response"
        /\ fromChrome' = Tail(fromChrome)
        /\ \/ toChrome' = toChrome
           \/ e \in HostOut /\ toChrome' = Append(toChrome, e)
        /\ UNCHANGED <<job, pendingRecordingSave>>
    BY <1>4, RelayDoes
  <2>2. e.kind = "error"
    BY DEF Message
  <2>. HIDE DEF m, e
  <2>3. /\ Has(fromChrome', V) => Has(fromChrome, V)
        /\ Once(fromChrome', V) /\ Elems(fromChrome') \subseteq Elems(fromChrome)
    BY <1>s, <1>o, <2>1, TailPlaces, ElemsOf
  <2>4. /\ Has(toChrome', V) <=> Has(toChrome, V)
        /\ Once(toChrome', V)
        /\ \A n \in Elems(toChrome') : n \in V => n \in Elems(toChrome)
    <3>1. CASE toChrome' = toChrome
      BY <1>o, <3>1
    <3>2. CASE e \in HostOut /\ toChrome' = Append(toChrome, e)
      <4>1. e \notin V
        BY <1>v, <2>2, <3>2, SaveMessageKinds
      <4>. QED
        BY <1>s, <1>o, <3>2, <4>1, AppendPlaces, ElemsOf
    <3>. QED
      BY <2>1, <3>1, <3>2
  <2>. QED
    BY <1>o, <1>v, <2>1, <2>3, <2>4, OneSaveKept
<1>5. CASE OnRequest
  <2>1. /\ toChrome # <<>> /\ toChrome' = Tail(toChrome) /\ Head(toChrome).of \in Calls
        /\ \A k \in Jobs \ {Head(toChrome).of} : job'[k] = job[k]
        /\ job'[Head(toChrome).of].script = job[Head(toChrome).of].script
        /\ UNCHANGED <<fromChrome, pendingRecordingSave>>
    BY <1>5, OnRequestDoes
  <2>2. /\ Has(toChrome', V) => Has(toChrome, V)
        /\ Once(toChrome', V) /\ Elems(toChrome') \subseteq Elems(toChrome)
    BY <1>s, <1>o, <2>1, TailPlaces, ElemsOf
  <2>3. \A j \in Jobs : job'[j].script \in {NoJob, j}
    BY <1>o, <2>1
  <2>. QED
    BY <1>o, <1>v, <2>1, <2>2, <2>3, OneSaveKept
<1>6. ASSUME NEW p \in Popups, PopupStop(p) PROVE OneSave'
  <2>1. /\ \A k \in Jobs \ {p} : job'[k] = job[k]
        /\ job'[p].script = job[p].script
        /\ UNCHANGED <<toChrome, fromChrome, pendingRecordingSave>>
    BY <1>6, PopupStopDoes
  <2>2. \A j \in Jobs : job'[j].script \in {NoJob, j}
    BY <1>o, <2>1
  <2>. QED
    BY <1>o, <1>v, <2>1, <2>2, OneSaveKept
<1>7. CASE OnError
  <2>. DEFINE m == Head(toChrome)
              a == Message("response", m.id, m.of, m.ok)
  <2>1. /\ toChrome # <<>> /\ m \in HostOut /\ toChrome' = Tail(toChrome)
        /\ a \in HostIn /\ fromChrome' = Append(fromChrome, a)
        /\ UNCHANGED <<job, pendingRecordingSave>>
    BY <1>7, OnErrorDoes
  <2>2. a.kind = "response"
    BY DEF Message
  <2>. HIDE DEF a, m
  <2>3. a \notin V
    BY <1>v, <2>1, <2>2, SaveMessageKinds
  <2>4. /\ Has(toChrome', V) => Has(toChrome, V)
        /\ Once(toChrome', V) /\ Elems(toChrome') \subseteq Elems(toChrome)
    BY <1>s, <1>o, <2>1, TailPlaces, ElemsOf
  <2>5. /\ Has(fromChrome', V) <=> Has(fromChrome, V)
        /\ Once(fromChrome', V) /\ Elems(fromChrome') = Elems(fromChrome) \cup {a}
    BY <1>s, <1>o, <2>1, <2>3, AppendPlaces, ElemsOf
  <2>. QED
    BY <1>o, <1>v, <2>1, <2>3, <2>4, <2>5, OneSaveKept
<1>8. CASE OnSaved
  <2>. DEFINE m == Head(toChrome)
              j == pendingRecordingSave
  <2>1. /\ toChrome # <<>> /\ m \in HostOut /\ m.kind = "saved" /\ toChrome' = Tail(toChrome)
        /\ \/ j = NoJob
           \/ Settles(j, "ended") /\ job'[j].script \in {m.of, NoJob}
    BY <1>8, OnSavedDoes
  <2>2. m \in V /\ m.of \in Jobs /\ m \in Elems(toChrome)
    BY <1>s, <1>v, <2>1, SaveMessageKinds, ElemsOf
  <2>3. m.of = j /\ j # NoJob
    BY <1>o, <2>2, NamesAssumption DEF Jobs
  <2>4. ~Has(toChrome', V) /\ Once(toChrome', V) /\ Elems(toChrome') \subseteq Elems(toChrome)
    BY <1>s, <1>o, <2>1, <2>2, TailPlaces, ElemsOf
  <2>5. ~Has(fromChrome, V)
    <3>1. Has(toChrome, V)
      BY <1>s, <2>1, <2>2, TailPlaces
    <3>. QED
      BY <1>o, <3>1
  <2>6. PICK ok \in BOOLEAN : fromChrome' = Responses(j, ok)
    BY <2>1, <2>3 DEF Settles
  <2>7. \A k \in Jobs : job'[k].script \in {NoJob, k}
    BY <1>o, <2>1, <2>3 DEF Settles
  <2>8. /\ ~Has(fromChrome', V) /\ Once(fromChrome', V)
        /\ \A n \in Elems(fromChrome') : n \in V => n \in Elems(fromChrome)
    BY <1>o, <1>v, <2>2, <2>3, <2>5, <2>6, ResponsesSaveNothing
  <2>. QED
    BY <1>o, <1>v, <2>4, <2>5, <2>7, <2>8, OneSaveKept
<1>9. ASSUME NEW j \in Jobs, NEW ok \in BOOLEAN, TabAnswers(j, ok) PROVE OneSave'
  <2>1. /\ \A k \in Jobs \ {j} : job'[k] = job[k]
        /\ job'[j].script = job[j].script /\ fromChrome' = Responses(j, ok)
        /\ UNCHANGED <<toChrome, pendingRecordingSave>>
    BY <1>9, TabAnswersDoes
  <2>2. \A k \in Jobs : job'[k].script \in {NoJob, k}
    BY <1>o, <2>1
  <2>. QED
    BY <1>o, <1>v, <2>1, <2>2, ResponsesSaveNothing, OneSaveKept
<1>10. ASSUME NEW j \in Jobs, postRecordingComplete(j) PROVE OneSave'
  <2>. DEFINE a == Message("complete", 0, j, TRUE)
  <2>1. /\ \A k \in Jobs \ {j} : job'[k] = job[k]
        /\ job'[j].script = job[j].script
        /\ \/ /\ pendingRecordingSave = NoJob /\ pendingRecordingSave' = j
              /\ a \in HostIn /\ fromChrome' = Append(fromChrome, a)
           \/ UNCHANGED pendingRecordingSave /\ fromChrome' = Responses(j, FALSE)
        /\ UNCHANGED toChrome
    BY <1>10, PostDoes
  <2>2. \A k \in Jobs : job'[k].script \in {NoJob, k}
    BY <1>o, <2>1
  <2>3. a.of = j
    BY DEF Message
  <2>. HIDE DEF a
  <2>4. CASE UNCHANGED pendingRecordingSave /\ fromChrome' = Responses(j, FALSE)
    BY <1>o, <1>v, <2>1, <2>2, <2>4, ResponsesSaveNothing, OneSaveKept
  <2>5. CASE /\ pendingRecordingSave = NoJob /\ pendingRecordingSave' = j
             /\ a \in HostIn /\ fromChrome' = Append(fromChrome, a)
    <3>1. \A m \in Elems(toChrome) \cup Elems(fromChrome) : m \notin V
      BY <1>o, <1>v, <2>5, SaveMessageKinds, NamesAssumption DEF Jobs
    <3>2. ~Has(toChrome, V) /\ ~Has(fromChrome, V)
      BY <3>1 DEF Elems, Has
    <3>3. Once(fromChrome', V) /\ Elems(fromChrome') = Elems(fromChrome) \cup {a}
      BY <1>s, <1>o, <2>5, <3>2, AppendPlaces, ElemsOf
    <3>4. \A m \in Elems(toChrome') \cup Elems(fromChrome') : m \in V => m.of = pendingRecordingSave'
      BY <2>1, <2>3, <2>5, <3>1, <3>3
    <3>. QED
      BY <1>o, <1>v, <2>1, <2>2, <3>2, <3>3, <3>4 DEF OneSave
  <2>. QED
    BY <2>1, <2>4, <2>5
<1>11. ASSUME NEW j \in Jobs, SaveTimeout(j)
       PROVE  UNCHANGED <<toChrome, fromChrome, job, pendingRecordingSave>>
  <2>1. ~Settles(pendingRecordingSave, "givenUp")
    BY DEF Settles, NoneGivenUp
  <2>. QED
    BY <1>11, <2>1, SaveTimeoutDoes
<1>12. CASE Empties
  <2>1. /\ \/ UNCHANGED <<toChrome, fromChrome>>
           \/ toChrome' = <<>> /\ fromChrome' = <<>>
        /\ \A j \in Jobs : job'[j].script = job[j].script
        /\ UNCHANGED pendingRecordingSave \/ (toChrome' = <<>> /\ fromChrome' = <<>>)
    BY <1>12, EmptiesDoes DEF Emptied
  <2>2. \A j \in Jobs : job'[j].script \in {NoJob, j}
    BY <1>o, <2>1
  <2>3. ~Has(<<>>, V) /\ Once(<<>>, V) /\ Elems(<<>>) = {}
    BY EmptyHasNone
  <2>. QED
    BY <1>o, <1>v, <2>1, <2>2, <2>3, OneSaveKept
<1>13. \/ UNCHANGED <<toChrome, fromChrome, job, pendingRecordingSave>>
       \/ ReadLine \/ SaveScript \/ RelayResponse \/ OnRequest \/ OnError \/ OnSaved \/ Empties
       \/ \E p \in Popups : PopupStop(p)
       \/ \E j \in Jobs : (\E ok \in BOOLEAN : TabAnswers(j, ok))
                          \/ postRecordingComplete(j) \/ SaveTimeout(j)
  BY DEF Next, Empties, vars, Execute, Forward, Respond, channels, extension
<1>. QED
  BY <1>1, <1>2, <1>3, <1>4, <1>5, <1>6, <1>7, <1>8, <1>9, <1>10, <1>11, <1>12, <1>13

-----------------------------------------------------------------------------
(* Theorems                                                                *)

LEMMA InvariantStep == IInv /\ [Next]_vars => IInv'
<1>. SUFFICES ASSUME IInv, [Next]_vars PROVE IInv'
  OBVIOUS
<1>1. TypeOK /\ StepInv /\ Numbered /\ SaveAwaited /\ (NoneGivenUp => OneSave)
  BY DEF IInv, SaveInv
<1>2. TypeOK' /\ StepInv' /\ Numbered'
  BY <1>1, TypeStep, StepStep, NumberedStep
<1>3. SaveAwaited' /\ (NoneGivenUp' => NoneGivenUp)
  BY <1>1, JobsStep DEF NoneGivenUp
<1>4. NoneGivenUp' => OneSave'
  BY <1>1, <1>3, OneSaveStep
<1>. QED
  BY <1>2, <1>3, <1>4 DEF IInv, SaveInv

\* In every reachable state the invariant holds: what is typed stays typed, a
\* step is in one place, and what waits for it or is about it has its number.
THEOREM InvariantHolds == Spec => []IInv
<1>1. Init => IInv
  BY TypeInit, StepInit, NumberedInit, OneSaveInit DEF IInv, SaveInv
<1>. QED
  BY <1>1, InvariantStep, PTL DEF Spec

\* The messages that are on their way are of the kinds each end reads, and no
\* process holds a name or a number out of its range.
THEOREM TypeCorrect == Spec => []TypeOK
<1>1. IInv => TypeOK
  BY DEF IInv
<1>. QED
  BY <1>1, InvariantHolds, PTL

\* What execute returns is the outcome of the caller's own step: an answer is
\* passed to whoever waits under its number, and two calls that were made at
\* different times never share one.
THEOREM AnswersAreOwn == Spec => []AnswerIsOwn
<1>1. IInv => AnswerIsOwn
  BY DEF IInv, Numbered, AnswerIsOwn
<1>. QED
  BY <1>1, InvariantHolds, PTL

\* Until the extension gives a save up, the script a recording is told of is its
\* own: there is one message about a save, and it is about the one waited for.
THEOREM SavesAreOwn == Spec => []SavedIsOwn
<1>1. IInv => SavedIsOwn
  BY DEF IInv, SaveInv, NoneGivenUp, OneSave, SavedIsOwn
<1>. QED
  BY <1>1, InvariantHolds, PTL

\* A step is on its way, in the tab or on its way back, and there once: nobody
\* carries it out twice, whichever processes end and however often an answer
\* goes to and fro between the host and the extension.
THEOREM StepIsInOnePlace == Spec => []OnePlace
<1>1. ASSUME IInv, NEW c \in Calls, NEW p \in Places(c), NEW q \in Places(c) PROVE p = q
  <2>. DEFINE In(x, s) == \E i \in Positions(s, c) : x[2] = i
              At(x) == \/ x = <<"down", x[2]>> /\ In(x, pipe.down)
                       \/ x = <<"toChrome", x[2]>> /\ In(x, toChrome)
                       \/ x = <<"fromChrome", x[2]>> /\ In(x, fromChrome)
                       \/ x = <<"up", x[2]>> /\ In(x, pipe.up)
                       \/ x = <<"tab", x[2]>> /\ x[2] = 0 /\ InTab(c)
  <2>1. \A x \in Places(c) : At(x)
    BY DEF Places, InTab
  <2>2. \A s, x : In(x, s) => Has(s, StepMessages(c))
    BY DEF Positions, Has
  <2>3. \A s, x, y : In(x, s) /\ In(y, s) /\ Once(s, StepMessages(c)) => x[2] = y[2]
    BY DEF Positions, Once
  <2>. HIDE DEF In
  <2>4. At(p) /\ At(q)
    BY <2>1
  <2>5. Alone(c) /\ OnceEach(c)
    BY <1>1 DEF IInv, StepInv
  <2>6. p[2] = q[2] /\ p[1] = q[1]
    BY <2>2, <2>3, <2>4, <2>5 DEF Alone, OnceEach, InDown, InTo, InFrom, InUp
  <2>. QED
    BY <2>4, <2>6
<1>2. IInv => OnePlace
  BY <1>1 DEF OnePlace
<1>. QED
  BY <1>2, InvariantHolds, PTL
=============================================================================
