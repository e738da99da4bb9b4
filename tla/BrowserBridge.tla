---------------------------- MODULE BrowserBridge ----------------------------
(***************************************************************************)
(* The way of a browser step from the agent to the page and back: execute  *)
(* of chrome_bridge.rs, the agent's end of the named pipe, the native      *)
(* messaging host (chrome-bridge) that Chrome starts for the extension,    *)
(* and the extension's background.js with the recordings it saves. Four    *)
(* processes, two pairs of channels; a process may end at any time, and    *)
(* nothing tells the others but the end of a channel.                      *)
(***************************************************************************)
EXTENDS Naturals, Sequences, FiniteSets

CONSTANTS
  Calls,     \* calls of execute, each made once
  Stops,     \* those among them whose action is recordStop
  Popups,    \* recordings stopped from the extension's popup, each once
  NoJob,
  MaxJobs,   \* bound: how many of the calls and popups there are in a behaviour
  MaxClock,  \* bound: milliseconds that pass
  MaxFaults  \* bound: processes that end

ASSUME NamesAssumption  ==
  Stops \subseteq Calls /\ Calls \cap Popups = {} /\ NoJob \notin Calls \cup Popups
ASSUME BoundsAssumption == MaxJobs \in Nat /\ MaxClock \in Nat /\ MaxFaults \in Nat

Jobs == Calls \cup Popups \* what the extension may be asked to do
Ids  == 0..MaxClock

VARIABLES
  call,       \* [Calls -> when the call was made, its number, what it was told]
  now,        \* the clock, in milliseconds
  agent,      \* the agent's end of the pipe: "down", "listening" or "serving"
  cmds,       \* BridgeCmd::Forward commands that wait for the pipe task
  pending,    \* [Ids -> the call that waits for this requestId, or NoJob]
  pipe,       \* the number of connections so far, and the lines on their way
  host,       \* the state of the native messaging host
  overtaken,  \* has the host dropped the writer of a live connection
  nativePort, \* is the extension connected to a host
  toChrome, fromChrome, \* stdout and stdin of the host
  job,        \* [Jobs -> how far the extension is, the script it was told of]
  pendingRecordingSave, \* the job that waits for recordingSaved, or NoJob
  timers,     \* jobs whose 30 seconds for the save are running
  faults

server    == <<agent, cmds, pending>>
channels  == <<toChrome, fromChrome>>
extension == <<job, pendingRecordingSave, timers>>
vars == <<call, now, server, pipe, host, overtaken, nativePort, channels, extension, faults>>

NewCall == [phase |-> "new", at |-> 0, id |-> 0, of |-> NoJob]
NewHost == [pipe_active |-> FALSE, link |-> "none", writer |-> 0, handed |-> 0, lost |-> 0]
NewJob  == [phase |-> "none", script |-> NoJob]
NoneAwaited == [i \in Ids |-> NoJob]

Init ==
  /\ call = [c \in Calls |-> NewCall] /\ now = 0
  /\ agent = "listening" /\ cmds = <<>> /\ pending = NoneAwaited
  /\ pipe = [gen |-> 0, down |-> <<>>, up |-> <<>>]
  /\ host = NewHost /\ overtaken = FALSE /\ nativePort = TRUE
  /\ toChrome = <<>> /\ fromChrome = <<>>
  /\ job = [j \in Jobs |-> NewJob] /\ pendingRecordingSave = NoJob /\ timers = {}
  /\ faults = 0

Begun == Cardinality({c \in Calls : call[c].phase # "new"}
                     \cup {p \in Popups : job[p].phase # "none"})

\* A message about a job: kind is "request", "response" or "error" (of a step),
\* "complete" or "saved" (of a recording). Who asked is in the requestId alone;
\* of names the job whose doing or script the message holds.
Message(kind, id, of, ok) == [kind |-> kind, id |-> id, of |-> of, ok |-> ok]

-----------------------------------------------------------------------------
(* The agent: execute, and run_chrome_bridge_pipe_forever                  *)

\* Mutant of requestId: the requests of the connection are counted.
requestIdCounted == IF \A i \in Ids : pending[i] = NoJob THEN 0 ELSE MaxClock

\* The number of a request is the millisecond it is made in.
requestId == now'

\* execute: refused while no host is connected (cmd_tx is None). Nothing else
\* reads the clock, so time passes here: some or none since the call before.
Execute(c) ==
  /\ call[c].phase = "new" /\ agent # "down" /\ Begun < MaxJobs
  /\ now' \in now..MaxClock
  /\ call' = [call EXCEPT ![c] =
       [NewCall EXCEPT !.phase = IF agent = "serving" THEN "waiting" ELSE "offline",
                       !.at = now', !.id = requestId]]
  /\ cmds' = IF agent = "serving" THEN Append(cmds, c) ELSE cmds
  /\ UNCHANGED <<agent, pending, pipe, host, overtaken, nativePort, channels,
                 extension, faults>>

\* What the callers in cs that still wait are told.
Told(cs, phase, of) ==
  [c \in Calls |-> IF c \in cs /\ call[c].phase = "waiting"
                   THEN [call[c] EXCEPT !.phase = phase, !.of = of] ELSE call[c]]

\* execute stops waiting; the entry in pending stays.
Timeout(c) ==
  /\ call[c].phase = "waiting"
  /\ call' = Told({c}, "timeout", NoJob)
  /\ UNCHANGED <<now, server, pipe, host, overtaken, nativePort, channels, extension, faults>>

\* The host's end of the connection is open.
HostConnected == host.link \in {"handing", "reading"}

\* A command is taken: a call that waits under the same number is dropped from
\* pending, which closes its channel.
Forward ==
  LET c == Head(cmds)  id == call[c].id IN
  /\ agent = "serving" /\ cmds # <<>> /\ HostConnected
  /\ cmds' = Tail(cmds)
  /\ pending' = [pending EXCEPT ![id] = c]
  /\ call' = Told({pending[id]}, "offline", NoJob)
  /\ pipe' = [pipe EXCEPT !.down = Append(@, Message("request", id, c, TRUE))]
  /\ UNCHANGED <<now, agent, host, overtaken, nativePort, channels, extension, faults>>

\* A line extensionResponse: who waits under its number is told.
Respond ==
  LET m == Head(pipe.up) IN
  /\ agent = "serving" /\ pipe.up # <<>>
  /\ pipe' = [pipe EXCEPT !.up = Tail(@)]
  /\ pending' = [pending EXCEPT ![m.id] = NoJob]
  /\ call' = Told({pending[m.id]}, IF m.ok THEN "answered" ELSE "failed", m.of)
  /\ UNCHANGED <<now, agent, cmds, host, overtaken, nativePort, channels, extension, faults>>

\* The end of the pipe, at a read or at a write: everybody who waits is told
\* and the agent listens again.
Disconnected ==
  /\ agent = "serving" /\ ~HostConnected
  /\ agent' = "listening" /\ cmds' = <<>> /\ pending' = NoneAwaited
  /\ call' = Told(Calls, "offline", NoJob)
  /\ UNCHANGED <<now, pipe, host, overtaken, nativePort, channels, extension, faults>>

-----------------------------------------------------------------------------
(* The native messaging host: the connecting task, run_pipe_loop and the   *)
(* main loop, whose select! takes what is ready in any order               *)

HostTask(update) ==
  /\ host' = update
  /\ UNCHANGED <<call, now, server, pipe, overtaken, nativePort, channels, extension, faults>>

TryToConnect ==
  /\ nativePort /\ ~host.pipe_active
  /\ HostTask([host EXCEPT !.pipe_active = TRUE, !.link = "trying"])

\* Mutant of GiveUp: the flag is reset by run_pipe_loop alone.
GiveUpKeepsFlag ==
  /\ host.link = "trying" /\ agent # "listening"
  /\ HostTask([host EXCEPT !.link = "none"])

\* connect_with_retry has found no agent that listens for 12 seconds.
GiveUp ==
  /\ host.link = "trying" /\ agent # "listening"
  /\ HostTask([host EXCEPT !.pipe_active = FALSE, !.link = "none"])

\* The pipe is opened, and the agent has its commands and pending anew.
Connect ==
  /\ host.link = "trying" /\ agent = "listening"
  /\ agent' = "serving"
  /\ pipe' = [gen |-> pipe.gen + 1, down |-> <<>>, up |-> <<>>]
  /\ host' = [host EXCEPT !.link = "handing"]
  /\ UNCHANGED <<call, now, cmds, pending, overtaken, nativePort, channels, extension, faults>>

\* run_pipe_loop sends the write half to the main loop (a channel of one).
HandWriter ==
  /\ host.link = "handing" /\ host.handed = 0
  /\ HostTask([host EXCEPT !.link = "reading", !.handed = pipe.gen])

ReadLine ==
  /\ host.link = "reading" /\ pipe.down # <<>>
  /\ toChrome' = Append(toChrome, Head(pipe.down))
  /\ pipe' = [pipe EXCEPT !.down = Tail(@)]
  /\ UNCHANGED <<call, now, server, host, overtaken, nativePort, fromChrome, extension, faults>>

\* The agent's end is closed.
PipeLost ==
  /\ host.link = "reading" /\ agent # "serving"
  /\ HostTask([host EXCEPT !.pipe_active = FALSE, !.link = "none", !.lost = @ + 1])

\* Mutant of TakeWriter: the first write half is kept.
TakeWriterOnce ==
  /\ host.handed # 0
  /\ HostTask([host EXCEPT !.writer = IF @ = 0 THEN host.handed ELSE @, !.handed = 0])

TakeWriter ==
  /\ host.handed # 0
  /\ HostTask([host EXCEPT !.writer = host.handed, !.handed = 0])

\* Can the write half reach the agent?
WriterLives == host.writer = pipe.gen /\ HostConnected /\ agent = "serving"

\* The signal says that a connection is lost, not which one: the writer of a
\* newer one goes with it.
TakeLost ==
  /\ host.lost > 0
  /\ host' = [host EXCEPT !.lost = @ - 1, !.writer = 0]
  /\ overtaken' = (overtaken \/ WriterLives)
  /\ UNCHANGED <<call, now, server, pipe, nativePort, channels, extension, faults>>

\* handle_recording_complete: the script is stored, or that fails.
SaveScript ==
  LET m == Head(fromChrome) IN
  /\ fromChrome # <<>> /\ m.kind = "complete"
  /\ fromChrome' = Tail(fromChrome)
  /\ \E ok \in BOOLEAN : toChrome' = Append(toChrome, Message("saved", 0, m.of, ok))
  /\ UNCHANGED <<call, now, server, pipe, host, overtaken, nativePort, extension, faults>>

\* handle_extension_to_agent: without a writer, or if it fails, the extension
\* gets an error instead.
RelayResponse ==
  LET m == Head(fromChrome) IN
  /\ fromChrome # <<>> /\ m.kind = "response"
  /\ fromChrome' = Tail(fromChrome)
  /\ \/ /\ WriterLives
        /\ pipe' = [pipe EXCEPT !.up = Append(@, m)]
        /\ UNCHANGED <<host, toChrome>>
     \/ /\ ~WriterLives
        /\ host' = [host EXCEPT !.writer = 0]
        /\ toChrome' = Append(toChrome, Message("error", m.id, m.of, FALSE))
        /\ UNCHANGED pipe
  /\ UNCHANGED <<call, now, server, overtaken, nativePort, extension, faults>>

-----------------------------------------------------------------------------
(* The extension: background.js                                            *)

\* buildResponse over the port there is now; a popup is answered elsewhere.
Responses(j, ok) ==
  IF j \in Calls /\ nativePort
  THEN Append(fromChrome, Message("response", call[j].id, j, ok)) ELSE fromChrome

\* The promise of j's save is settled.
Settle(j, phase, script, ok) ==
  /\ pendingRecordingSave' = NoJob
  /\ job' = [job EXCEPT ![j] = [phase |-> phase, script |-> script]]
  /\ fromChrome' = Responses(j, ok)

Elsewhere == UNCHANGED <<call, now, server, pipe, host, overtaken, nativePort, faults>>

\* handleAgentRequest, and the popup's recordStop: the tab is asked.
OnRequest ==
  /\ toChrome # <<>> /\ Head(toChrome).kind = "request"
  /\ toChrome' = Tail(toChrome)
  /\ job' = [job EXCEPT ![Head(toChrome).of].phase = "tab"]
  /\ Elsewhere /\ UNCHANGED <<fromChrome, pendingRecordingSave, timers>>

PopupStop(p) ==
  /\ job[p].phase = "none" /\ Begun < MaxJobs
  /\ job' = [job EXCEPT ![p].phase = "tab"]
  /\ Elsewhere /\ UNCHANGED <<channels, pendingRecordingSave, timers>>

\* An error of the host is no request (it has no action): parseRequest fails
\* and the extension answers it with an error of its own.
OnError ==
  /\ toChrome # <<>> /\ Head(toChrome).kind = "error"
  /\ toChrome' = Tail(toChrome)
  /\ fromChrome' = Append(fromChrome, [Head(toChrome) EXCEPT !.kind = "response"])
  /\ Elsewhere /\ UNCHANGED extension

\* recordingSaved names no request: it goes to the save in progress.
OnSaved ==
  LET m == Head(toChrome)  j == pendingRecordingSave IN
  /\ toChrome # <<>> /\ m.kind = "saved"
  /\ toChrome' = Tail(toChrome)
  /\ \/ j = NoJob /\ UNCHANGED <<fromChrome, job, pendingRecordingSave>>
     \/ /\ j # NoJob
        /\ Settle(j, "ended", IF m.ok THEN m.of ELSE NoJob, m.ok)
  /\ Elsewhere /\ UNCHANGED timers

\* The tab has answered, and the answer is passed on (a failure always is).
TabAnswers(j, ok) ==
  /\ job[j].phase = "tab" /\ (j \in Popups \cup Stops => ~ok)
  /\ job' = [job EXCEPT ![j].phase = "ended"]
  /\ fromChrome' = Responses(j, ok)
  /\ Elsewhere /\ UNCHANGED <<toChrome, pendingRecordingSave, timers>>

\* Mutant of MayPost: a second save is let in.
MayPostAlways == nativePort

\* postRecordingComplete lets one save in at a time ...
MayPost == nativePort /\ pendingRecordingSave = NoJob

\* ... and gives it 30 seconds. Nobody stops the timer.
postRecordingComplete(j) ==
  /\ job[j].phase = "tab" /\ j \in Popups \cup Stops
  /\ \/ /\ MayPost
        /\ pendingRecordingSave' = j
        /\ job' = [job EXCEPT ![j].phase = "saving"]
        /\ fromChrome' = Append(fromChrome, Message("complete", 0, j, TRUE))
        /\ timers' = timers \cup {j}
     \/ /\ ~MayPost
        /\ job' = [job EXCEPT ![j].phase = "ended"]
        /\ fromChrome' = Responses(j, FALSE)
        /\ UNCHANGED <<pendingRecordingSave, timers>>
  /\ Elsewhere /\ UNCHANGED toChrome

\* Mutant of SaveTimeout: the save is rejected and still waited for.
SaveTimeoutKeeps(j) ==
  LET k == pendingRecordingSave IN
  /\ j \in timers
  /\ timers' = timers \ {j}
  /\ IF k = NoJob THEN UNCHANGED <<fromChrome, job>>
     ELSE fromChrome' = Responses(k, FALSE) /\ job' = [job EXCEPT ![k].phase = "givenUp"]
  /\ Elsewhere /\ UNCHANGED <<toChrome, pendingRecordingSave>>

\* 30 seconds after the save of j was posted whichever save waits is rejected.
SaveTimeout(j) ==
  LET k == pendingRecordingSave IN
  /\ j \in timers
  /\ timers' = timers \ {j}
  /\ \/ k = NoJob /\ UNCHANGED <<fromChrome, job, pendingRecordingSave>>
     \/ k # NoJob /\ Settle(k, "givenUp", NoJob, FALSE)
  /\ Elsewhere /\ UNCHANGED toChrome

\* connectNative, 2 seconds after onDisconnect: Chrome starts a host.
connectNative ==
  /\ ~nativePort
  /\ nativePort' = TRUE
  /\ UNCHANGED <<call, now, server, pipe, host, overtaken, channels, extension, faults>>

-----------------------------------------------------------------------------
(* The environment: processes that end                                     *)

\* The host ends, and its port, its channels and its end of the pipe with it.
HostEnds ==
  /\ nativePort' = FALSE /\ host' = NewHost
  /\ toChrome' = <<>> /\ fromChrome' = <<>>

HostDies ==
  /\ nativePort /\ faults < MaxFaults
  /\ faults' = faults + 1
  /\ HostEnds
  /\ UNCHANGED <<call, now, server, pipe, overtaken, extension>>

\* Chrome ends, and starts again.
ChromeDies ==
  /\ faults < MaxFaults
  /\ faults' = faults + 1
  /\ HostEnds
  /\ job' = [j \in Jobs |-> IF job[j].phase \in {"tab", "saving"}
                            THEN [job[j] EXCEPT !.phase = "gone"] ELSE job[j]]
  /\ pendingRecordingSave' = NoJob /\ timers' = {}
  /\ UNCHANGED <<call, now, server, pipe, overtaken>>

AgentDies ==
  /\ agent # "down" /\ faults < MaxFaults
  /\ faults' = faults + 1
  /\ agent' = "down" /\ cmds' = <<>> /\ pending' = NoneAwaited
  /\ call' = Told(Calls, "gone", NoJob)
  /\ UNCHANGED <<now, pipe, host, overtaken, nativePort, channels, extension>>

AgentStarts ==
  /\ agent = "down" /\ agent' = "listening"
  /\ UNCHANGED <<call, now, cmds, pending, pipe, host, overtaken, nativePort, channels,
                 extension, faults>>

Environment == HostDies \/ ChromeDies \/ AgentDies \/ AgentStarts

-----------------------------------------------------------------------------
Next ==
  \/ \E c \in Calls : Execute(c) \/ Timeout(c)
  \/ Forward \/ Respond \/ Disconnected
  \/ TryToConnect \/ GiveUp \/ Connect \/ HandWriter \/ ReadLine \/ PipeLost
  \/ TakeWriter \/ TakeLost \/ SaveScript \/ RelayResponse
  \/ OnRequest \/ OnError \/ OnSaved \/ connectNative
  \/ \E p \in Popups : PopupStop(p)
  \/ \E j \in Jobs : (\E ok \in BOOLEAN : TabAnswers(j, ok))
                     \/ postRecordingComplete(j) \/ SaveTimeout(j)
  \/ Environment

\* Timers fire, tasks and callbacks run, and select! picks at random, so that
\* what stays ready is taken. Nothing makes the agent start, a caller call, or
\* a page answer.
Fairness ==
  /\ WF_vars(Forward) /\ WF_vars(Respond) /\ WF_vars(Disconnected)
  /\ WF_vars(TryToConnect) /\ WF_vars(Connect) /\ WF_vars(HandWriter)
  /\ WF_vars(ReadLine) /\ WF_vars(PipeLost) /\ WF_vars(TakeWriter) /\ WF_vars(TakeLost)
  /\ WF_vars(SaveScript \/ RelayResponse)
  /\ WF_vars(OnRequest \/ OnError \/ OnSaved) /\ WF_vars(connectNative)
  /\ \A c \in Calls : WF_vars(Timeout(c))
  /\ \A j \in Jobs : WF_vars(SaveTimeout(j))

Spec == Init /\ [][Next]_vars /\ Fairness

-----------------------------------------------------------------------------
(* Properties *)

\* What a caller of execute is told is the outcome of its own step, across
\* timeouts, late answers and processes that end in between, unless two calls
\* were made in one millisecond and so under one number.
AnswerIsOwn ==
  \A c \in Calls : call[c].phase \in {"answered", "failed"} =>
    call[c].of = c \/ call[call[c].of].at = call[c].at

\* A recording that is reported saved was saved as its own script, unless a
\* save was given up before its answer came: that answer settles the next one.
SavedIsOwn ==
  \A j \in Jobs : job[j].script \in {NoJob, j} \/ \E k \in Jobs : job[k].phase = "givenUp"

StepMessages(c) == [kind : {"request", "response", "error"}, id : Ids, of : {c}, ok : BOOLEAN]
Positions(s, c) == {i \in 1..Len(s) : s[i] \in StepMessages(c)}
Places(c) ==
  ({"down"} \X Positions(pipe.down, c)) \cup ({"toChrome"} \X Positions(toChrome, c))
    \cup ({"fromChrome"} \X Positions(fromChrome, c)) \cup ({"up"} \X Positions(pipe.up, c))
    \cup ({"tab"} \X {i \in {0} : job[c].phase \in {"tab", "saving"}})

\* A step is in one place at a time: on its way to the extension, in the tab,
\* or on its way back, also when the host returns its answer as an error and
\* the extension answers that. So it is carried out once and answered once.
OnePlace == \A c \in Calls : \A p, q \in Places(c) : p = q

\* An agent that stays up is connected to a host again, whichever of the
\* processes have ended and however often the host had given up.
ConnectionRecovers ==
  <>[](agent # "down") => <>[](agent = "serving" /\ host.link = "reading")

\* An answer that found no writer goes to and fro between host and extension;
\* with the agent back this ends, unless the signal of the loss came after the
\* new writer and took it away.
EchoEnds ==
  <>[](agent = "serving" /\ host.link = "reading" /\ ~overtaken)
    => <>[](toChrome = <<>> /\ fromChrome = <<>>)
=============================================================================
