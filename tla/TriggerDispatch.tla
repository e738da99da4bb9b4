--------------------------- MODULE TriggerDispatch ---------------------------
(***************************************************************************)
(* A workflow trigger: its schedule, the minute tick that finds it due     *)
(* (ScheduleTriggerService), the Telegram updates that match it            *)
(* (TelegramUpdateService) and the calls of runTriggeredWorkflow, which    *)
(* nobody awaits and which therefore overlap, cut at their awaits. No      *)
(* handler writes two triggers: one stands for all. The columns lastRunAt, *)
(* lastRunStatus and lastWorkflowRunId are left out.                       *)
(***************************************************************************)
EXTENDS Integers, FiniteSets

CONSTANTS
  Calls,         \* bound: calls of runTriggeredWorkflow in progress together
  Every,         \* the period of a repeated schedule, in units of the clock
  MaxTime,       \* bound: the clock, in units longer than the tick's minute
  MaxDeliveries, \* bound: deliveries of a Telegram update
  MaxEdits,      \* bound: calls of updateTrigger
  MaxFaults,     \* bound: database errors, and workflows without a valid graph
  MaxCrashes     \* bound: restarts of the server

ASSUME CallsAssumption == IsFiniteSet(Calls)
ASSUME BoundsAssumption ==
  /\ Every \in Nat \ {0} /\ MaxTime \in Nat \ {0} /\ MaxDeliveries \in Nat
  /\ MaxEdits \in Nat /\ MaxFaults \in Nat /\ MaxCrashes \in Nat

Times   == 1..MaxTime
Never   == 0          \* nextRunAt = null
Kinds   == {"ONCE", "INTERVAL", "CRON"} \* CRON: DAILY and HOURLY as well
Update  == 1          \* the Telegram update there is

VARIABLES
  type,       \* SCHEDULE or TELEGRAM
  now,
  trigger,    \* the row: enabled, its schedule (kind, runAt) and nextRunAt
  active,     \* Workflow.isActive
  subscribed, \* what assertActive finds
  call,       \* [Calls -> a call of runTriggeredWorkflow]
  delivered, answered, \* of the update: deliveries, and is Telegram satisfied
  fired,      \* runs started for a due time, or for the update
  stuck,      \* runs whose TriggerExecution a call that is gone has left STARTED
  misled,     \* rows that ended FAILED although the run was started
  dropped,    \* due times that an edit or a restart has replaced
  raced,      \* has the trigger been edited under a call that had read it
  edits, faults, crashes

world == <<type, now, active, subscribed>>
tg    == <<delivered, answered>>
hist  == <<fired, stuck, misled>>
editing == <<raced, dropped, edits>>
vars  == <<world, trigger, call, tg, hist, editing, faults, crashes>>

-----------------------------------------------------------------------------
(* schedule.util.ts *)

NextOnce(at, from) == IF at > from THEN at ELSE Never

\* The first multiple of the period after a moment.
NextCron(from) == (from \div Every + 1) * Every

computeNextRunAt(t, from) ==
  CASE t.kind = "ONCE"     -> NextOnce(t.runAt, from)
    [] t.kind = "INTERVAL" -> from + Every
    [] t.kind = "CRON"     -> NextCron(from)

\* runAt counts for ONCE only; a TELEGRAM trigger has no schedule, as a date
\* that has passed.
Schedules == {s \in [enabled : BOOLEAN, kind : Kinds, runAt : Times] :
                /\ s.kind # "ONCE" => s.runAt = 1
                /\ type = "TELEGRAM" => s.kind = "ONCE" /\ s.runAt = 1}
Row(s, from) == [enabled |-> s.enabled, kind |-> s.kind, runAt |-> s.runAt,
                 next |-> computeNextRunAt(s, from)]

Idle == [pc |-> "idle", cause |-> 0, kind |-> "ONCE", runAt |-> 1, exec |-> "none", ran |-> FALSE]

\* createTrigger has been called.
Init ==
  /\ type \in {"SCHEDULE", "TELEGRAM"} /\ now = 1
  /\ \E s \in Schedules : s.enabled /\ trigger = Row(s, now)
  /\ active = TRUE /\ subscribed = TRUE
  /\ call = [c \in Calls |-> Idle]
  /\ delivered = 0 /\ answered = FALSE
  /\ fired = [n \in Times |-> 0] /\ stuck = 0 /\ misled = 0
  /\ raced = FALSE /\ dropped = {} /\ edits = 0 /\ faults = 0 /\ crashes = 0

Goes(c, pc) == call' = [call EXCEPT ![c].pc = pc]
Ends(c) == call' = [call EXCEPT ![c] = Idle]
Same == UNCHANGED <<world, editing, crashes>>

-----------------------------------------------------------------------------
(* Who dispatches *)

\* tick: a due trigger of an active workflow is dispatched, whatever calls of
\* it are in progress.
Tick(c) ==
  /\ type = "SCHEDULE" /\ trigger.enabled /\ active
  /\ trigger.next # Never /\ trigger.next <= now
  /\ call[c].pc = "idle"
  /\ call' = [call EXCEPT ![c] = [Idle EXCEPT !.pc = "asserting", !.cause = trigger.next]]
  /\ Same /\ UNCHANGED <<trigger, tg, hist, faults>>

\* handleWebhook: the update is answered at once, and handled afterwards. If
\* the answer is lost Telegram delivers the update again.
Webhook(c) ==
  /\ type = "TELEGRAM" /\ ~answered /\ delivered < MaxDeliveries
  /\ call[c].pc = "idle"
  /\ call' = [call EXCEPT ![c] = [Idle EXCEPT !.pc = "matching", !.cause = Update]]
  /\ delivered' = delivered + 1 /\ answered' \in BOOLEAN
  /\ Same /\ UNCHANGED <<trigger, hist, faults>>

\* handleUpdate: the enabled triggers of the bot that match.
Match(c) ==
  /\ call[c].pc = "matching"
  /\ IF trigger.enabled /\ active THEN Goes(c, "asserting") ELSE Ends(c)
  /\ Same /\ UNCHANGED <<trigger, tg, hist, faults>>

-----------------------------------------------------------------------------
(* runTriggeredWorkflow *)

AssertActive(c) ==
  /\ call[c].pc = "asserting"
  /\ Goes(c, IF subscribed THEN "finding" ELSE "skipping")
  /\ Same /\ UNCHANGED <<trigger, tg, hist, faults>>

\* Mutant of Skip: a skipped time is passed over.
SkipMoves(c) ==
  /\ call[c].pc = "skipping"
  /\ trigger' = [trigger EXCEPT !.next = computeNextRunAt(trigger, now)]
  /\ Ends(c)
  /\ Same /\ UNCHANGED <<tg, hist, faults>>

\* A row SKIPPED; nextRunAt stays, so the next tick comes again.
Skip(c) ==
  /\ call[c].pc = "skipping"
  /\ Ends(c)
  /\ Same /\ UNCHANGED <<trigger, tg, hist, faults>>

\* The trigger is read again, with the workflow.
Find(c) ==
  /\ call[c].pc = "finding"
  /\ IF trigger.enabled /\ active
     THEN call' = [call EXCEPT ![c] = [@ EXCEPT !.pc = "creating", !.kind = trigger.kind,
                                                !.runAt = trigger.runAt]]
     ELSE Ends(c)
  /\ Same /\ UNCHANGED <<trigger, tg, hist, faults>>

CreateExecution(c) ==
  /\ call[c].pc = "creating"
  /\ call' = [call EXCEPT ![c] = [@ EXCEPT !.pc = "starting", !.exec = "STARTED"]]
  /\ Same /\ UNCHANGED <<trigger, tg, hist, faults>>

\* startRunFromTrigger asks assertActive again and creates the run.
StartRun(c) ==
  /\ call[c].pc = "starting"
  /\ \/ /\ subscribed
        /\ call' = [call EXCEPT ![c] = [@ EXCEPT !.pc = "completing", !.ran = TRUE]]
        /\ fired' = [fired EXCEPT ![call[c].cause] = @ + 1]
     \/ ~subscribed /\ Goes(c, "failing") /\ UNCHANGED fired
  /\ Same /\ UNCHANGED <<trigger, tg, stuck, misled, faults>>

CompleteExecution(c) ==
  /\ call[c].pc = "completing"
  /\ call' = [call EXCEPT ![c] = [@ EXCEPT !.pc = "moving", !.exec = "COMPLETED"]]
  /\ Same /\ UNCHANGED <<trigger, tg, hist, faults>>

\* Mutant of MovedTo: a started trigger is not moved.
NotMoved(c) == trigger.next

\* By the schedule this call has read, whatever it is by now.
MovedTo(c) == computeNextRunAt(call[c], now)

MoveNextRunAt(c) ==
  /\ call[c].pc = "moving"
  /\ trigger' = [trigger EXCEPT !.next = IF type = "SCHEDULE" THEN MovedTo(c) ELSE @]
  /\ Ends(c)
  /\ Same /\ UNCHANGED <<tg, hist, faults>>

\* The catch: the row ends FAILED, nextRunAt stays.
FailExecution(c) ==
  /\ call[c].pc = "failing"
  /\ Ends(c) /\ misled' = misled + (IF call[c].ran THEN 1 ELSE 0)
  /\ Same /\ UNCHANGED <<trigger, tg, fired, stuck, faults>>

CallStep(c) ==
  \/ Match(c) \/ AssertActive(c) \/ Skip(c) \/ Find(c) \/ CreateExecution(c)
  \/ StartRun(c) \/ CompleteExecution(c) \/ MoveNextRunAt(c) \/ FailExecution(c)

\* Mutant of Caught: the try ends with the start of the run.
CaughtStart == {"starting"}
Caught == {"starting", "completing", "moving"}

\* A statement fails, or the workflow has no valid graph. An error of
\* assertActive is taken for a lapsed subscription, one within the try goes to
\* the catch, and any other ends the call.
Throws(c) ==
  LET pc == call[c].pc IN
  /\ pc # "idle" /\ faults < MaxFaults
  /\ faults' = faults + 1
  /\ \/ pc = "asserting" /\ Goes(c, "skipping") /\ UNCHANGED stuck
     \/ pc \in Caught /\ Goes(c, "failing") /\ UNCHANGED stuck
     \/ /\ pc \notin Caught \cup {"asserting"} /\ Ends(c)
        /\ stuck' = stuck + (IF call[c].exec = "STARTED" /\ call[c].ran THEN 1 ELSE 0)
  /\ Same /\ UNCHANGED <<trigger, tg, fired, misled>>

-----------------------------------------------------------------------------
(* The user, the clock and the server *)

Replaced == IF trigger.next \in Times /\ trigger.next <= now THEN dropped \cup {trigger.next}
            ELSE dropped
HasRead(c) == call[c].pc \in {"creating"} \cup Caught

\* Mutant of Patched: the next time is not computed anew.
PatchedOnly(s) == [Row(s, now) EXCEPT !.next = trigger.next]
Patched(s) == Row(s, now)

\* updateTrigger writes what the patch says and a nextRunAt from the moment of
\* the call.
updateTrigger(s) ==
  /\ edits < MaxEdits /\ edits' = edits + 1
  /\ trigger' = Patched(s)
  /\ raced' = (raced \/ \E c \in Calls : HasRead(c))
  /\ dropped' = Replaced
  /\ UNCHANGED <<world, call, tg, hist, faults, crashes>>

WorkflowToggled ==
  /\ type' = type /\ now' = now
  /\ \/ active' = ~active /\ UNCHANGED subscribed
     \/ subscribed' = ~subscribed /\ UNCHANGED active
  /\ UNCHANGED <<trigger, call, tg, hist, editing, faults, crashes>>

TimePasses ==
  /\ now < MaxTime /\ now' = now + 1
  /\ UNCHANGED <<type, active, subscribed, trigger, call, tg, hist, editing, faults, crashes>>

\* The server restarts; onModuleInit recomputes the next times of the enabled
\* schedules from the present, before any tick.
Restart ==
  LET left == Cardinality({c \in Calls : call[c].exec = "STARTED" /\ call[c].ran}) IN
  /\ crashes < MaxCrashes /\ crashes' = crashes + 1
  /\ call' = [c \in Calls |-> Idle] /\ stuck' = stuck + left
  /\ IF type = "SCHEDULE" /\ trigger.enabled
     THEN /\ trigger' = [trigger EXCEPT !.next = computeNextRunAt(trigger, now)]
          /\ raced' = FALSE /\ dropped' = Replaced
     ELSE UNCHANGED <<trigger, raced, dropped>>
  /\ UNCHANGED <<world, tg, fired, misled, edits, faults>>

Next ==
  \/ \E c \in Calls : Tick(c) \/ Webhook(c) \/ CallStep(c) \/ Throws(c)
  \/ \E s \in Schedules : updateTrigger(s)
  \/ WorkflowToggled \/ TimePasses \/ Restart

Spec == Init /\ [][Next]_vars

\* The cron job runs every minute and awaits are answered.
Fairness ==
  /\ \A c \in Calls : WF_vars(CallStep(c))
  /\ WF_vars(\E c \in Calls : Tick(c))

FairSpec == Spec /\ Fairness

-----------------------------------------------------------------------------
(* Properties *)

\* One time, one run, up to the calls that overlap: for a time that was due the
\* workflow starts at most once per call in progress together and once more per
\* error, whatever restarts and edits; for an update, at most once per delivery.
RunsBounded ==
  \A n \in Times : fired[n] <= IF type = "SCHEDULE" THEN Cardinality(Calls) + faults
                               ELSE delivered

\* nextRunAt is what the stored schedule gives: a run date ahead is kept and a
\* repeated schedule never stops, unless the trigger was edited while a call
\* was starting it with the schedule it had before. A restart repairs that.
NextIsOfSchedule ==
  type = "SCHEDULE" /\ ~raced =>
    CASE trigger.kind = "ONCE"     -> /\ trigger.next \in {trigger.runAt, Never}
                                      /\ trigger.runAt > now => trigger.next = trigger.runAt
      [] trigger.kind = "INTERVAL" -> trigger.next \in 1..(now + Every)
      [] trigger.kind = "CRON"     -> trigger.next > 0 /\ trigger.next % Every = 0

\* The history can be read (NFR-R05: each activation is recorded, from STARTED
\* to COMPLETED or FAILED): the row of a run that was started stays STARTED only
\* after a restart or a second error, and says FAILED only after an error.
HistoryTells ==
  /\ stuck > 0 => crashes > 0 \/ faults >= 2
  /\ misled <= faults

\* A due time is not passed over: while the trigger, its workflow and the
\* subscription stay in force from some moment on, the workflow is started for
\* it, however long it had been overdue, unless a restart or an edit moves it. A
\* call still in progress for an earlier time may move it, and then it is lost.
DueRuns ==
  <>[](trigger.enabled /\ active /\ subscribed) =>
    \A n \in Times \ {1} :
      (/\ type = "SCHEDULE" /\ trigger.next = n /\ n <= now
       /\ \A c \in Calls : call[c].cause \in {0, n})
        ~> (fired[n] > 0 \/ n \in dropped)
=============================================================================
