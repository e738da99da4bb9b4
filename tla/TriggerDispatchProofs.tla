----------------------- MODULE TriggerDispatchProofs ------------------------
(***************************************************************************)
(* Theorems about TriggerDispatch, for any number of overlapping calls,    *)
(* any period and every value of the bounds.                               *)
(*                                                                         *)
(* The inductive invariant counts calls. While a time that is due is still *)
(* nextRunAt (Unmoved), every run started for it is one of a call that is  *)
(* about to move it, or cost an error. Once it is moved it never returns,  *)
(* because a next time lies ahead whenever it is computed, and the calls   *)
(* that were dispatched for it by then and have not started their run      *)
(* (Pending) are all that can still start one (Bounded).                   *)
(***************************************************************************)
EXTENDS TriggerDispatch, FiniteSetTheorems, TLAPS

Pcs == {"idle", "matching", "asserting", "skipping", "finding", "creating",
        "starting", "completing", "moving", "failing"}
CallRecords == [pc : Pcs, cause : 0..MaxTime, kind : Kinds, runAt : Times,
                exec : {"none", "STARTED", "COMPLETED"}, ran : BOOLEAN]
Rows == [enabled : BOOLEAN, kind : Kinds, runAt : Times, next : Nat]

TypeOK ==
  /\ type \in {"SCHEDULE", "TELEGRAM"} /\ now \in Times
  /\ trigger \in Rows /\ active \in BOOLEAN /\ subscribed \in BOOLEAN
  /\ call \in [Calls -> CallRecords]
  /\ delivered \in 0..MaxDeliveries /\ answered \in BOOLEAN
  /\ fired \in [Times -> Nat] /\ stuck \in Nat /\ misled \in Nat /\ raced \in BOOLEAN
  /\ dropped \subseteq Times
  /\ edits \in 0..MaxEdits /\ faults \in 0..MaxFaults /\ crashes \in 0..MaxCrashes

\* What the record of a call says of how far it is.
Shape(r) ==
  /\ r.pc = "idle" <=> r.cause = 0
  /\ r.pc \in {"completing", "moving"} => r.ran
  /\ r.ran => r.pc \in {"completing", "moving", "failing"}
Shapes == \A c \in Calls : Shape(call[c])

\* Calls for a time that may start a run yet, that have started it and are to
\* move the trigger, and that are about to note the failure of a started run.
IsPending(r, n) == r.cause = n /\ ~r.ran /\ r.pc # "idle"
IsRunning(r, n) == r.cause = n /\ r.pc \in {"completing", "moving"}
IsMisled(r)     == r.pc = "failing" /\ r.ran
Pending(n) == {c \in Calls : IsPending(call[c], n)}
Started(n) == {c \in Calls : IsRunning(call[c], n)}
Misled     == {c \in Calls : IsMisled(call[c])}

\* Nobody has acted on a time to come.
FutureClear ==
  \A n \in Times : n > now => fired[n] = 0 /\ \A c \in Calls : call[c].cause # n

Unmoved ==
  \A n \in Times :
    type = "SCHEDULE" /\ trigger.enabled /\ trigger.next = n /\ n <= now
      => fired[n] <= Cardinality(Started(n)) + faults

Bounded ==
  \A n \in Times :
    fired[n] + Cardinality(Pending(n))
      <= IF type = "SCHEDULE" THEN Cardinality(Calls) + faults ELSE delivered

\* Unless it was edited under them, the calls act by the schedule as it is.
SameSchedule ==
  type = "SCHEDULE" /\ ~raced => \A c \in Calls : HasRead(c) =>
    call[c].kind = trigger.kind /\ call[c].runAt = trigger.runAt

Counted ==
  /\ misled + Cardinality(Misled) <= faults
  /\ stuck > 0 => crashes > 0 \/ faults >= 2

IInv ==
  /\ TypeOK /\ Shapes /\ FutureClear /\ Unmoved /\ Bounded
  /\ SameSchedule /\ NextIsOfSchedule /\ Counted

-----------------------------------------------------------------------------
(* Counting *)

Bit(p) == IF p THEN 1 ELSE 0

\* Two sets that differ in at most one element.
LEMMA OneMoved ==
  ASSUME NEW S, NEW T, NEW c, IsFiniteSet(S), IsFiniteSet(T), S \ {c} = T \ {c}
  PROVE  /\ Cardinality(S) \in Nat /\ Cardinality(T) \in Nat
         /\ Cardinality(T) = Cardinality(S) + Bit(c \in T) - Bit(c \in S)
<1>1. /\ Cardinality(S) \in Nat /\ Cardinality(T) \in Nat
      /\ Cardinality(S \ {c}) = IF c \in S THEN Cardinality(S) - 1 ELSE Cardinality(S)
      /\ Cardinality(T \ {c}) = IF c \in T THEN Cardinality(T) - 1 ELSE Cardinality(T)
  BY FS_CardinalityType, FS_RemoveElement
<1>. QED
  BY <1>1 DEF Bit

LEMMA CallsFinite == \A S \in SUBSET Calls : IsFiniteSet(S)
  BY CallsAssumption, FS_Subset

\* What becomes of the counts when one call goes on.
LEMMA CallChanges ==
  ASSUME call \in [Calls -> CallRecords], NEW c \in Calls, NEW v \in CallRecords,
         call' = [call EXCEPT ![c] = v]
  PROVE  /\ call' \in [Calls -> CallRecords]
         /\ call'[c] = v /\ \A d \in Calls \ {c} : call'[d] = call[d]
         /\ \A n \in Times :
              /\ Cardinality(Pending(n)) \in Nat /\ Cardinality(Pending(n))' \in Nat
              /\ Cardinality(Started(n)) \in Nat /\ Cardinality(Started(n))' \in Nat
              /\ Cardinality(Pending(n))'
                   = Cardinality(Pending(n)) + Bit(IsPending(v, n)) - Bit(IsPending(call[c], n))
              /\ Cardinality(Started(n))'
                   = Cardinality(Started(n)) + Bit(IsRunning(v, n)) - Bit(IsRunning(call[c], n))
         /\ Cardinality(Misled) \in Nat /\ Cardinality(Misled)' \in Nat
         /\ Cardinality(Misled)' = Cardinality(Misled) + Bit(IsMisled(v)) - Bit(IsMisled(call[c]))
<1>1. /\ call' \in [Calls -> CallRecords]
      /\ call'[c] = v /\ \A d \in Calls \ {c} : call'[d] = call[d]
  OBVIOUS
<1>2. ASSUME NEW n \in Times
      PROVE  /\ Cardinality(Pending(n)) \in Nat /\ Cardinality(Pending(n))' \in Nat
             /\ Cardinality(Started(n)) \in Nat /\ Cardinality(Started(n))' \in Nat
             /\ Cardinality(Pending(n))'
                  = Cardinality(Pending(n)) + Bit(IsPending(v, n)) - Bit(IsPending(call[c], n))
             /\ Cardinality(Started(n))'
                  = Cardinality(Started(n)) + Bit(IsRunning(v, n)) - Bit(IsRunning(call[c], n))
  <2>1. /\ Pending(n) \in SUBSET Calls /\ Pending(n)' \in SUBSET Calls
        /\ Pending(n) \ {c} = Pending(n)' \ {c}
        /\ c \in Pending(n) <=> IsPending(call[c], n)
        /\ c \in Pending(n)' <=> IsPending(v, n)
    BY <1>1 DEF Pending
  <2>2. /\ Started(n) \in SUBSET Calls /\ Started(n)' \in SUBSET Calls
        /\ Started(n) \ {c} = Started(n)' \ {c}
        /\ c \in Started(n) <=> IsRunning(call[c], n)
        /\ c \in Started(n)' <=> IsRunning(v, n)
    BY <1>1 DEF Started
  <2>3. /\ Cardinality(Pending(n)) \in Nat /\ Cardinality(Pending(n)') \in Nat
        /\ Cardinality(Pending(n)')
             = Cardinality(Pending(n)) + Bit(c \in Pending(n)') - Bit(c \in Pending(n))
    BY <2>1, CallsFinite, OneMoved
  <2>4. /\ Cardinality(Started(n)) \in Nat /\ Cardinality(Started(n)') \in Nat
        /\ Cardinality(Started(n)')
             = Cardinality(Started(n)) + Bit(c \in Started(n)') - Bit(c \in Started(n))
    BY <2>2, CallsFinite, OneMoved
  <2>. QED
    BY <2>1, <2>2, <2>3, <2>4 DEF Bit
<1>3. /\ Cardinality(Misled) \in Nat /\ Cardinality(Misled)' \in Nat
      /\ Cardinality(Misled)' = Cardinality(Misled) + Bit(IsMisled(v)) - Bit(IsMisled(call[c]))
  <2>1. /\ Misled \in SUBSET Calls /\ Misled' \in SUBSET Calls
        /\ Misled \ {c} = Misled' \ {c}
        /\ c \in Misled <=> IsMisled(call[c])
        /\ c \in Misled' <=> IsMisled(v)
    BY <1>1 DEF Misled
  <2>2. /\ Cardinality(Misled) \in Nat /\ Cardinality(Misled') \in Nat
        /\ Cardinality(Misled') = Cardinality(Misled) + Bit(c \in Misled') - Bit(c \in Misled)
    BY <2>1, CallsFinite, OneMoved
  <2>. QED
    BY <2>1, <2>2 DEF Bit
<1>. QED
  BY <1>1, <1>2, <1>3

-----------------------------------------------------------------------------
(* Next times *)

LEMMA MultipleDivides ==
  ASSUME NEW q \in Int, NEW e \in Nat \ {0}
  PROVE  (q * e) % e = 0
<1>. DEFINE x == q * e
            d == x \div e
            m == x % e
<1>1. x \in Int /\ d \in Int /\ m \in Int /\ 0 <= m /\ m < e /\ x = e * d + m
  OBVIOUS
<1>2. x = q * e
  OBVIOUS
<1>. HIDE DEF x, d, m
<1>3. (q - d) * e = m
  <2>1. (q - d) * e = q * e - d * e /\ d * e = e * d
    BY <1>1
  <2>. QED
    BY <2>1, <1>1, <1>2
<1>4. CASE q - d >= 1
  <2>1. (q - d) * e >= 1 * e
    BY <1>1, <1>4
  <2>. QED
    BY <2>1, <1>1, <1>3
<1>5. CASE q - d <= -1
  <2>1. (q - d) * e <= (-1) * e
    BY <1>1, <1>5
  <2>. QED
    BY <2>1, <1>1, <1>3
<1>6. CASE q - d = 0
  <2>1. m = 0
    BY <1>1, <1>3, <1>6
  <2>. QED
    BY <2>1 DEF m, x
<1>. QED
  BY <1>1, <1>4, <1>5, <1>6

\* A next time is never or lies ahead, one of a date is that date, and a
\* repeated one falls on its grid.
LEMMA NextTimes ==
  ASSUME NEW t, t.kind \in Kinds, t.runAt \in Times, NEW from \in Times
  PROVE  LET next == computeNextRunAt(t, from) IN
         /\ next \in Nat /\ (next = Never \/ next > from)
         /\ t.kind = "ONCE" => /\ next \in {t.runAt, Never}
                               /\ t.runAt > from => next = t.runAt
         /\ t.kind = "INTERVAL" => next \in 1..(from + Every)
         /\ t.kind = "CRON" => next > 0 /\ next % Every = 0
<1>1. /\ from \in Nat /\ from >= 1 /\ t.runAt \in Nat /\ t.runAt >= 1
      /\ Every \in Nat /\ Every >= 1
  BY BoundsAssumption DEF Times
<1>2. CASE t.kind = "ONCE"
  BY <1>1, <1>2 DEF computeNextRunAt, NextOnce, Never
<1>3. CASE t.kind = "INTERVAL"
  BY <1>1, <1>3 DEF computeNextRunAt, Never
<1>4. CASE t.kind = "CRON"
  <2>. DEFINE q == from \div Every
  <2>1. q \in Nat /\ from = q * Every + (from % Every) /\ from % Every < Every /\ from % Every >= 0
    BY <1>1
  <2>2. NextCron(from) = (q + 1) * Every
    BY DEF NextCron
  <2>. HIDE DEF q
  <2>3. (q + 1) * Every = q * Every + Every /\ q * Every \in Nat
    BY <1>1, <2>1
  <2>4. NextCron(from) \in Nat /\ NextCron(from) > from
    BY <1>1, <2>1, <2>2, <2>3
  <2>5. NextCron(from) % Every = 0
    <3>1. q + 1 \in Int /\ Every \in Nat \ {0}
      BY <1>1, <2>1
    <3>2. ((q + 1) * Every) % Every = 0
      BY <3>1, MultipleDivides, Zenon
    <3>. QED
      BY <2>2, <3>2, Zenon
  <2>. QED
    BY <1>4, <2>4, <2>5, <1>1 DEF computeNextRunAt
<1>. QED
  BY <1>2, <1>3, <1>4 DEF Kinds

-----------------------------------------------------------------------------
(* The counting part of the invariant over a step of one call: what it may  *)
(* add to the runs of a time, and where it leaves nextRunAt                 *)

LEMMA CountsKept ==
  ASSUME IInv, NEW c \in Calls, NEW v \in CallRecords, Shape(v),
         call' = [call EXCEPT ![c] = v],
         UNCHANGED <<type, now>>, fired' \in [Times -> Nat],
         faults' \in Nat, faults <= faults', delivered' \in Nat, delivered <= delivered',
         v.cause \in {0, call[c].cause},
         \A n \in Times :
           fired'[n] + Bit(IsPending(v, n)) <= fired[n] + Bit(IsPending(call[c], n)),
         \/ /\ UNCHANGED trigger
            /\ \A n \in Times : fired'[n] + Bit(IsRunning(call[c], n)) + faults
                                  <= fired[n] + Bit(IsRunning(v, n)) + faults'
         \/ trigger'.next = Never \/ trigger'.next > now \/ type # "SCHEDULE"
  PROVE  Shapes' /\ FutureClear' /\ Unmoved' /\ Bounded'
<1>1. /\ TypeOK /\ call \in [Calls -> CallRecords] /\ fired \in [Times -> Nat]
      /\ faults \in Nat /\ delivered \in Nat /\ Cardinality(Calls) \in Nat
      /\ trigger.next \in Nat /\ now \in Nat /\ Times \subseteq Nat \ {0}
  <2>1. Cardinality(Calls) \in Nat
    BY CallsAssumption, FS_CardinalityType
  <2>2. Times \subseteq Nat \ {0}
    BY BoundsAssumption DEF Times
  <2>. QED
    BY <2>1, <2>2 DEF IInv, TypeOK, Rows
<1>2. /\ call'[c] = v /\ \A d \in Calls \ {c} : call'[d] = call[d]
      /\ \A n \in Times :
           /\ Cardinality(Pending(n)) \in Nat /\ Cardinality(Pending(n))' \in Nat
           /\ Cardinality(Started(n)) \in Nat /\ Cardinality(Started(n))' \in Nat
           /\ Cardinality(Pending(n))'
                = Cardinality(Pending(n)) + Bit(IsPending(v, n)) - Bit(IsPending(call[c], n))
           /\ Cardinality(Started(n))'
                = Cardinality(Started(n)) + Bit(IsRunning(v, n)) - Bit(IsRunning(call[c], n))
  BY <1>1, CallChanges
<1>3. Shapes'
  BY <1>2 DEF IInv, Shapes
<1>4. \A p \in BOOLEAN : Bit(p) \in Nat /\ Bit(p) <= 1
  BY DEF Bit
<1>5. FutureClear'
  <2>. SUFFICES ASSUME NEW n \in Times, n > now
                PROVE  fired'[n] = 0 /\ \A d \in Calls : call'[d].cause # n
    BY DEF FutureClear
  <2>1. fired[n] = 0 /\ \A d \in Calls : call[d].cause # n
    BY DEF IInv, FutureClear
  <2>2. n # 0
    BY <1>1
  <2>3. \A d \in Calls : call'[d].cause # n
    BY <1>2, <2>1, <2>2
  <2>4. ~IsPending(v, n) /\ ~IsPending(call[c], n)
    BY <2>1, <2>2 DEF IsPending
  <2>5. fired'[n] <= fired[n]
    BY <1>1, <2>4 DEF Bit
  <2>. QED
    BY <1>1, <2>1, <2>3, <2>5
<1>6. Unmoved'
  <2>. SUFFICES ASSUME NEW n \in Times, type' = "SCHEDULE", trigger'.enabled,
                       trigger'.next = n, n <= now
                PROVE  fired'[n] <= Cardinality(Started(n))' + faults'
    BY DEF Unmoved
  <2>1. /\ UNCHANGED trigger
        /\ fired'[n] + Bit(IsRunning(call[c], n)) + faults
             <= fired[n] + Bit(IsRunning(v, n)) + faults'
    BY <1>1 DEF Never
  <2>2. fired[n] <= Cardinality(Started(n)) + faults
    BY <2>1 DEF IInv, Unmoved
  <2>3. /\ Cardinality(Started(n)) \in Nat /\ Cardinality(Started(n))' \in Nat
        /\ Cardinality(Started(n))'
             = Cardinality(Started(n)) + Bit(IsRunning(v, n)) - Bit(IsRunning(call[c], n))
    BY <1>2
  <2>. QED
    BY <1>1, <2>1, <2>2, <2>3 DEF Bit
<1>7. Bounded'
  <2>. SUFFICES ASSUME NEW n \in Times
                PROVE  fired'[n] + Cardinality(Pending(n))'
                         <= IF type' = "SCHEDULE" THEN Cardinality(Calls) + faults'
                            ELSE delivered'
    BY DEF Bounded
  <2>1. fired[n] + Cardinality(Pending(n))
          <= IF type = "SCHEDULE" THEN Cardinality(Calls) + faults ELSE delivered
    BY DEF IInv, Bounded
  <2>2. /\ Cardinality(Pending(n)) \in Nat /\ Cardinality(Pending(n))' \in Nat
        /\ Cardinality(Pending(n))'
             = Cardinality(Pending(n)) + Bit(IsPending(v, n)) - Bit(IsPending(call[c], n))
    BY <1>2
  <2>3. fired'[n] + Bit(IsPending(v, n)) <= fired[n] + Bit(IsPending(call[c], n))
    OBVIOUS
  <2>. QED
    BY <1>1, <2>1, <2>2, <2>3 DEF Bit
<1>. QED
  BY <1>3, <1>5, <1>6, <1>7

\* The rest of the invariant over such a step.
LEMMA RestKept ==
  ASSUME IInv, NEW c \in Calls, NEW v \in CallRecords,
         call' = [call EXCEPT ![c] = v],
         UNCHANGED <<type, now, raced, crashes>>,
         misled' \in Nat, faults' \in Nat, faults <= faults',
         misled' + Bit(IsMisled(v)) + faults <= misled + Bit(IsMisled(call[c])) + faults',
         stuck' = stuck \/ faults' >= 2,
         \/ trigger' = trigger
         \/ /\ trigger'.kind = trigger.kind /\ trigger'.runAt = trigger.runAt
            /\ HasRead(c) /\ trigger'.next = computeNextRunAt(call[c], now),
         HasRead(c)' => \/ v.kind = trigger.kind /\ v.runAt = trigger.runAt
                        \/ HasRead(c) /\ v.kind = call[c].kind /\ v.runAt = call[c].runAt
  PROVE  SameSchedule' /\ NextIsOfSchedule' /\ Counted'
<1>1. /\ TypeOK /\ call \in [Calls -> CallRecords] /\ faults \in Nat /\ misled \in Nat
      /\ trigger \in Rows /\ now \in Times
  BY DEF IInv, TypeOK
<1>2. /\ call'[c] = v /\ \A d \in Calls \ {c} : call'[d] = call[d]
      /\ Cardinality(Misled) \in Nat /\ Cardinality(Misled)' \in Nat
      /\ Cardinality(Misled)' = Cardinality(Misled) + Bit(IsMisled(v)) - Bit(IsMisled(call[c]))
  BY <1>1, CallChanges
<1>3. trigger'.kind = trigger.kind /\ trigger'.runAt = trigger.runAt
  OBVIOUS
<1>4. SameSchedule'
  BY <1>2, <1>3 DEF IInv, SameSchedule, HasRead
<1>5. NextIsOfSchedule'
  <2>1. CASE trigger' = trigger
    BY <2>1 DEF IInv, NextIsOfSchedule
  <2>2. CASE type = "SCHEDULE" /\ ~raced /\ HasRead(c)
             /\ trigger'.next = computeNextRunAt(call[c], now)
    <3>1. call[c].kind = trigger.kind /\ call[c].runAt = trigger.runAt
      BY <2>2 DEF IInv, SameSchedule
    <3>2. /\ trigger.kind \in Kinds /\ trigger.runAt \in Times
      BY <1>1 DEF Rows
    <3>. DEFINE next == computeNextRunAt(call[c], now)
    <3>3. /\ next \in Nat /\ (next = Never \/ next > now)
          /\ call[c].kind = "ONCE" => /\ next \in {call[c].runAt, Never}
                                      /\ call[c].runAt > now => next = call[c].runAt
          /\ call[c].kind = "INTERVAL" => next \in 1..(now + Every)
          /\ call[c].kind = "CRON" => next > 0 /\ next % Every = 0
      BY <1>1, <3>1, <3>2, NextTimes
    <3>4. trigger'.next = next /\ now' = now
      BY <2>2
    <3>. HIDE DEF next
    <3>5. /\ trigger'.kind = call[c].kind /\ trigger'.runAt = call[c].runAt
          /\ call[c].kind \in Kinds
      BY <1>3, <3>1, <3>2
    <3>6. CASE trigger'.kind = "ONCE"
      <4>1. trigger'.next \in {trigger'.runAt, Never}
        BY <3>3, <3>4, <3>5, <3>6
      <4>2. trigger'.runAt > now' => trigger'.next = trigger'.runAt
        BY <3>3, <3>4, <3>5, <3>6
      <4>. QED
        BY <3>6, <4>1, <4>2 DEF NextIsOfSchedule
    <3>7. CASE trigger'.kind = "INTERVAL"
      <4>1. trigger'.next \in 1..(now' + Every)
        BY <3>3, <3>4, <3>5, <3>7
      <4>. QED
        BY <3>7, <4>1 DEF NextIsOfSchedule
    <3>8. CASE trigger'.kind = "CRON"
      <4>1. trigger'.next > 0 /\ trigger'.next % Every = 0
        BY <3>3, <3>4, <3>5, <3>8
      <4>. QED
        BY <3>8, <4>1 DEF NextIsOfSchedule
    <3>. QED
      BY <3>5, <3>6, <3>7, <3>8 DEF Kinds
  <2>. QED
    BY <2>1, <2>2 DEF NextIsOfSchedule
<1>6. Counted'
  <2>1. /\ misled + Cardinality(Misled) <= faults
        /\ stuck > 0 => crashes > 0 \/ faults >= 2
    BY DEF IInv, Counted
  <2>2. misled' + Cardinality(Misled)' <= faults'
    <3>1. /\ misled' \in Nat /\ faults' \in Nat
          /\ misled' + Bit(IsMisled(v)) + faults <= misled + Bit(IsMisled(call[c])) + faults'
      OBVIOUS
    <3>2. Bit(IsMisled(v)) \in Nat /\ Bit(IsMisled(call[c])) \in Nat
      BY DEF Bit
    <3>. QED
      BY <1>1, <1>2, <2>1, <3>1, <3>2
  <2>3. stuck' > 0 => crashes' > 0 \/ faults' >= 2
    BY <1>1, <2>1
  <2>. QED
    BY <2>2, <2>3 DEF Counted
<1>. QED
  BY <1>4, <1>5, <1>6

-----------------------------------------------------------------------------
(* The steps of a call that is in progress *)

\* A step of a call that neither moves the trigger nor starts a run.
LEMMA CallGoesOn ==
  ASSUME IInv, NEW c \in Calls, NEW v \in CallRecords, Shape(v),
         call' = [call EXCEPT ![c] = v],
         UNCHANGED <<world, trigger, tg, fired, editing, crashes>>,
         misled' \in Nat, stuck' \in Nat, faults' \in 0..MaxFaults, faults <= faults',
         misled' + Bit(IsMisled(v)) + faults <= misled + Bit(IsMisled(call[c])) + faults',
         stuck' = stuck \/ faults' >= 2,
         v.cause \in {0, call[c].cause}, v.pc # "idle" => v.ran = call[c].ran,
         \A n \in Times : IsRunning(call[c], n) => IsRunning(v, n) \/ faults < faults',
         HasRead(c)' => \/ v.kind = trigger.kind /\ v.runAt = trigger.runAt
                        \/ HasRead(c) /\ v.kind = call[c].kind /\ v.runAt = call[c].runAt
  PROVE  IInv'
<1>1. /\ TypeOK /\ call \in [Calls -> CallRecords] /\ fired \in [Times -> Nat]
      /\ faults \in Nat /\ faults' \in Nat /\ delivered \in Nat /\ Shape(call[c])
      /\ Times \subseteq Nat \ {0} /\ call[c] \in CallRecords
  BY BoundsAssumption DEF IInv, TypeOK, Shapes, Times
<1>2. /\ UNCHANGED <<type, now, active, subscribed, trigger, delivered, answered, fired>>
      /\ UNCHANGED <<raced, dropped, edits, crashes>>
  BY DEF world, tg, editing
<1>3. TypeOK'
  <2>1. call' \in [Calls -> CallRecords]
    BY <1>1
  <2>. QED
    BY <1>1, <1>2, <2>1 DEF TypeOK
<1>4. Shapes' /\ FutureClear' /\ Unmoved' /\ Bounded'
  <2>1. ASSUME NEW n \in Times
        PROVE  fired'[n] + Bit(IsPending(v, n)) <= fired[n] + Bit(IsPending(call[c], n))
    <3>1. IsPending(v, n) => IsPending(call[c], n)
      BY <1>1 DEF IsPending, Shape, CallRecords
    <3>2. Bit(IsPending(v, n)) <= Bit(IsPending(call[c], n))
      BY <3>1 DEF Bit
    <3>3. fired'[n] = fired[n] /\ fired[n] \in Nat
      BY <1>1, <1>2
    <3>4. Bit(IsPending(v, n)) \in Nat /\ Bit(IsPending(call[c], n)) \in Nat
      BY DEF Bit
    <3>. QED
      BY <3>2, <3>3, <3>4
  <2>2. ASSUME NEW n \in Times
        PROVE  fired'[n] + Bit(IsRunning(call[c], n)) + faults
                 <= fired[n] + Bit(IsRunning(v, n)) + faults'
    <3>1. IsRunning(call[c], n) => IsRunning(v, n) \/ faults < faults'
      OBVIOUS
    <3>2. Bit(IsRunning(call[c], n)) + faults <= Bit(IsRunning(v, n)) + faults'
      <4>1. /\ Bit(IsRunning(call[c], n)) \in {0, 1} /\ Bit(IsRunning(v, n)) \in {0, 1}
            /\ faults <= faults'
        BY DEF Bit
      <4>2. \/ Bit(IsRunning(call[c], n)) = 0
            \/ Bit(IsRunning(v, n)) = 1
            \/ faults < faults'
        BY <3>1 DEF Bit
      <4>. QED
        BY <1>1, <4>1, <4>2
    <3>3. fired'[n] = fired[n] /\ fired[n] \in Nat
      BY <1>1, <1>2
    <3>4. Bit(IsRunning(v, n)) \in Nat /\ Bit(IsRunning(call[c], n)) \in Nat
      BY DEF Bit
    <3>. QED
      BY <1>1, <3>2, <3>3, <3>4
  <2>3. /\ UNCHANGED <<type, now>> /\ fired' \in [Times -> Nat]
        /\ delivered' \in Nat /\ delivered <= delivered' /\ UNCHANGED trigger
    BY <1>1, <1>2
  <2>. QED
    BY <1>1, <2>1, <2>2, <2>3, CountsKept
<1>5. SameSchedule' /\ NextIsOfSchedule' /\ Counted'
  <2>1. UNCHANGED <<type, now, raced, crashes>> /\ trigger' = trigger
    BY <1>2
  <2>. QED
    BY <1>1, <2>1, RestKept
<1>. QED
  BY <1>3, <1>4, <1>5 DEF IInv

\* What the steps of a call have in common.
LEMMA InProgress ==
  ASSUME IInv, NEW c \in Calls
  PROVE  /\ call \in [Calls -> CallRecords] /\ call[c] \in CallRecords /\ Shape(call[c])
         /\ Idle \in CallRecords /\ Shape(Idle) /\ ~IsMisled(Idle)
         /\ \A n \in Times : ~IsRunning(Idle, n) /\ ~IsPending(Idle, n)
         /\ misled \in Nat /\ stuck \in Nat /\ faults \in 0..MaxFaults
         /\ faults \in Nat /\ MaxFaults \in Nat
<1>1. 1 \in Times /\ MaxTime \in Nat /\ MaxFaults \in Nat
  BY BoundsAssumption DEF Times
<1>2. Idle \in CallRecords
  BY <1>1 DEF Idle, CallRecords, Pcs, Kinds
<1>3. /\ Idle.pc = "idle" /\ Idle.cause = 0 /\ Idle.ran = FALSE
  BY DEF Idle
<1>4. call \in [Calls -> CallRecords] /\ misled \in Nat /\ stuck \in Nat /\ faults \in 0..MaxFaults
  BY DEF IInv, TypeOK
<1>5. Shape(call[c])
  BY DEF IInv, Shapes
<1>. QED
  BY <1>1, <1>2, <1>3, <1>4, <1>5 DEF Shape, IsRunning, IsPending, IsMisled

\* A call that ends, without having started a run that it is to complete.
LEMMA CallEnds ==
  ASSUME IInv, NEW c \in Calls, Ends(c),
         call[c].pc \notin {"completing", "moving"},
         UNCHANGED <<world, trigger, tg, fired, editing, crashes>>,
         misled' \in Nat, stuck' \in Nat, faults' \in 0..MaxFaults, faults <= faults',
         misled' + faults <= misled + Bit(IsMisled(call[c])) + faults',
         stuck' = stuck \/ faults' >= 2
  PROVE  IInv'
<1>1. call' = [call EXCEPT ![c] = Idle] /\ ~HasRead(c)'
  <2>1. call' = [call EXCEPT ![c] = Idle]
    BY DEF Ends
  <2>2. call'[c] = Idle
    BY <2>1, InProgress
  <2>. QED
    BY <2>1, <2>2 DEF HasRead, Idle, Caught
<1>2. /\ Idle \in CallRecords /\ Shape(Idle) /\ Idle.cause = 0 /\ Idle.pc = "idle"
      /\ Bit(IsMisled(Idle)) = 0
  BY InProgress DEF Bit, Idle
<1>3. \A n \in Times : ~IsRunning(call[c], n)
  BY DEF IsRunning
<1>4. misled' + Bit(IsMisled(Idle)) + faults <= misled + Bit(IsMisled(call[c])) + faults'
  <2>1. faults \in Nat
    BY InProgress
  <2>. QED
    BY <1>2, <2>1
<1>. HIDE DEF Idle
<1>. QED
  BY <1>1, <1>2, <1>3, <1>4, CallGoesOn

\* A call that goes on, and has started its run or not as before.
LEMMA CallGoes ==
  ASSUME IInv, NEW c \in Calls, NEW v \in CallRecords,
         call' = [call EXCEPT ![c] = v],
         v.cause = call[c].cause, v.ran = call[c].ran, Shape(v),
         UNCHANGED <<world, trigger, tg, fired, editing, crashes>>,
         misled' = misled, stuck' = stuck,
         faults' \in 0..MaxFaults, faults <= faults',
         v.pc = "failing" /\ v.ran => faults < faults',
         call[c].pc \in {"completing", "moving"}
           => v.pc \in {"completing", "moving"} \/ faults < faults',
         v.pc \in {"creating"} \cup Caught
           => \/ v.kind = trigger.kind /\ v.runAt = trigger.runAt
              \/ HasRead(c) /\ v.kind = call[c].kind /\ v.runAt = call[c].runAt
  PROVE  IInv'
<1>1. /\ call \in [Calls -> CallRecords] /\ misled \in Nat /\ stuck \in Nat
      /\ faults \in Nat /\ faults' \in Nat
  BY InProgress
<1>2. call'[c] = v
  BY <1>1
<1>3. HasRead(c)' => \/ v.kind = trigger.kind /\ v.runAt = trigger.runAt
                     \/ HasRead(c) /\ v.kind = call[c].kind /\ v.runAt = call[c].runAt
  BY <1>2 DEF HasRead, Caught
<1>4. \A n \in Times : IsRunning(call[c], n) => IsRunning(v, n) \/ faults < faults'
  BY DEF IsRunning
<1>5. misled' + Bit(IsMisled(v)) + faults <= misled + Bit(IsMisled(call[c])) + faults'
  <2>1. IsMisled(v) => faults < faults'
    BY DEF IsMisled
  <2>2. Bit(IsMisled(v)) + faults <= faults'
    BY <1>1, <2>1 DEF Bit
  <2>3. Bit(IsMisled(v)) \in Nat /\ Bit(IsMisled(call[c])) \in Nat /\ misled' = misled
    BY DEF Bit
  <2>. QED
    BY <1>1, <2>2, <2>3
<1>. QED
  BY <1>1, <1>3, <1>4, <1>5, CallGoesOn

\* A call that goes on and changes nothing but its place.
LEMMA CallMoves ==
  ASSUME IInv, NEW c \in Calls, NEW p \in Pcs, Goes(c, p), call[c].pc # "idle",
         \/ p # "idle" /\ (call[c].ran <=> p \in {"completing", "moving"})
         \/ p = "failing" /\ call[c].pc \in Caught,
         UNCHANGED <<world, trigger, tg, fired, editing, crashes>>,
         misled' = misled, stuck' = stuck,
         faults' \in 0..MaxFaults, faults <= faults',
         p = "failing" /\ call[c].ran => faults < faults',
         call[c].pc \in {"completing", "moving"}
           => p \in {"completing", "moving"} \/ faults < faults',
         p \in {"creating"} \cup Caught => HasRead(c)
  PROVE  IInv'
<1>. DEFINE v == [call[c] EXCEPT !.pc = p]
<1>1. call[c] \in CallRecords /\ Shape(call[c])
  BY InProgress
<1>2. v \in CallRecords
  BY <1>1 DEF CallRecords
<1>3. /\ v.pc = p /\ v.cause = call[c].cause /\ v.ran = call[c].ran
      /\ v.kind = call[c].kind /\ v.runAt = call[c].runAt
  BY <1>1 DEF CallRecords
<1>4. call' = [call EXCEPT ![c] = v]
  BY DEF Goes
<1>. HIDE DEF v
<1>5. Shape(v)
  BY <1>1, <1>3 DEF Shape
<1>6. /\ v.pc = "failing" /\ v.ran => faults < faults'
      /\ call[c].pc \in {"completing", "moving"}
           => v.pc \in {"completing", "moving"} \/ faults < faults'
      /\ v.pc \in {"creating"} \cup Caught
           => \/ v.kind = trigger.kind /\ v.runAt = trigger.runAt
              \/ HasRead(c) /\ v.kind = call[c].kind /\ v.runAt = call[c].runAt
  BY <1>3
<1>. QED
  BY <1>2, <1>3, <1>4, <1>5, <1>6, CallGoes

LEMMA MatchKeeps ==
  ASSUME IInv, NEW c \in Calls, Match(c)
  PROVE  IInv'
<1>1. /\ misled \in Nat /\ stuck \in Nat /\ faults \in 0..MaxFaults /\ faults \in Nat
      /\ Shape(call[c])
  BY InProgress
<1>2. /\ UNCHANGED <<world, trigger, tg, fired, editing, crashes>>
      /\ misled' = misled /\ stuck' = stuck /\ faults' = faults
      /\ call[c].pc = "matching"
  BY DEF Match, Same, hist
<1>3. CASE Goes(c, "asserting")
  <2>1. /\ "asserting" \in Pcs /\ ~call[c].ran
        /\ "asserting" \notin {"creating"} \cup Caught
    BY <1>1, <1>2 DEF Pcs, Shape, Caught
  <2>. QED
    BY <1>1, <1>2, <1>3, <2>1, CallMoves
<1>4. CASE Ends(c)
  <2>1. misled' + faults <= misled + Bit(IsMisled(call[c])) + faults'
    BY <1>1, <1>2 DEF Bit
  <2>. QED
    BY <1>1, <1>2, <1>4, <2>1, CallEnds
<1>. QED
  BY <1>3, <1>4 DEF Match

LEMMA AssertActiveKeeps ==
  ASSUME IInv, NEW c \in Calls, AssertActive(c)
  PROVE  IInv'
<1>1. /\ misled \in Nat /\ stuck \in Nat /\ faults \in 0..MaxFaults /\ faults \in Nat
      /\ Shape(call[c])
  BY InProgress
<1>2. /\ UNCHANGED <<world, trigger, tg, fired, editing, crashes>>
      /\ misled' = misled /\ stuck' = stuck /\ faults' = faults
      /\ call[c].pc = "asserting"
  BY DEF AssertActive, Same, hist
<1>3. PICK p \in {"finding", "skipping"} : Goes(c, p)
  BY DEF AssertActive
<1>4. /\ p \in Pcs /\ ~call[c].ran /\ p \notin {"creating"} \cup Caught
      /\ p \notin {"idle", "failing", "completing", "moving"}
  BY <1>1, <1>2 DEF Pcs, Shape, Caught
<1>. QED
  BY <1>1, <1>2, <1>3, <1>4, CallMoves

LEMMA SkipKeeps ==
  ASSUME IInv, NEW c \in Calls, Skip(c)
  PROVE  IInv'
<1>1. misled \in Nat /\ stuck \in Nat /\ faults \in 0..MaxFaults /\ faults \in Nat
  BY InProgress
<1>2. /\ UNCHANGED <<world, trigger, tg, fired, editing, crashes>>
      /\ misled' = misled /\ stuck' = stuck /\ faults' = faults
      /\ call[c].pc = "skipping" /\ Ends(c)
  BY DEF Skip, Same, hist
<1>3. misled' + faults <= misled + Bit(IsMisled(call[c])) + faults'
  BY <1>1, <1>2 DEF Bit
<1>. QED
  BY <1>1, <1>2, <1>3, CallEnds

LEMMA FindKeeps ==
  ASSUME IInv, NEW c \in Calls, Find(c)
  PROVE  IInv'
<1>1. /\ misled \in Nat /\ stuck \in Nat /\ faults \in 0..MaxFaults /\ faults \in Nat
      /\ Shape(call[c]) /\ call[c] \in CallRecords
  BY InProgress
<1>2. /\ UNCHANGED <<world, trigger, tg, fired, editing, crashes>>
      /\ misled' = misled /\ stuck' = stuck /\ faults' = faults
      /\ call[c].pc = "finding"
  BY DEF Find, Same, hist
<1>. DEFINE v == [call[c] EXCEPT !.pc = "creating", !.kind = trigger.kind,
                                 !.runAt = trigger.runAt]
<1>3. CASE call' = [call EXCEPT ![c] = v]
  <2>1. trigger.kind \in Kinds /\ trigger.runAt \in Times
    BY DEF IInv, TypeOK, Rows
  <2>2. v \in CallRecords
    BY <1>1, <2>1 DEF CallRecords, Pcs
  <2>3. /\ v.pc = "creating" /\ v.cause = call[c].cause /\ v.ran = call[c].ran
        /\ v.kind = trigger.kind /\ v.runAt = trigger.runAt
    BY <1>1 DEF CallRecords
  <2>. HIDE DEF v
  <2>4. Shape(v)
    BY <1>1, <1>2, <2>3 DEF Shape
  <2>5. /\ v.pc # "failing" /\ faults <= faults' /\ faults' \in 0..MaxFaults
        /\ call[c].pc \notin {"completing", "moving"}
        /\ UNCHANGED <<world, trigger, tg, fired, editing, crashes>>
        /\ misled' = misled /\ stuck' = stuck
    BY <1>1, <1>2, <2>3
  <2>. QED
    BY <1>3, <2>2, <2>3, <2>4, <2>5, CallGoes
<1>4. CASE Ends(c)
  <2>1. misled' + faults <= misled + Bit(IsMisled(call[c])) + faults'
    BY <1>1, <1>2 DEF Bit
  <2>. QED
    BY <1>1, <1>2, <1>4, <2>1, CallEnds
<1>. QED
  BY <1>3, <1>4 DEF Find

\* The step after a write of the call's TriggerExecution.
LEMMA RowWritten ==
  ASSUME IInv, NEW c \in Calls, NEW p \in Pcs, NEW e \in {"STARTED", "COMPLETED"},
         call' = [call EXCEPT ![c] = [@ EXCEPT !.pc = p, !.exec = e]],
         \/ call[c].pc = "creating" /\ p = "starting"
         \/ call[c].pc = "completing" /\ p = "moving",
         UNCHANGED <<world, trigger, tg, fired, editing, crashes, misled, stuck, faults>>
  PROVE  IInv'
<1>1. /\ misled \in Nat /\ stuck \in Nat /\ faults \in 0..MaxFaults /\ faults \in Nat
      /\ Shape(call[c]) /\ call[c] \in CallRecords
  BY InProgress
<1>2. HasRead(c)
  BY DEF HasRead, Caught
<1>. DEFINE v == [call[c] EXCEPT !.pc = p, !.exec = e]
<1>3. v \in CallRecords
  BY <1>1 DEF CallRecords
<1>4. /\ v.pc = p /\ v.cause = call[c].cause /\ v.ran = call[c].ran
      /\ v.kind = call[c].kind /\ v.runAt = call[c].runAt
  BY <1>1 DEF CallRecords
<1>5. call' = [call EXCEPT ![c] = v]
  OBVIOUS
<1>. HIDE DEF v
<1>6. Shape(v)
  BY <1>1, <1>4 DEF Shape
<1>7. /\ v.pc # "failing" /\ faults <= faults' /\ faults' \in 0..MaxFaults
      /\ call[c].pc \in {"completing", "moving"} => v.pc \in {"completing", "moving"}
      /\ UNCHANGED <<world, trigger, tg, fired, editing, crashes>>
      /\ misled' = misled /\ stuck' = stuck
  BY <1>1, <1>4
<1>. QED
  BY <1>2, <1>3, <1>4, <1>5, <1>6, <1>7, CallGoes

LEMMA ExecutionKeeps ==
  ASSUME IInv, NEW c \in Calls, CreateExecution(c) \/ CompleteExecution(c)
  PROVE  IInv'
<1>1. /\ UNCHANGED <<world, trigger, tg, fired, editing, crashes, misled, stuck, faults>>
  BY DEF CreateExecution, CompleteExecution, Same, hist
<1>2. CASE CreateExecution(c)
  BY <1>1, <1>2, RowWritten DEF CreateExecution, Pcs
<1>3. CASE CompleteExecution(c)
  BY <1>1, <1>3, RowWritten DEF CompleteExecution, Pcs
<1>. QED
  BY <1>2, <1>3

LEMMA FailExecutionKeeps ==
  ASSUME IInv, NEW c \in Calls, FailExecution(c)
  PROVE  IInv'
<1>1. /\ misled \in Nat /\ stuck \in Nat /\ faults \in 0..MaxFaults /\ faults \in Nat
  BY InProgress
<1>2. /\ UNCHANGED <<world, trigger, tg, fired, editing, crashes>>
      /\ stuck' = stuck /\ faults' = faults
      /\ call[c].pc = "failing" /\ Ends(c)
      /\ misled' = misled + (IF call[c].ran THEN 1 ELSE 0)
  BY DEF FailExecution, Same
<1>3. misled' = misled + Bit(IsMisled(call[c]))
  BY <1>2 DEF Bit, IsMisled
<1>4. Bit(IsMisled(call[c])) \in Nat
  BY DEF Bit
<1>5. misled' \in Nat /\ misled' + faults <= misled + Bit(IsMisled(call[c])) + faults'
  BY <1>1, <1>2, <1>3, <1>4
<1>. QED
  BY <1>1, <1>2, <1>5, CallEnds

LEMMA StartRunKeeps ==
  ASSUME IInv, NEW c \in Calls, StartRun(c)
  PROVE  IInv'
<1>1. /\ misled \in Nat /\ stuck \in Nat /\ faults \in 0..MaxFaults /\ faults \in Nat
      /\ Shape(call[c]) /\ call[c] \in CallRecords /\ call \in [Calls -> CallRecords]
  BY InProgress
<1>2. /\ UNCHANGED <<world, trigger, tg, editing, crashes>>
      /\ UNCHANGED <<misled, stuck, faults>> /\ call[c].pc = "starting"
      /\ ~call[c].ran /\ HasRead(c)
  BY <1>1 DEF StartRun, Same, HasRead, Caught, Shape, CallRecords
<1>3. CASE Goes(c, "failing") /\ UNCHANGED fired
  <2>1. "failing" \in Pcs /\ call[c].pc \in Caught
    BY <1>2 DEF Pcs, Caught
  <2>2. /\ UNCHANGED <<world, trigger, tg, fired, editing, crashes>>
        /\ misled' = misled /\ stuck' = stuck /\ faults' \in 0..MaxFaults /\ faults <= faults'
        /\ call[c].pc # "idle" /\ call[c].pc \notin {"completing", "moving"}
    BY <1>1, <1>2, <1>3
  <2>. QED
    BY <1>2, <1>3, <2>1, <2>2, CallMoves
<1>4. CASE /\ call' = [call EXCEPT ![c] = [@ EXCEPT !.pc = "completing", !.ran = TRUE]]
           /\ fired' = [fired EXCEPT ![call[c].cause] = @ + 1]
  <2>. DEFINE v == [call[c] EXCEPT !.pc = "completing", !.ran = TRUE]
              n0 == call[c].cause
  <2>1. v \in CallRecords
    BY <1>1 DEF CallRecords, Pcs
  <2>2. /\ v.pc = "completing" /\ v.cause = n0 /\ v.ran = TRUE
        /\ v.kind = call[c].kind /\ v.runAt = call[c].runAt
    BY <1>1 DEF CallRecords
  <2>3. call' = [call EXCEPT ![c] = v]
    BY <1>4
  <2>4. n0 \in Times /\ Times \subseteq Nat \ {0}
    BY <1>1, <1>2, BoundsAssumption DEF CallRecords, Shape, Times
  <2>. HIDE DEF v, n0
  <2>5. Shape(v)
    BY <2>2, <2>4 DEF Shape
  <2>6. fired \in [Times -> Nat] /\ fired' \in [Times -> Nat]
    <3>1. fired \in [Times -> Nat]
      BY DEF IInv, TypeOK
    <3>. QED
      BY <1>4, <2>4, <3>1 DEF n0
  <2>7. \A n \in Times : fired'[n] = fired[n] + Bit(n = n0)
    BY <1>4, <2>4, <2>6 DEF Bit, n0
  <2>8. UNCHANGED <<type, now, active, subscribed, trigger, delivered, answered>>
    BY <1>2 DEF world, tg
  <2>9. ASSUME NEW n \in Times
        PROVE  /\ Bit(IsPending(v, n)) = 0 /\ Bit(IsPending(call[c], n)) = Bit(n = n0)
               /\ Bit(IsRunning(v, n)) = Bit(n = n0) /\ Bit(IsRunning(call[c], n)) = 0
    <3>1. /\ ~IsPending(v, n) /\ (IsPending(call[c], n) <=> n = n0)
          /\ (IsRunning(v, n) <=> n = n0) /\ ~IsRunning(call[c], n)
      BY <1>2, <2>2 DEF IsPending, IsRunning, n0
    <3>. QED
      BY <3>1 DEF Bit
  <2>10. ASSUME NEW n \in Times
         PROVE  /\ fired'[n] + Bit(IsPending(v, n)) <= fired[n] + Bit(IsPending(call[c], n))
                /\ fired'[n] + Bit(IsRunning(call[c], n)) + faults
                     <= fired[n] + Bit(IsRunning(v, n)) + faults'
    <3>1. fired[n] \in Nat /\ Bit(n = n0) \in Nat /\ faults' = faults /\ faults \in Nat
      BY <1>1, <1>2, <2>6 DEF Bit
    <3>. QED
      BY <2>7, <2>9, <3>1
  <2>11. TypeOK'
    <3>1. TypeOK /\ call' \in [Calls -> CallRecords]
      BY <1>1, <2>1, <2>3 DEF IInv
    <3>. QED
      BY <1>2, <2>6, <2>8, <3>1 DEF TypeOK, editing
  <2>12. Shapes' /\ FutureClear' /\ Unmoved' /\ Bounded'
    <3>1. /\ UNCHANGED <<type, now>> /\ faults' \in Nat /\ faults <= faults'
          /\ delivered' \in Nat /\ delivered <= delivered' /\ UNCHANGED trigger
          /\ v.cause \in {0, call[c].cause}
      BY <1>1, <1>2, <2>2, <2>8, BoundsAssumption DEF IInv, TypeOK, n0
    <3>. QED
      BY <2>1, <2>3, <2>5, <2>6, <2>10, <3>1, CountsKept
  <2>13. SameSchedule' /\ NextIsOfSchedule' /\ Counted'
    <3>1. /\ UNCHANGED <<type, now, raced, crashes>> /\ trigger' = trigger
          /\ misled' \in Nat /\ faults' \in Nat /\ faults <= faults'
          /\ stuck' = stuck
      BY <1>1, <1>2, <2>8 DEF editing
    <3>2. Bit(IsMisled(v)) = 0 /\ Bit(IsMisled(call[c])) = 0
      BY <1>2, <2>2 DEF IsMisled, Bit
    <3>3. misled' + Bit(IsMisled(v)) + faults <= misled + Bit(IsMisled(call[c])) + faults'
      BY <1>1, <1>2, <3>2
    <3>. QED
      BY <1>2, <2>1, <2>2, <2>3, <3>1, <3>3, RestKept
  <2>. QED
    BY <2>11, <2>12, <2>13 DEF IInv
<1>. QED
  BY <1>3, <1>4 DEF StartRun

LEMMA MoveKeeps ==
  ASSUME IInv, NEW c \in Calls, MoveNextRunAt(c)
  PROVE  IInv'
<1>1. /\ misled \in Nat /\ stuck \in Nat /\ faults \in 0..MaxFaults /\ faults \in Nat
      /\ Shape(call[c]) /\ call[c] \in CallRecords /\ call \in [Calls -> CallRecords]
      /\ Idle \in CallRecords /\ Shape(Idle) /\ ~IsMisled(Idle)
      /\ \A n \in Times : ~IsRunning(Idle, n) /\ ~IsPending(Idle, n)
  BY InProgress
<1>2. /\ UNCHANGED <<type, now, active, subscribed, delivered, answered>>
      /\ UNCHANGED <<raced, dropped, edits, crashes, fired, misled, stuck, faults>>
      /\ call[c].pc = "moving" /\ call' = [call EXCEPT ![c] = Idle]
  BY DEF MoveNextRunAt, Same, Ends, world, tg, editing, hist
<1>3. /\ TypeOK /\ trigger \in Rows /\ now \in Times /\ fired \in [Times -> Nat]
      /\ delivered \in Nat
  BY BoundsAssumption DEF IInv, TypeOK
<1>4. HasRead(c)
  BY <1>2 DEF HasRead, Caught
<1>. DEFINE next == computeNextRunAt(call[c], now)
<1>5. next \in Nat /\ (next = Never \/ next > now)
  BY <1>1, <1>3, NextTimes DEF CallRecords
<1>6. /\ trigger' \in Rows /\ trigger'.kind = trigger.kind /\ trigger'.runAt = trigger.runAt
      /\ trigger' = trigger \/ trigger'.next = next
      /\ type = "SCHEDULE" => trigger'.next = next
  <2>1. trigger' = [trigger EXCEPT !.next = IF type = "SCHEDULE" THEN next ELSE @]
    BY DEF MoveNextRunAt, MovedTo
  <2>. HIDE DEF next
  <2>. QED
    BY <1>3, <1>5, <2>1 DEF Rows
<1>. HIDE DEF next
<1>7. TypeOK'
  <2>1. call' \in [Calls -> CallRecords]
    BY <1>1, <1>2
  <2>. QED
    BY <1>2, <1>3, <1>6, <2>1 DEF TypeOK
<1>8. Shapes' /\ FutureClear' /\ Unmoved' /\ Bounded'
  <2>1. ASSUME NEW n \in Times
        PROVE  fired'[n] + Bit(IsPending(Idle, n)) <= fired[n] + Bit(IsPending(call[c], n))
    <3>1. Bit(IsPending(Idle, n)) = 0
      BY <1>1 DEF Bit
    <3>2. Bit(IsPending(call[c], n)) \in Nat /\ fired[n] \in Nat /\ fired' = fired
      BY <1>2, <1>3 DEF Bit
    <3>. QED
      BY <3>1, <3>2
  <2>2. /\ UNCHANGED <<type, now>> /\ fired' \in [Times -> Nat]
        /\ faults' \in Nat /\ faults <= faults' /\ delivered' \in Nat /\ delivered <= delivered'
        /\ trigger'.next = Never \/ trigger'.next > now \/ type # "SCHEDULE"
    BY <1>1, <1>2, <1>3, <1>5, <1>6
  <2>3. Idle.cause \in {0, call[c].cause}
    BY DEF Idle
  <2>. HIDE DEF Idle
  <2>. QED
    BY <1>1, <1>2, <2>1, <2>2, <2>3, CountsKept
<1>9. SameSchedule' /\ NextIsOfSchedule' /\ Counted'
  <2>1. ~HasRead(c)'
    <3>1. call'[c] = Idle
      BY <1>1, <1>2
    <3>. QED
      BY <3>1 DEF HasRead, Caught, Idle
  <2>2. Bit(IsMisled(Idle)) = 0 /\ Bit(IsMisled(call[c])) \in Nat
    BY <1>1 DEF Bit
  <2>3. misled' + Bit(IsMisled(Idle)) + faults <= misled + Bit(IsMisled(call[c])) + faults'
    BY <1>1, <1>2, <2>2
  <2>4. /\ UNCHANGED <<type, now, raced, crashes>>
        /\ misled' \in Nat /\ faults' \in Nat /\ faults <= faults' /\ stuck' = stuck
        /\ \/ trigger' = trigger
           \/ /\ trigger'.kind = trigger.kind /\ trigger'.runAt = trigger.runAt
              /\ HasRead(c) /\ trigger'.next = computeNextRunAt(call[c], now)
    BY <1>1, <1>2, <1>4, <1>6 DEF next
  <2>. HIDE DEF Idle
  <2>. QED
    BY <1>1, <1>2, <2>1, <2>3, <2>4, RestKept
<1>. QED
  BY <1>7, <1>8, <1>9 DEF IInv

\* An error that goes to the catch is one; one that ends a call of which the
\* run was started is the second, the first having led to the catch.
LEMMA ThrowsKeeps ==
  ASSUME IInv, NEW c \in Calls, Throws(c)
  PROVE  IInv'
<1>1. /\ misled \in Nat /\ stuck \in Nat /\ faults \in 0..MaxFaults /\ faults \in Nat
      /\ Shape(call[c]) /\ call[c] \in CallRecords /\ call \in [Calls -> CallRecords]
      /\ MaxFaults \in Nat
  BY InProgress
<1>2. /\ UNCHANGED <<world, trigger, tg, fired, editing, crashes>>
      /\ misled' = misled /\ call[c].pc # "idle"
      /\ faults' \in 0..MaxFaults /\ faults < faults' /\ faults <= faults' /\ faults' = faults + 1
  BY <1>1 DEF Throws, Same
<1>3. CASE /\ call[c].pc = "asserting" /\ Goes(c, "skipping")
           /\ UNCHANGED stuck
  <2>1. /\ "skipping" \in Pcs /\ ~call[c].ran
        /\ "skipping" \notin {"creating"} \cup Caught
    BY <1>1, <1>3 DEF Pcs, Shape, Caught
  <2>. QED
    BY <1>2, <1>3, <2>1, CallMoves
<1>4. CASE call[c].pc \in Caught /\ Goes(c, "failing") /\ UNCHANGED stuck
  <2>1. "failing" \in Pcs /\ HasRead(c)
    BY <1>4 DEF Pcs, HasRead
  <2>. QED
    BY <1>2, <1>4, <2>1, CallMoves
<1>5. CASE /\ call[c].pc \notin Caught \cup {"asserting"} /\ Ends(c)
           /\ stuck' = stuck + (IF call[c].exec = "STARTED" /\ call[c].ran THEN 1 ELSE 0)
  <2>1. stuck' \in Nat
    BY <1>1, <1>5
  <2>2. stuck' = stuck \/ faults' >= 2
    <3>1. CASE ~call[c].ran
      BY <1>1, <1>5, <3>1
    <3>2. CASE call[c].ran
      <4>1. IsMisled(call[c])
        BY <1>1, <1>5, <3>2 DEF Shape, IsMisled, Caught
      <4>2. c \in Misled /\ IsFiniteSet(Misled)
        BY <4>1, CallsFinite DEF Misled
      <4>3. Cardinality(Misled) \in Nat /\ Cardinality(Misled) # 0
        BY <4>2, FS_CardinalityType, FS_EmptySet
      <4>4. misled + Cardinality(Misled) <= faults
        BY DEF IInv, Counted
      <4>. QED
        BY <1>1, <1>2, <4>3, <4>4
    <3>. QED
      BY <1>1, <3>1, <3>2 DEF CallRecords
  <2>3. misled' + faults <= misled + Bit(IsMisled(call[c])) + faults'
    <3>1. Bit(IsMisled(call[c])) \in Nat
      BY DEF Bit
    <3>. QED
      BY <1>1, <1>2, <3>1
  <2>4. call[c].pc \notin {"completing", "moving"}
    BY <1>5 DEF Caught
  <2>5. misled' \in Nat
    BY <1>1, <1>2
  <2>. QED
    BY <1>2, <1>5, <2>1, <2>2, <2>3, <2>4, <2>5, CallEnds
<1>. QED
  BY <1>3, <1>4, <1>5 DEF Throws

-----------------------------------------------------------------------------
(* Who dispatches *)

\* The calls for a time are those there were and the one that begins.
LEMMA CallBegins ==
  ASSUME IInv, NEW c \in Calls, NEW v \in CallRecords, call[c].pc = "idle",
         v.pc \in {"asserting", "matching"}, v.ran = FALSE, v.cause \in Times,
         call' = [call EXCEPT ![c] = v]
  PROVE  /\ call' \in [Calls -> CallRecords] /\ Shapes'
         /\ call'[c] = v /\ \A d \in Calls \ {c} : call'[d] = call[d]
         /\ Misled' = Misled
         /\ \A n \in Times :
              /\ Started(n)' = Started(n)
              /\ n # v.cause => Pending(n)' = Pending(n)
              /\ Cardinality(Pending(n)) \in Nat /\ Cardinality(Pending(n))' \in Nat
              /\ Cardinality(Pending(n))' <= Cardinality(Pending(n)) + 1
<1>1. /\ call \in [Calls -> CallRecords] /\ call[c] \in CallRecords /\ Shape(call[c])
  BY InProgress
<1>2. /\ call' \in [Calls -> CallRecords] /\ call'[c] = v
      /\ \A d \in Calls \ {c} : call'[d] = call[d]
  BY <1>1
<1>3. v.cause # 0
  BY BoundsAssumption DEF Times
<1>4. Shape(v)
  BY <1>3 DEF Shape
<1>5. Shapes'
  BY <1>2, <1>4 DEF IInv, Shapes
<1>6. /\ ~IsMisled(v) /\ ~IsMisled(call[c])
      /\ \A n \in Times : ~IsRunning(v, n) /\ ~IsRunning(call[c], n) /\ ~IsPending(call[c], n)
      /\ \A n \in Times : IsPending(v, n) => n = v.cause
  BY DEF IsMisled, IsRunning, IsPending
<1>7. Misled' = Misled
  BY <1>2, <1>6 DEF Misled
<1>8. ASSUME NEW n \in Times
      PROVE  Started(n)' = Started(n) /\ (n # v.cause => Pending(n)' = Pending(n))
  BY <1>2, <1>6 DEF Started, Pending
<1>9. ASSUME NEW n \in Times
      PROVE  /\ Cardinality(Pending(n)) \in Nat /\ Cardinality(Pending(n))' \in Nat
             /\ Cardinality(Pending(n))' <= Cardinality(Pending(n)) + 1
  <2>1. /\ Cardinality(Pending(n)) \in Nat /\ Cardinality(Pending(n))' \in Nat
        /\ Cardinality(Pending(n))'
             = Cardinality(Pending(n)) + Bit(IsPending(v, n)) - Bit(IsPending(call[c], n))
    BY <1>1, CallChanges
  <2>2. Bit(IsPending(v, n)) \in 0..1 /\ Bit(IsPending(call[c], n)) \in 0..1
    BY DEF Bit
  <2>. QED
    BY <2>1, <2>2
<1>. QED
  BY <1>2, <1>5, <1>7, <1>8, <1>9

\* nextRunAt is a time that is due, so what has started for it is under way, and
\* with the calls for it that have not started there are as many as calls.
LEMMA TickKeeps ==
  ASSUME IInv, NEW c \in Calls, Tick(c)
  PROVE  IInv'
<1>1. /\ TypeOK /\ Idle \in CallRecords /\ faults \in Nat /\ call \in [Calls -> CallRecords]
      /\ trigger \in Rows /\ now \in Times /\ fired \in [Times -> Nat]
  BY InProgress DEF IInv, TypeOK
<1>2. /\ UNCHANGED <<type, now, active, subscribed, trigger, delivered, answered, fired>>
      /\ UNCHANGED <<stuck, misled, raced, dropped, edits, faults, crashes>>
      /\ type = "SCHEDULE" /\ call[c].pc = "idle" /\ trigger.enabled
      /\ trigger.next # 0 /\ trigger.next <= now
  BY DEF Tick, Same, world, tg, hist, editing, Never
<1>. DEFINE v == [Idle EXCEPT !.pc = "asserting", !.cause = trigger.next]
<1>3. call' = [call EXCEPT ![c] = v]
  BY DEF Tick
<1>4. trigger.next \in Times /\ \A n \in Times : n \in Nat
  <2>1. trigger.next \in Nat /\ now \in Nat /\ now <= MaxTime /\ MaxTime \in Nat
    BY <1>1, BoundsAssumption DEF Rows, Times
  <2>. QED
    BY <1>2, <2>1 DEF Times
<1>5. v \in CallRecords
  <2>1. trigger.next \in 0..MaxTime
    BY <1>4, BoundsAssumption DEF Times
  <2>. QED
    BY <1>1, <2>1 DEF CallRecords, Pcs
<1>6. v.pc = "asserting" /\ v.cause = trigger.next /\ v.ran = FALSE
  BY DEF Idle
<1>. HIDE DEF v
<1>7. /\ call' \in [Calls -> CallRecords] /\ Shapes'
      /\ call'[c] = v /\ \A d \in Calls \ {c} : call'[d] = call[d]
      /\ Misled' = Misled
      /\ \A n \in Times :
           /\ Started(n)' = Started(n)
           /\ n # v.cause => Pending(n)' = Pending(n)
           /\ Cardinality(Pending(n)) \in Nat /\ Cardinality(Pending(n))' \in Nat
           /\ Cardinality(Pending(n))' <= Cardinality(Pending(n)) + 1
  BY <1>2, <1>3, <1>4, <1>5, <1>6, CallBegins
<1>8. TypeOK'
  BY <1>1, <1>2, <1>7 DEF TypeOK
<1>9. FutureClear'
  <2>. SUFFICES ASSUME NEW n \in Times, n > now
                PROVE  fired[n] = 0 /\ \A d \in Calls : call'[d].cause # n
    BY <1>2 DEF FutureClear
  <2>1. fired[n] = 0 /\ \A d \in Calls : call[d].cause # n
    BY DEF IInv, FutureClear
  <2>2. trigger.next # n
    <3>1. trigger.next \in Int /\ n \in Int /\ now \in Int
      BY <1>1, BoundsAssumption DEF Rows, Times
    <3>. QED
      BY <1>2, <3>1
  <2>. QED
    BY <1>6, <1>7, <2>1, <2>2
<1>10. Unmoved'
  <2>. SUFFICES ASSUME NEW n \in Times,
                       type = "SCHEDULE", trigger.enabled, trigger.next = n, n <= now
                PROVE  fired[n] <= Cardinality(Started(n)') + faults
    BY <1>2 DEF Unmoved
  <2>. QED
    BY <1>7 DEF IInv, Unmoved
<1>11. Bounded'
  <2>. SUFFICES ASSUME NEW n \in Times
                PROVE  fired[n] + Cardinality(Pending(n)') <= Cardinality(Calls) + faults
    BY <1>2 DEF Bounded
  <2>1. CASE n # trigger.next
    BY <1>2, <1>6, <1>7, <2>1 DEF IInv, Bounded
  <2>2. CASE n = trigger.next
    <3>1. fired[n] <= Cardinality(Started(n)) + faults
      BY <1>2, <2>2 DEF IInv, Unmoved
    <3>2. Started(n) \cap Pending(n)' = {}
      <4>1. Started(n)' \cap Pending(n)' = {}
        <5>1. \A d \in Calls : Shape(call'[d])
          BY <1>7 DEF Shapes
        <5>. QED
          BY <5>1 DEF Started, Pending, Shape, IsRunning, IsPending
      <4>. QED
        BY <1>7, <4>1
    <3>3. /\ IsFiniteSet(Started(n)) /\ IsFiniteSet(Pending(n)') /\ IsFiniteSet(Calls)
          /\ Started(n) \cup Pending(n)' \in SUBSET Calls
      BY CallsFinite, CallsAssumption DEF Started, Pending
    <3>4. Cardinality(Started(n) \cup Pending(n)')
            = Cardinality(Started(n)) + Cardinality(Pending(n)') - Cardinality({})
      BY <3>2, <3>3, FS_Union
    <3>5. Cardinality(Started(n) \cup Pending(n)') <= Cardinality(Calls)
      BY <3>3, FS_Subset
    <3>6. /\ Cardinality({}) = 0 /\ Cardinality(Started(n)) \in Nat
          /\ Cardinality(Pending(n)') \in Nat /\ Cardinality(Calls) \in Nat /\ fired[n] \in Nat
      BY <1>1, <3>3, FS_CardinalityType, FS_EmptySet
    <3>. QED
      BY <1>1, <3>1, <3>4, <3>5, <3>6
  <2>. QED
    BY <2>1, <2>2
<1>12. SameSchedule'
  BY <1>2, <1>6, <1>7 DEF IInv, SameSchedule, HasRead, Caught
<1>13. NextIsOfSchedule'
  BY <1>2 DEF IInv, NextIsOfSchedule
<1>14. Counted'
  BY <1>2, <1>7 DEF IInv, Counted
<1>. QED
  BY <1>7, <1>8, <1>9, <1>10, <1>11, <1>12, <1>13, <1>14 DEF IInv

LEMMA WebhookKeeps ==
  ASSUME IInv, NEW c \in Calls, Webhook(c)
  PROVE  IInv'
<1>1. /\ TypeOK /\ Idle \in CallRecords /\ faults \in Nat /\ call \in [Calls -> CallRecords]
      /\ now \in Times /\ fired \in [Times -> Nat] /\ delivered \in Nat /\ 1 \in Times
      /\ MaxDeliveries \in Nat /\ delivered \in 0..MaxDeliveries
  BY InProgress, BoundsAssumption DEF IInv, TypeOK, Times
<1>2. /\ UNCHANGED <<type, now, active, subscribed, trigger, fired>>
      /\ UNCHANGED <<stuck, misled, raced, dropped, edits, faults, crashes>>
      /\ type = "TELEGRAM" /\ call[c].pc = "idle"
      /\ delivered < MaxDeliveries /\ delivered' = delivered + 1 /\ answered' \in BOOLEAN
  BY DEF Webhook, Same, world, hist, editing
<1>. DEFINE v == [Idle EXCEPT !.pc = "matching", !.cause = 1]
<1>3. call' = [call EXCEPT ![c] = v]
  BY DEF Webhook, Update
<1>4. v \in CallRecords
  <2>1. 1 \in 0..MaxTime
    BY <1>1 DEF Times
  <2>. QED
    BY <1>1, <2>1 DEF CallRecords, Pcs
<1>5. v.pc = "matching" /\ v.cause = 1 /\ v.ran = FALSE
  BY DEF Idle
<1>. HIDE DEF v
<1>6. /\ call' \in [Calls -> CallRecords] /\ Shapes'
      /\ call'[c] = v /\ \A d \in Calls \ {c} : call'[d] = call[d]
      /\ Misled' = Misled
      /\ \A n \in Times :
           /\ Cardinality(Pending(n)) \in Nat /\ Cardinality(Pending(n))' \in Nat
           /\ Cardinality(Pending(n))' <= Cardinality(Pending(n)) + 1
  BY <1>1, <1>2, <1>3, <1>4, <1>5, CallBegins
<1>7. TypeOK'
  BY <1>1, <1>2, <1>6 DEF TypeOK
<1>8. FutureClear'
  <2>. SUFFICES ASSUME NEW n \in Times, n > now
                PROVE  fired[n] = 0 /\ \A d \in Calls : call'[d].cause # n
    BY <1>2 DEF FutureClear
  <2>1. fired[n] = 0 /\ \A d \in Calls : call[d].cause # n
    BY DEF IInv, FutureClear
  <2>2. n # 1
    BY <1>1, BoundsAssumption DEF Times
  <2>. QED
    BY <1>5, <1>6, <2>1, <2>2
<1>9. Unmoved'
  BY <1>2 DEF Unmoved
<1>10. Bounded'
  <2>. SUFFICES ASSUME NEW n \in Times
                PROVE  fired[n] + Cardinality(Pending(n)') <= delivered + 1
    BY <1>2 DEF Bounded
  <2>1. fired[n] + Cardinality(Pending(n)) <= delivered
    BY <1>2 DEF IInv, Bounded
  <2>2. fired[n] \in Nat
    BY <1>1
  <2>. QED
    BY <1>1, <1>6, <2>1, <2>2
<1>11. SameSchedule' /\ NextIsOfSchedule'
  BY <1>2 DEF SameSchedule, NextIsOfSchedule
<1>12. Counted'
  BY <1>2, <1>6 DEF IInv, Counted
<1>. QED
  BY <1>6, <1>7, <1>8, <1>9, <1>10, <1>11, <1>12 DEF IInv

-----------------------------------------------------------------------------
(* The user, the clock and the server *)

\* What a schedule gives, from whenever it is computed.
LEMMA ScheduleHolds ==
  ASSUME now \in Times, NEW s, s.kind \in Kinds, s.runAt \in Times,
         trigger'.kind = s.kind, trigger'.runAt = s.runAt,
         trigger'.next = computeNextRunAt(s, now), now' = now
  PROVE  /\ NextIsOfSchedule' /\ trigger'.next \in Nat
         /\ trigger'.next = Never \/ trigger'.next > now
<1>. DEFINE next == computeNextRunAt(s, now)
<1>1. /\ next \in Nat /\ (next = Never \/ next > now)
      /\ s.kind = "ONCE" => /\ next \in {s.runAt, Never}
                            /\ s.runAt > now => next = s.runAt
      /\ s.kind = "INTERVAL" => next \in 1..(now + Every)
      /\ s.kind = "CRON" => next > 0 /\ next % Every = 0
  BY NextTimes
<1>2. trigger'.next = next
  OBVIOUS
<1>. HIDE DEF next
<1>3. CASE s.kind = "ONCE"
  <2>1. /\ trigger'.next \in {trigger'.runAt, Never}
        /\ trigger'.runAt > now' => trigger'.next = trigger'.runAt
    BY <1>1, <1>2, <1>3
  <2>. QED
    BY <1>1, <1>2, <1>3, <2>1 DEF NextIsOfSchedule
<1>4. CASE s.kind = "INTERVAL"
  <2>1. trigger'.next \in 1..(now' + Every)
    BY <1>1, <1>2, <1>4
  <2>. QED
    BY <1>1, <1>2, <1>4, <2>1 DEF NextIsOfSchedule
<1>5. CASE s.kind = "CRON"
  <2>1. trigger'.next > 0 /\ trigger'.next % Every = 0
    BY <1>1, <1>2, <1>5
  <2>. QED
    BY <1>1, <1>2, <1>5, <2>1 DEF NextIsOfSchedule
<1>. QED
  BY <1>3, <1>4, <1>5 DEF Kinds

\* A patch under a call that has read the schedule is the race; without one no
\* call acts by the old schedule.
LEMMA updateTriggerKeeps ==
  ASSUME IInv, NEW s \in Schedules, updateTrigger(s)
  PROVE  IInv'
<1>1. /\ TypeOK /\ now \in Times /\ trigger \in Rows /\ edits \in 0..MaxEdits
      /\ dropped \subseteq Times /\ raced \in BOOLEAN
  BY DEF IInv, TypeOK
<1>2. /\ UNCHANGED <<type, now, active, subscribed, call, delivered, answered, fired>>
      /\ UNCHANGED <<stuck, misled, faults, crashes>>
      /\ edits' \in 0..MaxEdits
      /\ trigger' = Row(s, now)
      /\ raced' = (raced \/ \E c \in Calls : HasRead(c))
      /\ dropped' = Replaced
  BY <1>1, BoundsAssumption DEF updateTrigger, Patched, world, tg, hist
<1>3. s.enabled \in BOOLEAN /\ s.kind \in Kinds /\ s.runAt \in Times
  BY DEF Schedules
<1>4. /\ trigger'.kind = s.kind /\ trigger'.runAt = s.runAt /\ trigger'.enabled = s.enabled
      /\ trigger'.next = computeNextRunAt(s, now)
  BY <1>2 DEF Row
<1>5. /\ NextIsOfSchedule' /\ trigger'.next \in Nat
      /\ trigger'.next = Never \/ trigger'.next > now
  BY <1>1, <1>2, <1>3, <1>4, ScheduleHolds
<1>6. TypeOK'
  <2>1. trigger' \in Rows
    BY <1>2, <1>3, <1>4, <1>5 DEF Row, Rows
  <2>2. dropped' \subseteq Times
    BY <1>1, <1>2 DEF Replaced
  <2>3. raced' \in BOOLEAN
    BY <1>2
  <2>. QED
    BY <1>1, <1>2, <2>1, <2>2, <2>3 DEF TypeOK
<1>7. Shapes' /\ FutureClear' /\ Bounded' /\ Counted'
  <2>1. Misled' = Misled /\ \A n \in Times : Pending(n)' = Pending(n)
    BY <1>2 DEF Misled, Pending
  <2>. QED
    BY <1>2, <2>1 DEF IInv, Shapes, FutureClear, Bounded, Counted
<1>8. Unmoved'
  <2>1. \A n \in Times : n \in Nat \ {0}
    BY BoundsAssumption DEF Times
  <2>. QED
    BY <1>1, <1>2, <1>5, <2>1 DEF Unmoved, Never
<1>9. SameSchedule'
  BY <1>2 DEF SameSchedule, HasRead
<1>. QED
  BY <1>5, <1>6, <1>7, <1>8, <1>9 DEF IInv

LEMMA AsideKeeps ==
  ASSUME IInv, UNCHANGED <<type, now, trigger, call, tg, hist, editing, faults, crashes>>,
         active' \in BOOLEAN, subscribed' \in BOOLEAN
  PROVE  IInv'
<1>1. /\ UNCHANGED <<type, now, trigger, call, delivered, answered, fired>>
      /\ UNCHANGED <<stuck, misled, raced, dropped, edits, faults, crashes>>
  BY DEF tg, hist, editing
<1>2. Misled' = Misled /\ \A n \in Times : Pending(n)' = Pending(n) /\ Started(n)' = Started(n)
  BY <1>1 DEF Misled, Pending, Started
<1>3. TypeOK'
  BY <1>1 DEF IInv, TypeOK
<1>4. Shapes' /\ FutureClear' /\ Unmoved' /\ Bounded' /\ Counted'
  BY <1>1, <1>2 DEF IInv, Shapes, FutureClear, Unmoved, Bounded, Counted
<1>5. SameSchedule' /\ NextIsOfSchedule'
  BY <1>1 DEF IInv, SameSchedule, NextIsOfSchedule, HasRead
<1>. QED
  BY <1>3, <1>4, <1>5 DEF IInv

LEMMA TimePassesKeeps ==
  ASSUME IInv, TimePasses
  PROVE  IInv'
<1>1. /\ TypeOK /\ now \in Times /\ trigger \in Rows /\ faults \in Nat
      /\ fired \in [Times -> Nat] /\ Every \in Nat /\ MaxTime \in Nat
      /\ \A n \in Times : n \in Nat
  BY BoundsAssumption DEF IInv, TypeOK, Times
<1>2. /\ UNCHANGED <<type, active, subscribed, trigger, call, delivered, answered, fired>>
      /\ UNCHANGED <<stuck, misled, raced, dropped, edits, faults, crashes>>
      /\ now' = now + 1 /\ now' \in Times
  BY <1>1 DEF TimePasses, tg, hist, editing, Times
<1>3. Misled' = Misled /\ \A n \in Times : Pending(n)' = Pending(n) /\ Started(n)' = Started(n)
  BY <1>2 DEF Misled, Pending, Started
<1>4. TypeOK'
  BY <1>1, <1>2 DEF TypeOK
<1>5. Shapes' /\ Bounded' /\ Counted' /\ SameSchedule'
  BY <1>2, <1>3 DEF IInv, Shapes, Bounded, Counted, SameSchedule, HasRead
<1>6. FutureClear'
  BY <1>1, <1>2 DEF IInv, FutureClear
<1>7. Unmoved'
  <2>. SUFFICES ASSUME NEW n \in Times, type = "SCHEDULE", trigger.enabled,
                       trigger.next = n, n <= now + 1
                PROVE  fired[n] <= Cardinality(Started(n)) + faults
    BY <1>2, <1>3 DEF Unmoved
  <2>1. CASE n <= now
    BY <2>1 DEF IInv, Unmoved
  <2>2. CASE n > now
    <3>1. fired[n] = 0
      BY <2>2 DEF IInv, FutureClear
    <3>2. Cardinality(Started(n)) \in Nat
      BY CallsFinite, FS_CardinalityType DEF Started
    <3>. QED
      BY <1>1, <3>1, <3>2
  <2>. QED
    BY <1>1, <2>1, <2>2
<1>8. NextIsOfSchedule'
  <2>. SUFFICES ASSUME type = "SCHEDULE", ~raced
                PROVE  NextIsOfSchedule'
    BY <1>2 DEF NextIsOfSchedule
  <2>1. trigger.kind \in Kinds /\ trigger.runAt \in Nat /\ trigger.next \in Nat /\ now \in Nat
    BY <1>1 DEF Rows
  <2>2. CASE trigger.kind = "ONCE"
    <3>1. /\ trigger.next \in {trigger.runAt, Never}
          /\ trigger.runAt > now => trigger.next = trigger.runAt
      BY <2>2 DEF IInv, NextIsOfSchedule
    <3>2. trigger.runAt > now + 1 => trigger.next = trigger.runAt
      BY <2>1, <3>1
    <3>. QED
      BY <1>2, <2>2, <3>1, <3>2 DEF NextIsOfSchedule
  <2>3. CASE trigger.kind = "INTERVAL"
    <3>1. trigger.next \in 1..(now + Every)
      BY <2>3 DEF IInv, NextIsOfSchedule
    <3>2. trigger.next \in 1..((now + 1) + Every)
      BY <1>1, <2>1, <3>1
    <3>. QED
      BY <1>2, <2>3, <3>2 DEF NextIsOfSchedule
  <2>4. CASE trigger.kind = "CRON"
    <3>1. trigger.next > 0 /\ trigger.next % Every = 0
      BY <2>4 DEF IInv, NextIsOfSchedule
    <3>. QED
      BY <1>2, <2>4, <3>1 DEF NextIsOfSchedule
  <2>. QED
    BY <2>1, <2>2, <2>3, <2>4 DEF Kinds
<1>. QED
  BY <1>4, <1>5, <1>6, <1>7, <1>8 DEF IInv

\* A restart ends every call; what it finds due it computes anew.
LEMMA RestartKeeps ==
  ASSUME IInv, Restart
  PROVE  IInv'
<1>1. /\ TypeOK /\ now \in Times /\ trigger \in Rows /\ faults \in Nat /\ delivered \in Nat
      /\ fired \in [Times -> Nat] /\ MaxCrashes \in Nat /\ crashes \in 0..MaxCrashes
      /\ stuck \in Nat /\ misled \in Nat /\ dropped \subseteq Times
      /\ \A n \in Times : n \in Nat \ {0}
  BY BoundsAssumption DEF IInv, TypeOK, Times
<1>2. /\ Idle \in CallRecords /\ Idle.pc = "idle" /\ Idle.cause = 0 /\ Idle.ran = FALSE
  BY BoundsAssumption DEF Idle, CallRecords, Pcs, Kinds, Times
<1>3. /\ UNCHANGED <<type, now, active, subscribed, delivered, answered, fired>>
      /\ UNCHANGED <<misled, edits, faults>>
      /\ crashes' \in 0..MaxCrashes /\ crashes' > 0
      /\ call' = [c \in Calls |-> Idle]
  BY <1>1 DEF Restart, world, tg
<1>4. stuck' \in Nat
  <2>. DEFINE Left == {c \in Calls : call[c].exec = "STARTED" /\ call[c].ran}
  <2>1. Cardinality(Left) \in Nat
    BY CallsFinite, FS_CardinalityType
  <2>2. stuck' = stuck + Cardinality(Left)
    BY DEF Restart
  <2>. QED
    BY <1>1, <2>1, <2>2
<1>. HIDE DEF Idle
<1>5. /\ call' \in [Calls -> CallRecords]
      /\ \A c \in Calls : call'[c] = Idle
  BY <1>2, <1>3
<1>6. /\ Shapes' /\ Misled' = {} /\ \A n \in Times : Pending(n)' = {}
      /\ \A c \in Calls : ~HasRead(c)'
  BY <1>2, <1>5 DEF Shapes, Shape, Misled, Pending, IsMisled, IsPending, HasRead, Caught
<1>7. /\ trigger'.kind = trigger.kind /\ trigger'.runAt = trigger.runAt
      /\ trigger'.enabled = trigger.enabled /\ raced' \in BOOLEAN /\ dropped' \subseteq Times
      /\ trigger' \in Rows /\ NextIsOfSchedule'
      /\ \/ ~(type = "SCHEDULE" /\ trigger.enabled)
         \/ trigger'.next = Never \/ trigger'.next > now
  <2>. DEFINE next == computeNextRunAt(trigger, now)
  <2>1. CASE type = "SCHEDULE" /\ trigger.enabled
    <3>1. trigger' = [trigger EXCEPT !.next = next] /\ raced' = FALSE /\ dropped' = Replaced
      BY <2>1 DEF Restart
    <3>2. trigger.kind \in Kinds /\ trigger.runAt \in Times
      BY <1>1 DEF Rows
    <3>. HIDE DEF next
    <3>3. /\ trigger'.kind = trigger.kind /\ trigger'.runAt = trigger.runAt
          /\ trigger'.enabled = trigger.enabled /\ trigger'.next = next
      BY <1>1, <3>1 DEF Rows
    <3>4. /\ NextIsOfSchedule' /\ trigger'.next \in Nat
          /\ trigger'.next = Never \/ trigger'.next > now
      BY <1>1, <1>3, <3>2, <3>3, ScheduleHolds DEF next
    <3>5. trigger' \in Rows
      BY <1>1, <3>1, <3>3, <3>4 DEF Rows
    <3>6. dropped' \subseteq Times
      BY <1>1, <3>1 DEF Replaced
    <3>. QED
      BY <3>1, <3>3, <3>4, <3>5, <3>6
  <2>2. CASE ~(type = "SCHEDULE" /\ trigger.enabled)
    <3>1. UNCHANGED <<trigger, raced, dropped>>
      BY <2>2 DEF Restart
    <3>2. NextIsOfSchedule'
      BY <1>3, <3>1 DEF IInv, NextIsOfSchedule
    <3>3. raced \in BOOLEAN
      BY <1>1 DEF TypeOK
    <3>. QED
      BY <1>1, <2>2, <3>1, <3>2, <3>3
  <2>. QED
    BY <2>1, <2>2
<1>8. TypeOK'
  BY <1>1, <1>3, <1>4, <1>5, <1>7 DEF TypeOK
<1>9. FutureClear'
  BY <1>1, <1>2, <1>3, <1>5 DEF IInv, FutureClear
<1>10. Unmoved'
  <2>. SUFFICES ASSUME NEW n \in Times, type = "SCHEDULE", trigger.enabled,
                       trigger'.next = n, n <= now
                PROVE  FALSE
    BY <1>3, <1>7 DEF Unmoved
  <2>1. trigger'.next = 0 \/ trigger'.next > now
    BY <1>7 DEF Never
  <2>2. n \in Nat \ {0} /\ now \in Nat
    BY <1>1
  <2>. QED
    BY <2>1, <2>2
<1>11. Bounded'
  <2>. SUFFICES ASSUME NEW n \in Times
                PROVE  fired[n] + Cardinality(Pending(n)')
                         <= IF type = "SCHEDULE" THEN Cardinality(Calls) + faults ELSE delivered
    BY <1>3 DEF Bounded
  <2>1. fired[n] + Cardinality(Pending(n))
          <= IF type = "SCHEDULE" THEN Cardinality(Calls) + faults ELSE delivered
    BY DEF IInv, Bounded
  <2>2. Cardinality(Pending(n)) \in Nat /\ Cardinality(Pending(n)') = 0
    BY <1>6, CallsFinite, FS_CardinalityType, FS_EmptySet DEF Pending
  <2>3. Cardinality(Calls) \in Nat /\ fired[n] \in Nat
    BY <1>1, CallsAssumption, FS_CardinalityType
  <2>. QED
    BY <1>1, <2>1, <2>2, <2>3
<1>12. SameSchedule'
  BY <1>6 DEF SameSchedule
<1>13. Counted'
  <2>1. misled + Cardinality(Misled) <= faults
    BY DEF IInv, Counted
  <2>2. Cardinality(Misled) \in Nat /\ Cardinality(Misled') = 0
    BY <1>6, CallsFinite, FS_CardinalityType, FS_EmptySet DEF Misled
  <2>3. misled + Cardinality(Misled') <= faults
    BY <1>1, <2>1, <2>2
  <2>. QED
    BY <1>3, <2>3 DEF Counted
<1>. QED
  BY <1>6, <1>7, <1>8, <1>9, <1>10, <1>11, <1>12, <1>13 DEF IInv

-----------------------------------------------------------------------------
(* The theorems *)

LEMMA InitHolds == Init => IInv
<1>. SUFFICES ASSUME Init PROVE IInv
  OBVIOUS
<1>1. /\ 1 \in Times /\ \A n \in Times : n \in Nat \ {0}
      /\ MaxDeliveries \in Nat /\ MaxEdits \in Nat /\ MaxFaults \in Nat /\ MaxCrashes \in Nat
  BY BoundsAssumption DEF Times
<1>2. /\ Idle \in CallRecords /\ Idle.pc = "idle" /\ Idle.cause = 0 /\ Idle.ran = FALSE
  BY <1>1, BoundsAssumption DEF Idle, CallRecords, Pcs, Kinds, Times
<1>3. /\ type \in {"SCHEDULE", "TELEGRAM"} /\ now = 1 /\ active = TRUE /\ subscribed = TRUE
      /\ call = [c \in Calls |-> Idle] /\ delivered = 0 /\ answered = FALSE
      /\ fired = [n \in Times |-> 0] /\ stuck = 0 /\ misled = 0
      /\ raced = FALSE /\ dropped = {} /\ edits = 0 /\ faults = 0 /\ crashes = 0
  BY DEF Init
<1>. HIDE DEF Idle
<1>4. PICK s \in Schedules : trigger = Row(s, now)
  BY DEF Init
<1>5. s.enabled \in BOOLEAN /\ s.kind \in Kinds /\ s.runAt \in Times
  BY DEF Schedules
<1>. DEFINE next == computeNextRunAt(s, now)
<1>6. /\ next \in Nat /\ (next = Never \/ next > now)
      /\ s.kind = "ONCE" => /\ next \in {s.runAt, Never}
                            /\ s.runAt > now => next = s.runAt
      /\ s.kind = "INTERVAL" => next \in 1..(now + Every)
      /\ s.kind = "CRON" => next > 0 /\ next % Every = 0
  BY <1>1, <1>3, <1>5, NextTimes
<1>7. /\ trigger.enabled = s.enabled /\ trigger.kind = s.kind /\ trigger.runAt = s.runAt
      /\ trigger.next = next
  BY <1>4 DEF Row
<1>. HIDE DEF next
<1>8. trigger \in Rows
  BY <1>4, <1>5, <1>6 DEF Row, Rows, next
<1>9. /\ call \in [Calls -> CallRecords] /\ \A c \in Calls : call[c] = Idle
      /\ fired \in [Times -> Nat] /\ \A n \in Times : fired[n] = 0
  BY <1>2, <1>3
<1>10. TypeOK
  <2>1. /\ now \in Times /\ delivered \in 0..MaxDeliveries /\ edits \in 0..MaxEdits
        /\ faults \in 0..MaxFaults /\ crashes \in 0..MaxCrashes
        /\ stuck \in Nat /\ misled \in Nat
    BY <1>1, <1>3
  <2>2. /\ type \in {"SCHEDULE", "TELEGRAM"} /\ active \in BOOLEAN /\ subscribed \in BOOLEAN
        /\ answered \in BOOLEAN /\ raced \in BOOLEAN /\ dropped \subseteq Times
    BY <1>3
  <2>. QED
    BY <1>8, <1>9, <2>1, <2>2 DEF TypeOK
<1>11. Shapes /\ FutureClear /\ SameSchedule
  BY <1>1, <1>2, <1>9 DEF Shapes, Shape, FutureClear, SameSchedule, HasRead, Caught
<1>12. Unmoved
  BY <1>1, <1>3, <1>6, <1>7 DEF Unmoved, Never
<1>13. /\ Cardinality(Misled) = 0 /\ \A n \in Times : Cardinality(Pending(n)) = 0
       /\ Cardinality(Calls) \in Nat
  <2>1. Misled = {} /\ \A n \in Times : Pending(n) = {}
    BY <1>2, <1>9 DEF Misled, Pending, IsMisled, IsPending
  <2>. QED
    BY <2>1, FS_EmptySet, CallsAssumption, FS_CardinalityType
<1>14. Bounded /\ Counted
  BY <1>3, <1>9, <1>13 DEF Bounded, Counted
<1>15. NextIsOfSchedule
  <2>1. CASE s.kind = "ONCE"
    BY <1>6, <1>7, <2>1 DEF NextIsOfSchedule
  <2>2. CASE s.kind = "INTERVAL"
    BY <1>6, <1>7, <2>2 DEF NextIsOfSchedule
  <2>3. CASE s.kind = "CRON"
    BY <1>6, <1>7, <2>3 DEF NextIsOfSchedule
  <2>. QED
    BY <1>5, <2>1, <2>2, <2>3 DEF Kinds
<1>. QED
  BY <1>10, <1>11, <1>12, <1>14, <1>15 DEF IInv

LEMMA NextHolds == IInv /\ [Next]_vars => IInv'
<1>. SUFFICES ASSUME IInv, [Next]_vars PROVE IInv'
  OBVIOUS
<1>1. ASSUME NEW c \in Calls, Tick(c) PROVE IInv'
  BY <1>1, TickKeeps
<1>2. ASSUME NEW c \in Calls, Webhook(c) PROVE IInv'
  BY <1>2, WebhookKeeps
<1>3. ASSUME NEW c \in Calls, CallStep(c) PROVE IInv'
  BY <1>3, MatchKeeps, AssertActiveKeeps, SkipKeeps, FindKeeps, ExecutionKeeps,
     StartRunKeeps, MoveKeeps, FailExecutionKeeps DEF CallStep
<1>4. ASSUME NEW c \in Calls, Throws(c) PROVE IInv'
  BY <1>4, ThrowsKeeps
<1>5. ASSUME NEW s \in Schedules, updateTrigger(s) PROVE IInv'
  BY <1>5, updateTriggerKeeps
<1>6. active \in BOOLEAN /\ subscribed \in BOOLEAN
  BY DEF IInv, TypeOK
<1>7. CASE WorkflowToggled
  <2>1. /\ UNCHANGED <<type, now, trigger, call, tg, hist, editing, faults, crashes>>
        /\ active' \in BOOLEAN /\ subscribed' \in BOOLEAN
    BY <1>6, <1>7 DEF WorkflowToggled
  <2>. QED
    BY <2>1, AsideKeeps
<1>8. CASE TimePasses
  BY <1>8, TimePassesKeeps
<1>9. CASE Restart
  BY <1>9, RestartKeeps
<1>10. CASE UNCHANGED vars
  <2>1. /\ UNCHANGED <<type, now, trigger, call, tg, hist, editing, faults, crashes>>
        /\ active' \in BOOLEAN /\ subscribed' \in BOOLEAN
    BY <1>6, <1>10 DEF vars, world
  <2>. QED
    BY <2>1, AsideKeeps
<1>. QED
  BY <1>1, <1>2, <1>3, <1>4, <1>5, <1>7, <1>8, <1>9, <1>10 DEF Next

THEOREM InvariantHolds == Spec => []IInv
<1>. QED
  BY InitHolds, NextHolds, PTL DEF Spec

\* The variables have their types; nextRunAt is a time or never.
THEOREM TypeCorrect == Spec => []TypeOK
<1>1. IInv => TypeOK
  BY DEF IInv
<1>. QED
  BY <1>1, InvariantHolds, PTL

\* For a time that was due runTriggeredWorkflow starts the workflow at most once
\* for each of the calls that can be in progress together and once more for each
\* error, although tick dispatches a trigger again and again while it is overdue,
\* nobody awaits the calls, the user edits it and the server restarts; for an
\* update of Telegram at most once for each time it is delivered.
THEOREM RunsAreBounded == Spec => []RunsBounded
<1>1. IInv => RunsBounded
  <2>. SUFFICES ASSUME IInv, NEW n \in Times
                PROVE  fired[n] <= IF type = "SCHEDULE" THEN Cardinality(Calls) + faults
                                   ELSE delivered
    BY DEF RunsBounded
  <2>1. fired[n] + Cardinality(Pending(n))
          <= IF type = "SCHEDULE" THEN Cardinality(Calls) + faults ELSE delivered
    BY DEF IInv, Bounded
  <2>2. Cardinality(Pending(n)) \in Nat /\ Cardinality(Calls) \in Nat
    BY CallsFinite, CallsAssumption, FS_CardinalityType DEF Pending
  <2>3. fired[n] \in Nat /\ faults \in Nat /\ delivered \in Nat
    BY BoundsAssumption DEF IInv, TypeOK
  <2>. QED
    BY <2>1, <2>2, <2>3
<1>. QED
  BY <1>1, InvariantHolds, PTL

\* nextRunAt is what the stored schedule gives, unless updateTrigger wrote the
\* trigger under a call that had read it: a date ahead is kept, and a repeated
\* schedule never stops.
THEOREM NextIsAlwaysOfSchedule == Spec => []NextIsOfSchedule
<1>1. IInv => NextIsOfSchedule
  BY DEF IInv
<1>. QED
  BY <1>1, InvariantHolds, PTL

\* The history of a trigger tells what happened, but for errors and restarts: a
\* row of a run that was started is left STARTED only by a restart or a second
\* error, and there are no more of them FAILED than there were errors.
THEOREM HistoryAlwaysTells == Spec => []HistoryTells
<1>1. IInv => HistoryTells
  <2>. SUFFICES ASSUME IInv PROVE HistoryTells
    OBVIOUS
  <2>1. /\ misled + Cardinality(Misled) <= faults
        /\ stuck > 0 => crashes > 0 \/ faults >= 2
    BY DEF IInv, Counted
  <2>2. Cardinality(Misled) \in Nat /\ misled \in Nat /\ faults \in Nat
    BY CallsFinite, FS_CardinalityType DEF Misled, IInv, TypeOK
  <2>3. misled <= faults
    BY <2>1, <2>2
  <2>. QED
    BY <2>1, <2>3 DEF HistoryTells
<1>. QED
  BY <1>1, InvariantHolds, PTL
=============================================================================
