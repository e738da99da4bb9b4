--------------------------- MODULE AccountsProofs ---------------------------
(***************************************************************************)
(* Theorems about Accounts, for every set of addresses, requests, browsers *)
(* and tabs and every value of the limits and bounds.                      *)
(*                                                                         *)
(* The properties speak of overlaps only through the history (races,       *)
(* crossed, twin, left), so each part of the invariant says what is true   *)
(* while its overlap has not happened: then a counter is in the hands of   *)
(* one request at a time (OneGuess, OneTrial, OneAgentAtATime), a browser  *)
(* renews in one tab at a time (OneAtATime) and a token is in one place    *)
(* (OneHolder). The rest follows from who holds what.                      *)
(***************************************************************************)
EXTENDS Accounts, FiniteSetTheorems, TLAPS

Kinds      == {"send", "register", "google", "add"}
RequestPcs == Kinds \cup {"new", "over", "mailing", "setting", "cooling", "clearing",
                          "counting", "spending", "forgetting", "missed", "creating",
                          "trial", "starting", "adding"}
RequestRecords == [kind : Kinds, pc : RequestPcs, email : Emails \cup {NoEmail}, seen : Nat]
TabPcs     == {"idle", "refused", "asked", "checked", "granted", "leaving", "denied"}
TabRecords == [pc : TabPcs, kind : {"login", "call", "logout"}, token : Nat \cup {NoToken}]

CodesTyped ==
  /\ otp \in [Emails -> BOOLEAN] /\ cooldown \in [Emails -> BOOLEAN]
  /\ attempts \in [Emails -> Nat] /\ wrong \in [Emails -> Nat]

AccountsTyped ==
  /\ account \in [Emails -> {"none", "created", "trial"}]
  /\ agents \in [Emails -> Nat]

RequestsTyped ==
  /\ req \in [Requests -> RequestRecords]
  /\ \A r \in Requests : req[r].pc \notin {"new", "over"} => req[r].email \in Emails
  /\ races \subseteq {"guess", "trial", "add"}

TabsTyped ==
  /\ tab \in [Tabs -> TabRecords]
  /\ \A t \in Tabs : tab[t].token \in issued \cup {NoToken}
  /\ \A t \in Tabs : tab[t].pc \in {"asked", "checked", "granted"} => tab[t].token # NoToken

TokensTyped ==
  /\ clock \in Nat /\ issued \subseteq Nat /\ revoked \subseteq issued /\ ended \subseteq revoked
  /\ store \in [Browsers -> issued \cup {NoToken}] /\ stale \in [Browsers -> BOOLEAN]
  /\ {crossed, twin, left} \subseteq BOOLEAN
  /\ TabsTyped

TypeOK ==
  /\ part \in {"registration", "sessions"} /\ faults \in Nat
  /\ CodesTyped /\ AccountsTyped /\ RequestsTyped /\ TokensTyped

-----------------------------------------------------------------------------
(* What the requests keep true                                             *)

AtEmail(r, e, pcs) == req[r].email = e /\ req[r].pc \in pcs

\* Each counter and each number a guess is about to write stays within the limit.
Counters ==
  /\ \A e \in Emails : attempts[e] <= MaxAttempts
  /\ \A r \in Requests : req[r].pc = "missed" => req[r].seen + 1 <= MaxAttempts

OneGuess ==
  \A q, r \in Requests : \A e \in Emails :
    AtEmail(q, e, {"missed"}) /\ AtEmail(r, e, {"missed"}) => q = r

\* Wrong guesses that are not in the counter are in the hands of the one request
\* that has read it, or their count was lost to a fault; nobody has guessed at a
\* code while the counter may still be reset.
Tallied ==
  \A e \in Emails : otp[e] =>
    /\ \A r \in Requests :
         /\ AtEmail(r, e, {"missed"}) => /\ wrong[e] <= req[r].seen + 1 + faults
                                         /\ wrong[e] <= attempts[e] + 1 + faults
         /\ AtEmail(r, e, {"cooling", "clearing", "forgetting"}) => wrong[e] = 0
    /\ (\A r \in Requests : ~AtEmail(r, e, {"missed"})) => wrong[e] <= attempts[e] + faults

GuessInv == Counters /\ ("guess" \notin races => OneGuess /\ Tallied)

OneTrial ==
  /\ \A q, r \in Requests : req[q].pc = "starting" /\ req[r].pc = "starting" => q = r
  /\ \A r \in Requests : req[r].pc = "starting" => \A e \in Emails : account[e] # "trial"
  /\ \A e, f \in Emails : account[e] = "trial" /\ account[f] = "trial" => e = f

OneAgentAtATime ==
  \A e \in Emails :
    /\ agents[e] <= MaxAgents
    /\ \A r \in Requests : AtEmail(r, e, {"adding"}) => agents[e] < MaxAgents
    /\ \A q, r \in Requests : AtEmail(q, e, {"adding"}) /\ AtEmail(r, e, {"adding"}) => q = r

LimitInv ==
  /\ "trial" \notin races => OneTrial
  /\ "add" \notin races => OneAgentAtATime

-----------------------------------------------------------------------------
(* What the tabs keep true                                                 *)

Busy == {"asked", "checked", "granted", "leaving", "denied"}

\* A login asks for no renewal.
TabKinds ==
  \A t \in Tabs : tab[t].pc \in {"refused", "asked", "checked"} => tab[t].kind # "login"

OneAtATime ==
  /\ \A t, u \in Tabs : B(t) = B(u) /\ tab[t].pc \in Busy /\ tab[u].pc \in Busy => t = u
  /\ \A t \in Tabs : tab[t].pc \in {"asked", "checked"} => tab[t].token = store[B(t)]

Granted(t) == tab[t].pc = "granted"
Renewed(t) == Granted(t) /\ tab[t].kind # "login"

\* A token is in one place: in one browser's storage or on its way to one tab.
OneHolder ==
  /\ \A b, c \in Browsers : store[b] = store[c] /\ store[b] # NoToken => b = c
  /\ \A t \in Tabs, b \in Browsers : Granted(t) => store[b] # tab[t].token
  /\ \A t, u \in Tabs : Granted(t) /\ Granted(u) /\ tab[t].token = tab[u].token => t = u

\* Whoever holds a revoked token has logged out, or is about to get the next one.
RevokedIsReplaced ==
  /\ \A b \in Browsers : store[b] \in revoked =>
       store[b] \in ended \/ \E t \in Tabs : B(t) = b /\ Renewed(t)
  /\ \A t \in Tabs : tab[t].pc \in {"asked", "checked", "granted"} /\ tab[t].token \in revoked
                       => tab[t].token \in ended
  /\ \A t \in Tabs : tab[t].pc = "denied" /\ tab[t].token # NoToken => tab[t].token \in ended

\* Every good token is held, and what a renewal is about to overwrite is not good.
GoodIsHeld ==
  /\ \A k \in issued \ revoked : \/ \E b \in Browsers : store[b] = k
                                 \/ \E t \in Tabs : Granted(t) /\ tab[t].token = k
  /\ \A t \in Tabs : Renewed(t) => store[B(t)] \in revoked \cup {NoToken}

SessionInv ==
  /\ TabKinds
  /\ ~crossed => OneAtATime
  /\ ~crossed /\ ~twin /\ faults = 0 => OneHolder /\ RevokedIsReplaced
  /\ ~crossed /\ ~left /\ faults = 0 => GoodIsHeld

IInv == TypeOK /\ GuessInv /\ TrialNotLost /\ LimitInv /\ SessionInv

-----------------------------------------------------------------------------
(* Type correctness *)

\* A request that goes on keeps everything but its place; one that ends keeps
\* nothing.
Moved(r, pc) ==
  /\ req' \in [Requests -> RequestRecords]
  /\ \A q \in Requests \ {r} : req'[q] = req[q]
  /\ req'[r].pc = pc
  /\ pc # "over" => req'[r].email = req[r].email /\ req'[r].seen = req[r].seen

LEMMA GoMoves ==
  ASSUME RequestsTyped, NEW r \in Requests, NEW pc \in RequestPcs, Go(r, pc)
  PROVE  Moved(r, pc)
<1>1. Over \in RequestRecords /\ req[r] \in RequestRecords
  BY DEF Over, RequestRecords, RequestPcs, Kinds, RequestsTyped
<1>2. CASE pc = "over"
  BY <1>1, <1>2 DEF Go, Moved, RequestsTyped, Over
<1>3. CASE pc # "over"
  <2>1. [req[r] EXCEPT !.pc = pc] \in RequestRecords
    BY <1>1 DEF RequestRecords
  <2>2. req' = [req EXCEPT ![r] = [req[r] EXCEPT !.pc = pc]]
    BY <1>3 DEF Go
  <2>. QED
    BY <1>1, <1>3, <2>1, <2>2 DEF Moved, RequestsTyped, RequestRecords
<1>. QED
  BY <1>2, <1>3

\* A request that moves from one of its steps to another stays well typed.
LEMMA MovedTyped ==
  ASSUME RequestsTyped, NEW r \in Requests, NEW pc \in RequestPcs, Moved(r, pc),
         req[r].pc \notin {"new", "over"}, races' \subseteq {"guess", "trial", "add"}
  PROVE  RequestsTyped'
  BY DEF Moved, RequestsTyped

\* The step of a request from one place to another.
Goes(r, from, to) == part = "registration" /\ req[r].pc = from /\ Moved(r, to)

LEMMA StepsOfRequests ==
  ASSUME TypeOK, NEW r \in Requests
  PROVE  /\ Send(r) => Goes(r, "send", "over") \/ Goes(r, "send", "mailing")
         /\ Mail(r) => Goes(r, "mailing", "setting")
         /\ SetOtp(r) => Goes(r, "setting", "cooling")
         /\ SetCooldown(r) => Goes(r, "cooling", "clearing")
         /\ DelAttempts(r) => Goes(r, "clearing", "over")
         /\ GetOtp(r) => Goes(r, "register", "counting") \/ Goes(r, "register", "over")
         /\ Miss(r) => Goes(r, "missed", "over")
         /\ Spend(r) => Goes(r, "spending", "forgetting") \/ Goes(r, "forgetting", "creating")
         /\ Google(r) => Goes(r, "google", "creating") \/ Goes(r, "google", "over")
         /\ Create(r) => Goes(r, "creating", "over") \/ Goes(r, "creating", "trial")
         /\ AssertTrial(r) => Goes(r, "trial", "over") \/ Goes(r, "trial", "starting")
         /\ StartTrial(r) => Goes(r, "starting", "over")
         /\ CountAgents(r) => Goes(r, "add", "over") \/ Goes(r, "add", "adding")
         /\ AddAgent(r) => Goes(r, "adding", "over")
<1>1. \A pc \in RequestPcs : Go(r, pc) => Moved(r, pc)
  BY GoMoves DEF TypeOK
<1>2. {"over", "mailing", "setting", "cooling", "clearing", "counting", "forgetting",
       "creating", "trial", "starting", "adding"} \subseteq RequestPcs
  BY DEF RequestPcs
<1>. HIDE DEF RequestPcs
<1>. QED
  BY <1>1, <1>2
     DEF Send, Mail, SetOtp, SetCooldown, DelAttempts, GetOtp, Miss, Spend, Google, Create,
         NextAfterCreate, AssertTrial, StartTrial, CountAgents, AddAgent, Goes, At

\* The reading of the counter: nothing more than the end, or the code is right,
\* or the guess is wrong and the counter is remembered.
Guesses(r) ==
  /\ part = "registration" /\ req[r].pc = "counting"
  /\ \/ Moved(r, "over") /\ UNCHANGED wrong
     \/ Moved(r, "spending") /\ UNCHANGED wrong
     \/ /\ attempts[req[r].email] < MaxAttempts
        /\ req' \in [Requests -> RequestRecords]
        /\ \A q \in Requests \ {r} : req'[q] = req[q]
        /\ req'[r].pc = "missed" /\ req'[r].email = req[r].email
        /\ req'[r].seen = attempts[req[r].email]
        /\ wrong' = [wrong EXCEPT ![req[r].email] = @ + 1]

LEMMA GuessSteps ==
  ASSUME TypeOK, NEW r \in Requests, GetAttempts(r)
  PROVE  Guesses(r)
<1>1. \A pc \in RequestPcs : Go(r, pc) => Moved(r, pc)
  BY GoMoves DEF TypeOK
<1>2. {"over", "spending", "missed"} \subseteq RequestPcs
  BY DEF RequestPcs
<1>3. req[r] \in RequestRecords /\ req[r].email \in Emails
  BY DEF GetAttempts, At, TypeOK, RequestsTyped
<1>4. attempts[req[r].email] \in Nat /\ MaxAttempts \in Nat
  BY <1>3, BoundsAssumption DEF TypeOK, CodesTyped
<1>5. CASE Go(r, "over") /\ UNCHANGED wrong
  BY <1>1, <1>2, <1>5 DEF GetAttempts, At, Guesses
<1>6. CASE Go(r, "spending") /\ UNCHANGED wrong
  BY <1>1, <1>2, <1>6 DEF GetAttempts, At, Guesses
<1>7. CASE /\ ~Exhausted(attempts[req[r].email])
           /\ wrong' = [wrong EXCEPT ![req[r].email] = @ + 1]
           /\ req' = [req EXCEPT ![r] = [@ EXCEPT !.pc = "missed", !.seen = attempts[req[r].email]]]
  <2>. DEFINE v == [req[r] EXCEPT !.pc = "missed", !.seen = attempts[req[r].email]]
  <2>1. v \in RequestRecords /\ v.pc = "missed" /\ v.seen = attempts[req[r].email]
        /\ v.email = req[r].email
    BY <1>2, <1>3, <1>4 DEF RequestRecords
  <2>2. req' = [req EXCEPT ![r] = v]
    BY <1>7
  <2>3. attempts[req[r].email] < MaxAttempts
    BY <1>4, <1>7 DEF Exhausted
  <2>. HIDE DEF v
  <2>4. /\ req' \in [Requests -> RequestRecords]
        /\ \A q \in Requests \ {r} : req'[q] = req[q]
        /\ req'[r] = v
    BY <2>1, <2>2 DEF TypeOK, RequestsTyped
  <2>. QED
    BY <1>7, <2>1, <2>3, <2>4 DEF GetAttempts, At, Guesses
<1>. QED
  BY <1>5, <1>6, <1>7 DEF GetAttempts

\* A new request, and one that fails.
LEMMA ReceiveSteps ==
  ASSUME TypeOK, NEW r \in Requests, NEW e \in Emails, NEW kind \in Kinds, Receive(r, kind, e)
  PROVE  /\ part = "registration" /\ req[r].pc = "new" /\ req' \in [Requests -> RequestRecords]
         /\ \A q \in Requests \ {r} : req'[q] = req[q]
         /\ req'[r].pc = kind /\ req'[r].email = e
<1>. DEFINE v == [req[r] EXCEPT !.kind = kind, !.email = e, !.pc = kind]
<1>1. v \in RequestRecords /\ v.pc = kind /\ v.email = e
  BY DEF RequestRecords, RequestPcs, TypeOK, RequestsTyped
<1>2. req' = [req EXCEPT ![r] = v] /\ part = "registration" /\ req[r].pc = "new"
  BY DEF Receive, At
<1>. HIDE DEF v
<1>. QED
  BY <1>1, <1>2 DEF TypeOK, RequestsTyped

LEMMA FailSteps ==
  ASSUME TypeOK, NEW r \in Requests, Fail(r)
  PROVE  part = "registration" /\ req[r].pc \notin {"new", "over"} /\ Moved(r, "over")
<1>1. "over" \in RequestPcs
  BY DEF RequestPcs
<1>. QED
  BY <1>1, GoMoves DEF Fail, TypeOK

LEMMA TypeInit == Init => TypeOK
<1>. SUFFICES ASSUME Init PROVE TypeOK
  OBVIOUS
<1>1. [Over EXCEPT !.pc = "new"] \in RequestRecords /\ [Over EXCEPT !.pc = "new"].pc = "new"
  BY DEF Over, RequestRecords, RequestPcs, Kinds
<1>2. RequestsTyped
  <2>. DEFINE v == [Over EXCEPT !.pc = "new"]
  <2>1. req = [r \in Requests |-> v] /\ races = {}
    BY DEF Init
  <2>. HIDE DEF v
  <2>. QED
    BY <1>1, <2>1 DEF v, RequestsTyped
<1>3. CodesTyped /\ AccountsTyped /\ TokensTyped
  BY TabsAssumption DEF Init, CodesTyped, AccountsTyped, TokensTyped, TabsTyped, TabRecords, TabPcs
<1>. QED
  BY <1>2, <1>3 DEF Init, TypeOK

LEMMA RequestTypeStep ==
  ASSUME TypeOK, RegistrationNext, UNCHANGED <<part, sesVars>>
  PROVE  TypeOK'
<1>1. part' = part /\ TokensTyped' /\ part \in {"registration", "sessions"}
  BY DEF TypeOK, TokensTyped, TabsTyped, sesVars, tokens, B
<1>2. RequestsTyped /\ CodesTyped /\ AccountsTyped /\ faults \in Nat
  BY DEF TypeOK
<1>3. SUFFICES RequestsTyped' /\ CodesTyped' /\ AccountsTyped' /\ faults' \in Nat
  BY <1>1 DEF TypeOK
<1>4. ASSUME NEW r \in Requests, RequestStep(r), UNCHANGED faults
      PROVE  RequestsTyped' /\ CodesTyped' /\ AccountsTyped' /\ faults' \in Nat
  <2>1. req[r].pc \notin {"new", "over"} /\ req[r].email \in Emails
    BY <1>2, <1>4 DEF RequestsTyped, RequestStep, Send, Mail, SetOtp, SetCooldown, DelAttempts,
       GetOtp, GetAttempts, Miss, Spend, Google, Create, AssertTrial, StartTrial, CountAgents,
       AddAgent, At
  <2>2. req[r].seen \in Nat
    BY <1>2 DEF RequestsTyped, RequestRecords
  <2>3. races' \subseteq {"guess", "trial", "add"}
    BY <1>2, <1>4 DEF RequestsTyped, RequestStep, Send, Mail, SetOtp, SetCooldown, DelAttempts,
       GetOtp, GetAttempts, Miss, Spend, Google, Create, AssertTrial, StartTrial, CountAgents,
       AddAgent, Race
  <2>4. RequestsTyped'
    <3>1. CASE GetAttempts(r)
      <4>1. Guesses(r)
        BY <3>1, GuessSteps
      <4>2. {"over", "spending", "missed"} \subseteq RequestPcs
        BY DEF RequestPcs
      <4>3. CASE Moved(r, "over") \/ Moved(r, "spending")
        BY <1>2, <2>1, <2>3, <4>2, <4>3, MovedTyped
      <4>4. CASE /\ req' \in [Requests -> RequestRecords]
                 /\ \A q \in Requests \ {r} : req'[q] = req[q]
                 /\ req'[r].pc = "missed" /\ req'[r].email = req[r].email
        BY <1>2, <2>1, <2>3, <4>4 DEF RequestsTyped
      <4>. QED
        BY <4>1, <4>3, <4>4 DEF Guesses
    <3>2. CASE ~GetAttempts(r)
      <4>1. {"over", "mailing", "setting", "cooling", "clearing", "counting", "forgetting",
             "creating", "trial", "starting", "adding"} \subseteq RequestPcs
        BY DEF RequestPcs
      <4>2. \A pc \in RequestPcs : Moved(r, pc) => RequestsTyped'
        BY <1>2, <2>1, <2>3, MovedTyped
      <4>. HIDE DEF RequestPcs
      <4>3. \E pc \in RequestPcs : Moved(r, pc)
        BY <1>4, <3>2, <4>1, StepsOfRequests DEF RequestStep, Goes
      <4>. QED
        BY <4>2, <4>3
    <3>. QED
      BY <3>1, <3>2
  <2>5. CodesTyped'
    <3>1. CASE GetAttempts(r)
      <4>1. UNCHANGED <<otp, attempts, cooldown>>
        BY <3>1 DEF GetAttempts
      <4>2. wrong' = wrong \/ wrong' = [wrong EXCEPT ![req[r].email] = wrong[req[r].email] + 1]
        BY <3>1 DEF GetAttempts
      <4>3. wrong' \in [Emails -> Nat]
        BY <1>2, <2>1, <4>2 DEF CodesTyped
      <4>. QED
        BY <1>2, <4>1, <4>3 DEF CodesTyped
    <3>2. CASE SetOtp(r) \/ SetCooldown(r)
      <4>1. attempts' = attempts
        BY <3>2 DEF SetOtp, SetCooldown
      <4>2. otp' = otp \/ otp' = [otp EXCEPT ![req[r].email] = TRUE]
        BY <3>2 DEF SetOtp, SetCooldown
      <4>3. cooldown' = cooldown \/ cooldown' = [cooldown EXCEPT ![req[r].email] = TRUE]
        BY <3>2 DEF SetOtp, SetCooldown
      <4>4. wrong' = wrong \/ wrong' = [wrong EXCEPT ![req[r].email] = 0]
        BY <3>2 DEF SetOtp, SetCooldown
      <4>5. otp' \in [Emails -> BOOLEAN]
        BY <1>2, <2>1, <4>2 DEF CodesTyped
      <4>6. cooldown' \in [Emails -> BOOLEAN]
        BY <1>2, <2>1, <4>3 DEF CodesTyped
      <4>7. wrong' \in [Emails -> Nat]
        BY <1>2, <2>1, <4>4 DEF CodesTyped
      <4>. QED
        BY <1>2, <4>1, <4>5, <4>6, <4>7 DEF CodesTyped
    <3>3. CASE DelAttempts(r) \/ Miss(r) \/ Spend(r)
      <4>1. req[r].seen + 1 \in Nat
        BY <2>2
      <4>2. UNCHANGED <<cooldown, wrong>>
        BY <3>3 DEF DelAttempts, Miss, Spend
      <4>3. otp' = otp \/ otp' = [otp EXCEPT ![req[r].email] = FALSE]
        BY <3>3 DEF DelAttempts, Miss, Spend
      <4>4. \/ attempts' = attempts \/ attempts' = [attempts EXCEPT ![req[r].email] = 0]
            \/ attempts' = [attempts EXCEPT ![req[r].email] = req[r].seen + 1]
        BY <3>3 DEF DelAttempts, Miss, Spend
      <4>5. otp' \in [Emails -> BOOLEAN]
        BY <1>2, <2>1, <4>3 DEF CodesTyped
      <4>6. attempts' \in [Emails -> Nat]
        BY <1>2, <2>1, <4>1, <4>4 DEF CodesTyped
      <4>. QED
        BY <1>2, <4>2, <4>5, <4>6 DEF CodesTyped
    <3>4. CASE UNCHANGED codes
      BY <1>2, <3>4 DEF CodesTyped, codes
    <3>. QED
      BY <1>4, <3>1, <3>2, <3>3, <3>4 DEF RequestStep, Send, Mail, GetOtp, Google, Create,
         AssertTrial, StartTrial, CountAgents, AddAgent
  <2>6. AccountsTyped'
    BY <1>2, <1>4, <2>1 DEF AccountsTyped, RequestStep, Send, Mail, SetOtp,
       SetCooldown, DelAttempts, GetOtp, GetAttempts, Miss, Spend, Google, Create, AssertTrial,
       StartTrial, CountAgents, AddAgent
  <2>. QED
    BY <1>2, <1>4, <2>4, <2>5, <2>6
<1>5. ASSUME NEW r \in Requests, NEW e \in Emails, NEW kind \in Kinds, Receive(r, kind, e),
             UNCHANGED faults
      PROVE  RequestsTyped' /\ CodesTyped' /\ AccountsTyped' /\ faults' \in Nat
  <2>1. RequestsTyped'
    <3>1. /\ req' \in [Requests -> RequestRecords] /\ \A q \in Requests \ {r} : req'[q] = req[q]
          /\ req'[r].email = e
      BY <1>5, ReceiveSteps
    <3>. QED
      BY <1>2, <1>5, <3>1 DEF RequestsTyped, Receive
  <2>. QED
    BY <1>2, <1>5, <2>1 DEF Receive, CodesTyped, AccountsTyped, codes
<1>6. ASSUME NEW e \in Emails, Lapse(e), UNCHANGED faults
      PROVE  RequestsTyped' /\ CodesTyped' /\ AccountsTyped' /\ faults' \in Nat
  <2>1. /\ RequestsTyped' /\ AccountsTyped' /\ faults' \in Nat /\ wrong' \in [Emails -> Nat]
    BY <1>2, <1>6 DEF Lapse, RequestsTyped, CodesTyped, AccountsTyped
  <2>2. \/ cooldown' = [cooldown EXCEPT ![e] = FALSE] /\ UNCHANGED <<otp, attempts>>
        \/ otp' = [otp EXCEPT ![e] = FALSE] /\ UNCHANGED <<cooldown, attempts>>
        \/ attempts' = [attempts EXCEPT ![e] = 0] /\ UNCHANGED <<cooldown, otp>>
    BY <1>6 DEF Lapse
  <2>3. otp' \in [Emails -> BOOLEAN]
    BY <1>2, <2>2 DEF CodesTyped
  <2>4. cooldown' \in [Emails -> BOOLEAN]
    BY <1>2, <2>2 DEF CodesTyped
  <2>5. attempts' \in [Emails -> Nat]
    BY <1>2, <2>2 DEF CodesTyped
  <2>. QED
    BY <2>1, <2>3, <2>4, <2>5 DEF CodesTyped
<1>7. ASSUME NEW r \in Requests, Fail(r)
      PROVE  RequestsTyped' /\ CodesTyped' /\ AccountsTyped' /\ faults' \in Nat
  <2>1. RequestsTyped'
    <3>1. "over" \in RequestPcs
      BY DEF RequestPcs
    <3>. QED
      BY <1>2, <1>7, <3>1, FailSteps, MovedTyped DEF Fail, RequestsTyped
  <2>. QED
    BY <1>2, <1>7, <2>1 DEF Fail, CodesTyped, AccountsTyped, codes
<1>. QED
  BY <1>4, <1>5, <1>6, <1>7 DEF RegistrationNext, Kinds

LEMMA SessionTypeStep ==
  ASSUME TypeOK, SessionNext, UNCHANGED <<part, regVars>>
  PROVE  TypeOK'
<1>1. part' = part /\ part \in {"registration", "sessions"} /\ CodesTyped' /\ AccountsTyped'
      /\ RequestsTyped'
  BY DEF TypeOK, CodesTyped, AccountsTyped, RequestsTyped, regVars, codes
<1>2. TokensTyped /\ faults \in Nat
  BY DEF TypeOK
<1>3. SUFFICES TokensTyped' /\ faults' \in Nat
  BY <1>1 DEF TypeOK
<1>4. CASE Tick
  BY <1>2, <1>4 DEF Tick, TokensTyped, TabsTyped, tokens
<1>5. ASSUME NEW b \in Browsers, Expire(b) PROVE TokensTyped' /\ faults' \in Nat
  BY <1>2, <1>5 DEF Expire, TokensTyped, TabsTyped, tokens
<1>6. ASSUME NEW t \in Tabs PROVE tab[t] \in TabRecords /\ B(t) \in Browsers
                                  /\ store[B(t)] \in issued \cup {NoToken}
  BY <1>2, <1>6, TabsAssumption DEF TokensTyped, TabsTyped, B
<1>7. ASSUME NEW t \in Tabs, NEW v \in TabRecords, v.token \in issued' \cup {NoToken},
             v.pc \in {"asked", "checked", "granted"} => v.token # NoToken,
             issued \subseteq issued', tab' = [tab EXCEPT ![t] = v]
      PROVE  TabsTyped'
  BY <1>2, <1>7 DEF TokensTyped, TabsTyped
<1>8. ASSUME NEW t \in Tabs, NEW pc \in {"idle", "leaving", "denied", "checked"}, To(t, pc),
             issued \subseteq issued',
             pc = "checked" => tab[t].token # NoToken
      PROVE  TabsTyped'
  <2>. DEFINE v == [tab[t] EXCEPT !.pc = pc]
  <2>1. v \in TabRecords /\ v.token = tab[t].token /\ v.pc = pc
    BY <1>6 DEF TabRecords, TabPcs
  <2>2. tab' = [tab EXCEPT ![t] = v]
    BY <1>8 DEF To
  <2>3. tab[t].token \in issued' \cup {NoToken}
    BY <1>2, <1>8 DEF TokensTyped, TabsTyped
  <2>. HIDE DEF v
  <2>. QED
    BY <1>7, <1>8, <2>1, <2>2, <2>3
<1>10. ASSUME NEW t \in Tabs, Login(t) PROVE TokensTyped' /\ faults' \in Nat
  <2>. DEFINE v == [pc |-> "granted", kind |-> "login", token |-> clock]
  <2>1. v \in TabRecords /\ v.token = clock /\ clock # NoToken /\ clock \in issued' /\ issued' = issued \cup {clock}
    BY <1>2, <1>10, BoundsAssumption DEF TabRecords, TabPcs, TokensTyped, TabsTyped, Login, Issue
  <2>2. tab' = [tab EXCEPT ![t] = v]
    BY <1>10 DEF Login
  <2>. HIDE DEF v
  <2>3. TabsTyped'
    BY <1>7, <2>1, <2>2
  <2>. QED
    BY <1>2, <1>10, <2>1, <2>3 DEF Login, Issue, Cross, TokensTyped, TabsTyped
<1>11. ASSUME NEW t \in Tabs, NEW kind \in {"call", "logout"}, Call(t, kind)
       PROVE  TokensTyped' /\ faults' \in Nat
  <2>. DEFINE v == tab'[t]
  <2>1. v \in TabRecords /\ v.token = NoToken /\ tab' = [tab EXCEPT ![t] = v]
        /\ v.pc \in {"leaving", "refused"}
    BY <1>2, <1>11 DEF Call, TabRecords, TabPcs, TokensTyped, TabsTyped
  <2>. HIDE DEF v
  <2>2. issued' = issued
    BY <1>11 DEF Call, tokens
  <2>3. TabsTyped'
    BY <1>7, <2>1, <2>2
  <2>. QED
    BY <1>2, <1>11, <2>3 DEF Call, Cross, TokensTyped, TabsTyped, tokens
<1>12. ASSUME NEW t \in Tabs, Refresh(t) PROVE TokensTyped' /\ faults' \in Nat
  <2>. DEFINE pc == IF store[B(t)] = NoToken THEN "denied" ELSE "asked"
              v == [tab[t] EXCEPT !.token = store[B(t)], !.pc = pc]
  <2>1. issued' = issued /\ pc \in TabPcs /\ store[B(t)] \in Nat \cup {NoToken}
    BY <1>2, <1>6, <1>12 DEF Refresh, tokens, TabPcs, TokensTyped, TabsTyped
  <2>2. tab' = [tab EXCEPT ![t] = v]
    BY <1>12 DEF Refresh
  <2>3. pc \in {"asked", "denied"}
    OBVIOUS
  <2>. HIDE DEF pc
  <2>4. v \in TabRecords /\ v.token = store[B(t)] /\ v.pc = pc
    BY <1>6, <2>1 DEF TabRecords
  <2>5. pc = "asked" => store[B(t)] # NoToken
    BY DEF pc
  <2>. HIDE DEF v
  <2>6. TabsTyped'
    BY <1>6, <1>7, <2>1, <2>2, <2>4, <2>5, <2>3
  <2>. QED
    BY <1>2, <1>12, <2>6 DEF Refresh, Cross, TokensTyped, TabsTyped, tokens
<1>13. ASSUME NEW t \in Tabs, Check(t) PROVE TokensTyped' /\ faults' \in Nat
  <2>1. issued' = issued /\ tab[t].token # NoToken
    BY <1>2, <1>13 DEF Check, Is, tokens, TokensTyped, TabsTyped
  <2>2. To(t, "denied") \/ To(t, "checked")
    BY <1>13 DEF Check
  <2>3. TabsTyped'
    BY <1>8, <2>1, <2>2
  <2>. QED
    BY <1>2, <1>13, <2>3 DEF Check, TokensTyped, TabsTyped, tokens
<1>14. ASSUME NEW t \in Tabs, Rotate(t) PROVE TokensTyped' /\ faults' \in Nat
  <2>. DEFINE v == [tab[t] EXCEPT !.pc = "granted", !.token = clock]
  <2>1. v \in TabRecords /\ v.token = clock /\ v.token # NoToken
    BY <1>2, <1>6, BoundsAssumption DEF TabRecords, TabPcs, TokensTyped, TabsTyped
  <2>2. tab' = [tab EXCEPT ![t] = v] /\ issued' = issued \cup {clock}
    BY <1>14 DEF Rotate, Issue
  <2>. HIDE DEF v
  <2>3. TabsTyped'
    BY <1>7, <2>1, <2>2
  <2>4. tab[t].token \in issued
    BY <1>2, <1>14 DEF TokensTyped, TabsTyped, Rotate, Is
  <2>. QED
    BY <1>2, <1>14, <2>2, <2>3, <2>4 DEF Rotate, Issue, Spent, TokensTyped, TabsTyped
<1>15. ASSUME NEW t \in Tabs, SetTokens(t) \/ Leave(t) \/ Lose(t) PROVE TokensTyped' /\ faults' \in Nat
  <2>1. issued' = issued
    BY <1>15 DEF SetTokens, Leave, Lose, tokens
  <2>2. To(t, "idle") \/ To(t, "leaving") \/ To(t, "denied")
    BY <1>15 DEF SetTokens, Leave, Lose
  <2>3. TabsTyped'
    BY <1>8, <2>1, <2>2
  <2>4. tab[t].token \in issued \cup {NoToken}
    BY <1>2 DEF TokensTyped, TabsTyped
  <2>5. CASE SetTokens(t)
    BY <1>2, <2>3, <2>4, <2>5 DEF SetTokens, Kept, TokensTyped, TabsTyped, tokens
  <2>6. CASE Leave(t)
    BY <1>2, <2>3, <2>6 DEF Leave, TokensTyped, TabsTyped, tokens
  <2>7. CASE Lose(t)
    BY <1>2, <2>3, <2>7 DEF Lose, TokensTyped, TabsTyped, tokens
  <2>. QED
    BY <1>15, <2>5, <2>6, <2>7
<1>16. ASSUME NEW k \in issued, Logout(k) PROVE TokensTyped' /\ faults' \in Nat
  BY <1>2, <1>16 DEF Logout, TokensTyped, TabsTyped
<1>. QED
  BY <1>4, <1>5, <1>10, <1>11, <1>12, <1>13, <1>14, <1>15, <1>16 DEF SessionNext

-----------------------------------------------------------------------------
(* The requests                                                            *)

\* What a step does to the requests: one of them starts, goes on or ends, or
\* none is touched.
LEMMA EachRequestStep ==
  ASSUME TypeOK, RegistrationNext
  PROVE  \/ \E e \in Emails : Lapse(e) /\ UNCHANGED <<req, faults>>
         \/ \E r \in Requests :
              /\ \A q \in Requests \ {r} : req'[q] = req[q]
              /\ \/ \E e \in Emails, kind \in Kinds : Receive(r, kind, e) /\ UNCHANGED faults
                 \/ Fail(r) /\ req'[r].pc = "over"
                 \/ RequestStep(r) /\ UNCHANGED faults
<1>1. ASSUME NEW r \in Requests, RequestStep(r)
      PROVE  \A q \in Requests \ {r} : req'[q] = req[q]
  BY <1>1, StepsOfRequests, GuessSteps DEF RequestStep, Goes, Guesses, Moved
<1>2. ASSUME NEW r \in Requests, NEW e \in Emails, NEW kind \in Kinds, Receive(r, kind, e)
      PROVE  \A q \in Requests \ {r} : req'[q] = req[q]
  BY <1>2, ReceiveSteps
<1>3. ASSUME NEW r \in Requests, Fail(r)
      PROVE  req'[r].pc = "over" /\ \A q \in Requests \ {r} : req'[q] = req[q]
  BY <1>3, FailSteps DEF Moved
<1>4. ASSUME NEW e \in Emails, Lapse(e) PROVE UNCHANGED req
  BY <1>4 DEF Lapse
<1>. QED
  BY <1>1, <1>2, <1>3, <1>4 DEF RegistrationNext, Kinds

\* A step of a request that is neither about its trial nor the creation of its
\* account.
Aside(r) == RequestStep(r) /\ ~Create(r) /\ ~AssertTrial(r) /\ ~StartTrial(r)

LEMMA AsideSteps ==
  ASSUME TypeOK, NEW r \in Requests, Aside(r)
  PROVE  /\ account' = account /\ races' \cap {"trial"} = races \cap {"trial"}
         /\ req[r].pc \notin {"trial", "starting"} /\ req'[r].pc # "starting"
<1>1. account' = account
  BY DEF Aside, RequestStep, Send, Mail, SetOtp, SetCooldown, DelAttempts, GetOtp, GetAttempts,
     Miss, Spend, Google, CountAgents, AddAgent
<1>2. races' \cap {"trial"} = races \cap {"trial"}
  BY DEF Aside, RequestStep, Send, Mail, SetOtp, SetCooldown, DelAttempts, GetOtp, GetAttempts,
     Miss, Spend, Google, CountAgents, AddAgent, Race
<1>3. req[r].pc \notin {"trial", "starting"} /\ req'[r].pc # "starting"
  BY StepsOfRequests, GuessSteps DEF Aside, RequestStep, Goes, Guesses, Moved
<1>. QED
  BY <1>1, <1>2, <1>3

\* TrialNotLost is inductive.
LEMMA TrialStep ==
  ASSUME TypeOK, TypeOK', TrialNotLost, RegistrationNext
  PROVE  TrialNotLost'
<1>. USE DEF TrialNotLost
<1>t. faults \in Nat /\ account \in [Emails -> {"none", "created", "trial"}]
  BY DEF TypeOK, AccountsTyped
<1>f. ASSUME NEW r \in Requests, req[r].pc \notin {"trial", "starting"}, account' = account,
             faults' = faults, \A q \in Requests \ {r} : req'[q] = req[q]
      PROVE  TrialNotLost'
  BY <1>f
<1>1. ASSUME NEW e \in Emails, Lapse(e), UNCHANGED <<req, faults>> PROVE TrialNotLost'
  BY <1>1 DEF Lapse
<1>2. ASSUME NEW r \in Requests, \A q \in Requests \ {r} : req'[q] = req[q]
      PROVE  /\ \A e \in Emails, kind \in Kinds :
                  Receive(r, kind, e) /\ UNCHANGED faults => TrialNotLost'
             /\ Fail(r) => TrialNotLost'
             /\ RequestStep(r) /\ UNCHANGED faults => TrialNotLost'
  <2>1. ASSUME NEW e \in Emails, NEW kind \in Kinds, Receive(r, kind, e), UNCHANGED faults
        PROVE  TrialNotLost'
    BY <1>2, <1>f, <2>1 DEF Receive, At
  <2>2. CASE Fail(r)
    BY <1>t, <2>2 DEF Fail
  <2>3. CASE Aside(r) /\ UNCHANGED faults
    BY <1>2, <1>f, <2>3, AsideSteps
  <2>4. CASE Create(r) /\ UNCHANGED faults
    <3>1. CASE account' = account
      <4>1. req[r].pc \notin {"trial", "starting"}
        BY <2>4 DEF Create, At
      <4>. QED
        BY <1>2, <1>f, <2>4, <3>1, <4>1
    <3>2. CASE account' # account
      <4>1. Goes(r, "creating", "trial") \/ Goes(r, "creating", "over")
        BY <2>4, StepsOfRequests
      <4>2. /\ account[req[r].email] = "none"
            /\ account' = [account EXCEPT ![req[r].email] = "created"] /\ Go(r, "trial")
        BY <2>4, <3>2 DEF Create, NextAfterCreate
      <4>3. Moved(r, "trial")
        BY <4>2, GoMoves DEF TypeOK, RequestPcs
      <4>4. req'[r].pc = "trial" /\ req'[r].email = req[r].email /\ req[r].pc = "creating"
        BY <2>4, <4>3 DEF Moved, Create, At
      <4>. QED
        BY <1>t, <1>2, <2>4, <4>2, <4>4
    <3>. QED
      BY <3>1, <3>2
  <2>5. CASE AssertTrial(r) /\ UNCHANGED faults
    <3>1. CASE TrialTaken(req[r].email)
      <4>1. \E f \in Emails : account'[f] = "trial"
        BY <2>5, <3>1 DEF TrialTaken, AssertTrial
      <4>. QED
        BY <4>1
    <3>2. CASE ~TrialTaken(req[r].email)
      <4>1. Go(r, "starting") /\ account' = account
        BY <2>5, <3>2 DEF AssertTrial
      <4>2. Moved(r, "starting")
        BY <4>1, GoMoves DEF TypeOK, RequestPcs
      <4>. QED
        BY <1>2, <2>5, <4>1, <4>2 DEF Moved
    <3>. QED
      BY <3>1, <3>2
  <2>6. CASE StartTrial(r) /\ UNCHANGED faults
    <3>1. req[r].email \in Emails /\ account' = [account EXCEPT ![req[r].email] = "trial"]
      BY <2>6 DEF StartTrial, At, TypeOK, RequestsTyped
    <3>2. account'[req[r].email] = "trial"
      BY <1>t, <3>1
    <3>. QED
      BY <3>1, <3>2
  <2>. QED
    BY <2>1, <2>2, <2>3, <2>4, <2>5, <2>6 DEF Aside
<1>. QED
  BY <1>1, <1>2, EachRequestStep

\* One request at a time starts a trial, and none once there is one.
LEMMA OneTrialStep ==
  ASSUME TypeOK, TypeOK', "trial" \notin races => OneTrial, RegistrationNext, "trial" \notin races'
  PROVE  OneTrial'
<1>. USE DEF OneTrial
<1>t. account \in [Emails -> {"none", "created", "trial"}]
  BY DEF TypeOK, AccountsTyped
<1>0. races \subseteq races' /\ OneTrial
  <2>1. ASSUME NEW r \in Requests, RequestStep(r) PROVE races \subseteq races'
    BY <2>1 DEF RequestStep, Send, Mail, SetOtp, SetCooldown, DelAttempts, GetOtp, GetAttempts,
       Miss, Spend, Google, Create, AssertTrial, StartTrial, CountAgents, AddAgent, Race
  <2>2. races \subseteq races'
    BY <2>1 DEF RegistrationNext, Receive, Lapse, Fail
  <2>. QED
    BY <2>2
<1>f. ASSUME NEW r \in Requests, req'[r].pc # "starting", account' = account,
             \A q \in Requests \ {r} : req'[q] = req[q]
      PROVE  OneTrial'
  BY <1>0, <1>f
<1>1. ASSUME NEW e \in Emails, Lapse(e), UNCHANGED <<req, faults>> PROVE OneTrial'
  BY <1>0, <1>1 DEF Lapse
<1>2. ASSUME NEW r \in Requests, \A q \in Requests \ {r} : req'[q] = req[q]
      PROVE  /\ \A e \in Emails, kind \in Kinds : Receive(r, kind, e) => OneTrial'
             /\ Fail(r) /\ req'[r].pc = "over" => OneTrial'
             /\ RequestStep(r) => OneTrial'
  <2>1. ASSUME NEW e \in Emails, NEW kind \in Kinds, Receive(r, kind, e) PROVE OneTrial'
    <3>1. req'[r].pc = kind /\ account' = account
      BY <2>1, ReceiveSteps DEF Receive
    <3>. QED
      BY <1>2, <1>f, <3>1 DEF Kinds
  <2>2. CASE Fail(r) /\ req'[r].pc = "over"
    BY <1>2, <1>f, <2>2 DEF Fail
  <2>3. CASE Aside(r)
    BY <1>2, <1>f, <2>3, AsideSteps
  <2>4. CASE Create(r)
    <3>1. req'[r].pc # "starting"
      BY <2>4, StepsOfRequests DEF Goes, Moved
    <3>2. \/ account' = account
          \/ account' = [account EXCEPT ![req[r].email] = "created"]
      BY <2>4 DEF Create
    <3>3. \A e \in Emails : account'[e] = "trial" => account[e] = "trial"
      BY <1>t, <3>2
    <3>. QED
      BY <1>0, <1>2, <3>1, <3>3
  <2>5. CASE AssertTrial(r)
    <3>1. \A q \in Requests \ {r} : req[q].pc # "starting"
      BY <2>5 DEF AssertTrial
    <3>2. CASE TrialTaken(req[r].email)
      <4>1. Go(r, "over") /\ account' = account
        BY <2>5, <3>2 DEF AssertTrial
      <4>2. Moved(r, "over")
        BY <4>1, GoMoves DEF TypeOK, RequestPcs
      <4>. QED
        BY <1>2, <1>f, <4>1, <4>2 DEF Moved
    <3>3. CASE ~TrialTaken(req[r].email)
      <4>1. account' = account /\ \A e \in Emails : account[e] # "trial"
        BY <2>5, <3>3 DEF AssertTrial, TrialTaken
      <4>. QED
        BY <1>2, <3>1, <4>1
    <3>. QED
      BY <3>2, <3>3
  <2>6. CASE StartTrial(r)
    <3>1. req[r].pc = "starting" /\ account' = [account EXCEPT ![req[r].email] = "trial"]
      BY <2>6 DEF StartTrial, At
    <3>2. req'[r].pc = "over"
      BY <2>6, StepsOfRequests DEF Goes, Moved
    <3>3. \A q \in Requests : req'[q].pc # "starting"
      BY <1>0, <1>2, <3>1, <3>2
    <3>4. \A e \in Emails : account'[e] = "trial" => e = req[r].email
      BY <1>t, <1>0, <3>1
    <3>. QED
      BY <3>3, <3>4
  <2>. QED
    BY <2>1, <2>2, <2>3, <2>4, <2>5, <2>6 DEF Aside
<1>. QED
  BY <1>1, <1>2, EachRequestStep

\* One request at a time adds an agent to an account, and none beyond the limit.
LEMMA OneAgentStep ==
  ASSUME TypeOK, TypeOK', "add" \notin races => OneAgentAtATime, RegistrationNext, "add" \notin races'
  PROVE  OneAgentAtATime'
<1>. USE DEF OneAgentAtATime, AtEmail
<1>t. agents \in [Emails -> Nat] /\ MaxAgents \in Nat
  BY BoundsAssumption DEF TypeOK, AccountsTyped
<1>0. races \subseteq races' /\ OneAgentAtATime
  <2>1. ASSUME NEW r \in Requests, RequestStep(r) PROVE races \subseteq races'
    BY <2>1 DEF RequestStep, Send, Mail, SetOtp, SetCooldown, DelAttempts, GetOtp, GetAttempts,
       Miss, Spend, Google, Create, AssertTrial, StartTrial, CountAgents, AddAgent, Race
  <2>2. races \subseteq races'
    BY <2>1 DEF RegistrationNext, Receive, Lapse, Fail
  <2>. QED
    BY <2>2
<1>f. ASSUME NEW r \in Requests, req'[r].pc # "adding", agents' = agents,
             \A q \in Requests \ {r} : req'[q] = req[q]
      PROVE  OneAgentAtATime'
  BY <1>0, <1>f
<1>1. ASSUME NEW e \in Emails, Lapse(e), UNCHANGED <<req, faults>> PROVE OneAgentAtATime'
  BY <1>0, <1>1 DEF Lapse
<1>2. ASSUME NEW r \in Requests, \A q \in Requests \ {r} : req'[q] = req[q]
      PROVE  /\ \A e \in Emails, kind \in Kinds : Receive(r, kind, e) => OneAgentAtATime'
             /\ Fail(r) /\ req'[r].pc = "over" => OneAgentAtATime'
             /\ RequestStep(r) => OneAgentAtATime'
  <2>1. ASSUME NEW e \in Emails, NEW kind \in Kinds, Receive(r, kind, e) PROVE OneAgentAtATime'
    <3>1. req'[r].pc = kind /\ agents' = agents
      BY <2>1, ReceiveSteps DEF Receive
    <3>. QED
      BY <1>2, <1>f, <3>1 DEF Kinds
  <2>2. CASE Fail(r) /\ req'[r].pc = "over"
    BY <1>2, <1>f, <2>2 DEF Fail
  <2>3. CASE RequestStep(r) /\ ~CountAgents(r) /\ ~AddAgent(r)
    <3>1. agents' = agents
      BY <2>3 DEF RequestStep, Send, Mail, SetOtp, SetCooldown, DelAttempts, GetOtp, GetAttempts,
         Miss, Spend, Google, Create, AssertTrial, StartTrial
    <3>2. req'[r].pc # "adding"
      BY <2>3, StepsOfRequests, GuessSteps DEF RequestStep, Goes, Guesses, Moved
    <3>. QED
      BY <1>2, <1>f, <3>1, <3>2
  <2>4. CASE CountAgents(r)
    <3>1. \A q \in Requests \ {r} : ~AtEmail(q, req[r].email, {"adding"})
      BY <2>4 DEF CountAgents, Race, Others
    <3>2. CASE Go(r, "over")
      <4>1. Moved(r, "over")
        BY <3>2, GoMoves DEF TypeOK, RequestPcs
      <4>2. agents' = agents
        BY <2>4 DEF CountAgents
      <4>. QED
        BY <1>2, <1>f, <4>1, <4>2 DEF Moved
    <3>3. CASE ~Go(r, "over")
      <4>1. Go(r, "adding") /\ agents' = agents /\ ~(agents[req[r].email] >= MaxAgents)
        BY <2>4, <3>3 DEF CountAgents, LimitReached
      <4>2. Moved(r, "adding")
        BY <4>1, GoMoves DEF TypeOK, RequestPcs
      <4>3. req'[r].email = req[r].email /\ req[r].email \in Emails
        BY <2>4, <4>2 DEF Moved, CountAgents, At, TypeOK, RequestsTyped
      <4>4. agents[req[r].email] < MaxAgents
        BY <1>t, <4>1, <4>3
      <4>. QED
        BY <1>0, <1>2, <3>1, <4>1, <4>3, <4>4
    <3>. QED
      BY <3>2, <3>3
  <2>5. CASE AddAgent(r)
    <3>. DEFINE m == req[r].email
    <3>1. /\ m \in Emails /\ AtEmail(r, m, {"adding"}) /\ agents' = [agents EXCEPT ![m] = @ + 1]
      BY <2>5 DEF AddAgent, At, TypeOK, RequestsTyped
    <3>2. req'[r].pc = "over"
      BY <2>5, StepsOfRequests DEF Goes, Moved
    <3>. HIDE DEF m
    <3>3. \A q \in Requests : ~(req'[q].email = m /\ req'[q].pc = "adding")
      BY <1>0, <1>2, <3>1, <3>2
    <3>4. agents[m] < MaxAgents /\ agents'[m] = agents[m] + 1
      BY <1>t, <1>0, <3>1
    <3>5. agents'[m] <= MaxAgents
      BY <1>t, <3>1, <3>4
    <3>6. \A e \in Emails \ {m} : agents'[e] = agents[e]
      BY <1>t, <3>1
    <3>7. ASSUME NEW e \in Emails \ {m} PROVE \A q \in Requests :
                    AtEmail(q, e, {"adding"})' => AtEmail(q, e, {"adding"})
      BY <1>2, <3>2
    <3>. QED
      BY <1>0, <3>3, <3>5, <3>6, <3>7
  <2>. QED
    BY <2>1, <2>2, <2>3, <2>4, <2>5
<1>. QED
  BY <1>1, <1>2, EachRequestStep

\* No request guesses beyond the limit.
LEMMA CountersStep ==
  ASSUME TypeOK, TypeOK', Counters, RegistrationNext
  PROVE  Counters'
<1>. USE DEF Counters
<1>t. /\ attempts \in [Emails -> Nat] /\ MaxAttempts \in Nat \ {0}
      /\ \A r \in Requests : req[r].seen \in Nat
  BY BoundsAssumption DEF TypeOK, CodesTyped, RequestsTyped, RequestRecords
<1>1. ASSUME NEW e \in Emails, Lapse(e), UNCHANGED <<req, faults>> PROVE Counters'
  <2>1. attempts' = attempts \/ attempts' = [attempts EXCEPT ![e] = 0]
    BY <1>1 DEF Lapse
  <2>. QED
    BY <1>1, <1>t, <2>1
<1>2. ASSUME NEW r \in Requests, \A q \in Requests \ {r} : req'[q] = req[q]
      PROVE  /\ \A e \in Emails, kind \in Kinds : Receive(r, kind, e) => Counters'
             /\ Fail(r) /\ req'[r].pc = "over" => Counters'
             /\ RequestStep(r) => Counters'
  <2>1. ASSUME NEW e \in Emails, NEW kind \in Kinds, Receive(r, kind, e) PROVE Counters'
    <3>1. req'[r].pc = kind /\ attempts' = attempts
      BY <2>1, ReceiveSteps DEF Receive, codes
    <3>. QED
      BY <1>2, <3>1 DEF Kinds
  <2>2. CASE Fail(r) /\ req'[r].pc = "over"
    BY <1>2, <2>2 DEF Fail, codes
  <2>3. CASE RequestStep(r) /\ ~GetAttempts(r) /\ ~Miss(r)
    <3>1. \/ attempts' = attempts
          \/ req[r].email \in Emails /\ attempts' = [attempts EXCEPT ![req[r].email] = 0]
      BY <2>3 DEF RequestStep, Send, Mail, SetOtp, SetCooldown, DelAttempts, GetOtp, Spend, Google,
         Create, AssertTrial, StartTrial, CountAgents, AddAgent, codes, At, TypeOK, RequestsTyped
    <3>2. req'[r].pc # "missed"
      BY <2>3, StepsOfRequests DEF RequestStep, Goes, Moved
    <3>3. \A e \in Emails : attempts'[e] <= MaxAttempts
      BY <1>t, <3>1
    <3>. QED
      BY <1>2, <3>2, <3>3
  <2>4. CASE GetAttempts(r)
    <3>1. Guesses(r) /\ attempts' = attempts /\ req[r].email \in Emails
      BY <2>4, GuessSteps DEF GetAttempts, At, TypeOK, RequestsTyped
    <3>2. CASE req'[r].pc # "missed"
      BY <1>2, <3>1, <3>2
    <3>3. CASE req'[r].pc = "missed"
      <4>1. attempts[req[r].email] < MaxAttempts /\ req'[r].seen = attempts[req[r].email]
        BY <3>1, <3>3 DEF Guesses, Moved
      <4>2. req'[r].seen + 1 <= MaxAttempts
        BY <1>t, <3>1, <4>1
      <4>. QED
        BY <1>2, <3>1, <4>2
    <3>. QED
      BY <3>2, <3>3
  <2>5. CASE Miss(r)
    <3>1. /\ req[r].email \in Emails /\ req[r].pc = "missed"
          /\ attempts' = [attempts EXCEPT ![req[r].email] = req[r].seen + 1]
      BY <2>5 DEF Miss, At, TypeOK, RequestsTyped
    <3>2. req'[r].pc = "over"
      BY <2>5, StepsOfRequests DEF Goes, Moved
    <3>3. \A e \in Emails : attempts'[e] <= MaxAttempts
      BY <1>t, <3>1
    <3>. QED
      BY <1>2, <3>2, <3>3
  <2>. QED
    BY <2>1, <2>2, <2>3, <2>4, <2>5
<1>. QED
  BY <1>1, <1>2, EachRequestStep

\* What is said of the guesses at one address.
OneGuessAt(e) ==
  \A q, r \in Requests : AtEmail(q, e, {"missed"}) /\ AtEmail(r, e, {"missed"}) => q = r

Fresh == {"cooling", "clearing", "forgetting"}

TalliedAt(e) ==
  otp[e] =>
    /\ \A r \in Requests :
         /\ AtEmail(r, e, {"missed"}) => /\ wrong[e] <= req[r].seen + 1 + faults
                                         /\ wrong[e] <= attempts[e] + 1 + faults
         /\ AtEmail(r, e, Fresh) => wrong[e] = 0
    /\ (\A r \in Requests : ~AtEmail(r, e, {"missed"})) => wrong[e] <= attempts[e] + faults

LEMMA GuessesByEmail ==
  /\ OneGuess /\ Tallied <=> \A e \in Emails : OneGuessAt(e) /\ TalliedAt(e)
  /\ (OneGuess /\ Tallied)' <=> \A e \in Emails : OneGuessAt(e)' /\ TalliedAt(e)'
  BY DEF OneGuess, Tallied, OneGuessAt, TalliedAt, Fresh

\* A request that neither guesses nor is about the code of this address.
LEMMA GuessFrame ==
  ASSUME TypeOK, TypeOK', NEW e \in Emails, OneGuessAt(e), TalliedAt(e),
         otp'[e] = otp[e], wrong'[e] = wrong[e], attempts'[e] = attempts[e],
         faults' = faults, NEW r \in Requests, \A q \in Requests \ {r} : req'[q] = req[q],
         ~AtEmail(r, e, {"missed"}), ~AtEmail(r, e, {"missed"})',
         AtEmail(r, e, Fresh)' => AtEmail(r, e, Fresh)
  PROVE  OneGuessAt(e)' /\ TalliedAt(e)'
<1>1. /\ \A q \in Requests : AtEmail(q, e, {"missed"})' <=> AtEmail(q, e, {"missed"})
      /\ \A q \in Requests : AtEmail(q, e, Fresh)' => AtEmail(q, e, Fresh)
      /\ \A q \in Requests : AtEmail(q, e, {"missed"}) => req'[q].seen = req[q].seen
  BY DEF AtEmail
<1>. QED
  BY <1>1 DEF OneGuessAt, TalliedAt

\* While no two guesses have overlapped, the tally at each address is kept.
LEMMA TallyStep ==
  ASSUME TypeOK, TypeOK', "guess" \notin races => OneGuess /\ Tallied, RegistrationNext,
         "guess" \notin races'
  PROVE  (OneGuess /\ Tallied)'
<1>t. /\ attempts \in [Emails -> Nat] /\ wrong \in [Emails -> Nat] /\ otp \in [Emails -> BOOLEAN]
      /\ faults \in Nat /\ \A r \in Requests : req[r].seen \in Nat
  BY DEF TypeOK, CodesTyped, RequestsTyped, RequestRecords
<1>0. races \subseteq races'
  <2>1. ASSUME NEW r \in Requests, RequestStep(r) PROVE races \subseteq races'
    BY <2>1 DEF RequestStep, Send, Mail, SetOtp, SetCooldown, DelAttempts, GetOtp, GetAttempts,
       Miss, Spend, Google, Create, AssertTrial, StartTrial, CountAgents, AddAgent, Race
  <2>2. races \subseteq races'
    BY <2>1 DEF RegistrationNext, Receive, Lapse, Fail
  <2>. QED
    BY <2>2
<1>i. \A e \in Emails : OneGuessAt(e) /\ TalliedAt(e)
  BY <1>0, GuessesByEmail
<1>s. SUFFICES ASSUME NEW e \in Emails PROVE OneGuessAt(e)' /\ TalliedAt(e)'
  <2>. QED
    BY <1>s, GuessesByEmail
<1>g. OneGuessAt(e) /\ TalliedAt(e)
  BY <1>i
<1>1. ASSUME NEW m \in Emails, Lapse(m), UNCHANGED <<req, faults>>
      PROVE  OneGuessAt(e)' /\ TalliedAt(e)'
  <2>1. OneGuessAt(e)'
    BY <1>1, <1>g DEF OneGuessAt, AtEmail
  <2>2. otp'[e] => otp[e] /\ attempts'[e] = attempts[e] /\ wrong'[e] = wrong[e]
    BY <1>1, <1>t DEF Lapse
  <2>. QED
    BY <1>1, <1>g, <2>1, <2>2 DEF TalliedAt, AtEmail
<1>2. ASSUME NEW r \in Requests, \A q \in Requests \ {r} : req'[q] = req[q]
      PROVE  /\ \A m \in Emails, kind \in Kinds :
                  Receive(r, kind, m) /\ UNCHANGED faults => OneGuessAt(e)' /\ TalliedAt(e)'
             /\ Fail(r) /\ req'[r].pc = "over" => OneGuessAt(e)' /\ TalliedAt(e)'
             /\ RequestStep(r) /\ UNCHANGED faults => OneGuessAt(e)' /\ TalliedAt(e)'
  <2>1. ASSUME NEW m \in Emails, NEW kind \in Kinds, Receive(r, kind, m), UNCHANGED faults
        PROVE  OneGuessAt(e)' /\ TalliedAt(e)'
    <3>1. req[r].pc = "new" /\ req'[r].pc = kind /\ UNCHANGED <<otp, attempts, wrong>>
      BY <2>1, ReceiveSteps DEF Receive, codes
    <3>2. ~AtEmail(r, e, {"missed"}) /\ ~AtEmail(r, e, {"missed"})' /\ ~AtEmail(r, e, Fresh)'
      BY <3>1 DEF AtEmail, Kinds, Fresh
    <3>. QED
      BY <1>g, <1>2, <2>1, <3>1, <3>2, GuessFrame
  <2>2. CASE Fail(r) /\ req'[r].pc = "over"
    <3>1. /\ \A q \in Requests : AtEmail(q, e, {"missed"})' => /\ AtEmail(q, e, {"missed"})
                                                              /\ req'[q] = req[q]
          /\ \A q \in Requests : AtEmail(q, e, Fresh)' => AtEmail(q, e, Fresh)
          /\ \A q \in Requests \ {r} : AtEmail(q, e, {"missed"}) => AtEmail(q, e, {"missed"})'
      BY <1>2, <2>2 DEF AtEmail, Fresh
    <3>2. UNCHANGED <<otp, attempts, wrong>> /\ faults' = faults + 1
      BY <2>2 DEF Fail, codes
    <3>3. OneGuessAt(e)'
      BY <1>g, <3>1 DEF OneGuessAt
    <3>4. ASSUME otp[e] PROVE wrong[e] <= attempts[e] + 1 + faults
      BY <1>t, <1>g, <3>4 DEF TalliedAt
    <3>5. ASSUME otp[e], NEW q \in Requests, AtEmail(q, e, {"missed"})
          PROVE  wrong[e] <= req[q].seen + 1 + faults
      BY <1>t, <1>g, <3>5 DEF TalliedAt
    <3>6. ASSUME otp[e]
          PROVE  /\ wrong[e] <= attempts[e] + faults'
                 /\ wrong[e] <= attempts[e] + 1 + faults'
                 /\ \A q \in Requests : AtEmail(q, e, {"missed"}) =>
                       wrong[e] <= req[q].seen + 1 + faults'
      BY <1>t, <3>2, <3>4, <3>5, <3>6
    <3>7. ASSUME otp[e], NEW q \in Requests, AtEmail(q, e, Fresh)' PROVE wrong[e] = 0
      BY <1>g, <3>1, <3>7 DEF TalliedAt
    <3>8. TalliedAt(e)'
      BY <3>1, <3>2, <3>6, <3>7 DEF TalliedAt
    <3>. QED
      BY <3>3, <3>8
  <2>3. CASE RequestStep(r) /\ UNCHANGED faults
    <3>. DEFINE m == req[r].email
    <3>1. m \in Emails
      BY <2>3 DEF RequestStep, Send, Mail, SetOtp, SetCooldown, DelAttempts, GetOtp, GetAttempts,
         Miss, Spend, Google, Create, AssertTrial, StartTrial, CountAgents, AddAgent, At, TypeOK,
         RequestsTyped
    <3>2. req'[r].pc # "over" => req'[r].email = m
      BY <2>3, StepsOfRequests, GuessSteps DEF RequestStep, Goes, Guesses, Moved
    <3>3. CASE m # e
      <4>1. otp'[e] = otp[e] /\ wrong'[e] = wrong[e] /\ attempts'[e] = attempts[e]
        <5>1. otp'[e] = otp[e]
          BY <1>t, <2>3, <3>3 DEF RequestStep, Send, Mail, SetOtp, SetCooldown, DelAttempts,
             GetOtp, GetAttempts, Miss, Spend, Google, Create, AssertTrial, StartTrial,
             CountAgents, AddAgent, codes
        <5>2. wrong'[e] = wrong[e]
          BY <1>t, <2>3, <3>3 DEF RequestStep, Send, Mail, SetOtp, SetCooldown, DelAttempts,
             GetOtp, GetAttempts, Miss, Spend, Google, Create, AssertTrial, StartTrial,
             CountAgents, AddAgent, codes
        <5>3. attempts'[e] = attempts[e]
          BY <1>t, <2>3, <3>3 DEF RequestStep, Send, Mail, SetOtp, SetCooldown, DelAttempts,
             GetOtp, GetAttempts, Miss, Spend, Google, Create, AssertTrial, StartTrial,
             CountAgents, AddAgent, codes
        <5>. QED
          BY <5>1, <5>2, <5>3
      <4>2. ~AtEmail(r, e, {"missed"}) /\ ~AtEmail(r, e, {"missed"})' /\ ~AtEmail(r, e, Fresh)'
        BY <3>2, <3>3 DEF AtEmail, Fresh
      <4>. QED
        BY <1>g, <1>2, <2>3, <4>1, <4>2, GuessFrame
    <3>4. CASE m = e
      <4>m. req[r].email = e
        BY <3>4
      <4>. HIDE DEF m
      <4>1. CASE /\ UNCHANGED <<otp, wrong, attempts>>
                /\ ~SetOtp(r) /\ ~DelAttempts(r) /\ ~GetAttempts(r) /\ ~Miss(r) /\ ~Spend(r)
        <5>1. /\ ~AtEmail(r, e, {"missed"}) /\ ~AtEmail(r, e, {"missed"})'
              /\ AtEmail(r, e, Fresh)' => AtEmail(r, e, Fresh)
          BY <1>t, <2>3, <4>1, <4>m, StepsOfRequests
             DEF RequestStep, Goes, Moved, AtEmail, Fresh, SetOtp, Spend
        <5>. QED
          BY <1>g, <1>2, <2>3, <4>1, <5>1, GuessFrame
      <4>a. ASSUME ~AtEmail(r, e, {"missed"})'
            PROVE  \A q \in Requests : AtEmail(q, e, {"missed"})' =>
                      AtEmail(q, e, {"missed"}) /\ req'[q] = req[q]
        BY <1>2, <4>a DEF AtEmail
      <4>o. ASSUME ~AtEmail(r, e, {"missed"})' PROVE OneGuessAt(e)'
        BY <1>g, <4>a, <4>o DEF OneGuessAt
      <4>z. ASSUME ~AtEmail(r, e, {"missed"})', wrong'[e] = 0 PROVE TalliedAt(e)'
        <5>1. /\ attempts'[e] \in Nat /\ faults' \in Nat /\ \A q \in Requests : req'[q].seen \in Nat
          BY DEF TypeOK, CodesTyped, RequestsTyped, RequestRecords
        <5>. QED
          BY <4>z, <5>1 DEF TalliedAt
      <4>2. CASE SetOtp(r)
        <5>1. wrong'[e] = 0 /\ req'[r].pc = "cooling"
          BY <1>t, <2>3, <4>2, <4>m, StepsOfRequests DEF SetOtp, Goes, Moved
        <5>. QED
          BY <4>o, <4>z, <5>1 DEF AtEmail
      <4>3. CASE DelAttempts(r)
        <5>1. /\ req'[r].pc = "over" /\ AtEmail(r, e, Fresh) /\ otp' = otp /\ wrong' = wrong
          BY <4>3, <4>m, StepsOfRequests DEF DelAttempts, Goes, Moved, AtEmail, Fresh
        <5>2. ~AtEmail(r, e, {"missed"})'
          BY <5>1 DEF AtEmail
        <5>3. CASE otp[e]
          BY <1>g, <4>o, <4>z, <5>1, <5>2, <5>3 DEF TalliedAt
        <5>4. CASE ~otp[e]
          BY <4>o, <5>1, <5>2, <5>4 DEF TalliedAt
        <5>. QED
          BY <5>3, <5>4
      <4>4. CASE GetAttempts(r)
        <5>1. /\ Guesses(r) /\ UNCHANGED <<otp, attempts>>
              /\ \A q \in Requests \ {r} : ~AtEmail(q, e, {"missed"}) /\ ~AtEmail(q, e, Fresh)
          BY <4>4, <4>m, GuessSteps DEF GetAttempts, Race, Others, AtEmail, Fresh
        <5>2. req[r].pc = "counting"
          BY <5>1 DEF Guesses
        <5>3. CASE req'[r].pc # "missed"
          <6>1. wrong' = wrong /\ req'[r].pc \in {"over", "spending"}
            BY <5>1, <5>3 DEF Guesses, Moved
          <6>2. ~AtEmail(r, e, {"missed"}) /\ ~AtEmail(r, e, {"missed"})' /\ ~AtEmail(r, e, Fresh)'
            BY <5>2, <6>1 DEF AtEmail, Fresh
          <6>. QED
            BY <1>g, <1>2, <2>3, <5>1, <6>1, <6>2, GuessFrame
        <5>4. CASE req'[r].pc = "missed"
          <6>1. wrong'[e] = wrong[e] + 1 /\ req'[r].seen = attempts[e] /\ req'[r].email = e
            BY <1>t, <4>m, <5>1, <5>4 DEF Guesses, Moved
          <6>2. \A q \in Requests \ {r} : ~AtEmail(q, e, {"missed"})' /\ ~AtEmail(q, e, Fresh)'
            BY <1>2, <5>1 DEF AtEmail
          <6>3. ~AtEmail(r, e, Fresh)' /\ AtEmail(r, e, {"missed"})'
            BY <5>4, <6>1 DEF AtEmail, Fresh
          <6>4. OneGuessAt(e)'
            BY <6>2 DEF OneGuessAt
          <6>5. \A q \in Requests : ~AtEmail(q, e, {"missed"})
            BY <5>1, <5>2 DEF AtEmail
          <6>6. otp[e] => wrong[e] <= attempts[e] + faults
            BY <1>g, <6>5 DEF TalliedAt
          <6>7. otp[e] => wrong'[e] <= attempts[e] + 1 + faults
            BY <1>t, <6>1, <6>6
          <6>. QED
            BY <2>3, <5>1, <6>1, <6>2, <6>3, <6>4, <6>7 DEF TalliedAt
        <5>. QED
          BY <5>3, <5>4
      <4>5. CASE Miss(r)
        <5>1. /\ req'[r].pc = "over" /\ AtEmail(r, e, {"missed"}) /\ otp' = otp /\ wrong' = wrong
              /\ attempts'[e] = req[r].seen + 1
          BY <1>t, <4>5, <4>m, StepsOfRequests DEF Miss, Goes, Moved, AtEmail
        <5>2. ~AtEmail(r, e, {"missed"})'
          BY <5>1 DEF AtEmail
        <5>3. \A q \in Requests : ~AtEmail(q, e, {"missed"})'
          BY <1>g, <1>2, <4>a, <5>1, <5>2 DEF OneGuessAt
        <5>4. \A q \in Requests : AtEmail(q, e, Fresh)' => AtEmail(q, e, Fresh)
          BY <1>2, <5>1 DEF AtEmail, Fresh
        <5>5. otp[e] => wrong[e] <= attempts'[e] + faults
          BY <1>g, <5>1 DEF TalliedAt
        <5>. QED
          BY <1>g, <2>3, <4>o, <5>1, <5>2, <5>3, <5>4, <5>5 DEF TalliedAt
      <4>6. CASE Spend(r)
        <5>1. /\ req'[r].pc \in {"forgetting", "creating"} /\ wrong' = wrong
              /\ \/ ~otp'[e]
                 \/ AtEmail(r, e, Fresh) /\ otp' = otp
          BY <1>t, <4>6, <4>m, StepsOfRequests DEF Spend, Goes, Moved, At, AtEmail, Fresh
        <5>2. ~AtEmail(r, e, {"missed"})'
          BY <5>1 DEF AtEmail
        <5>3. CASE ~otp'[e]
          BY <4>o, <5>2, <5>3 DEF TalliedAt
        <5>4. CASE otp'[e]
          BY <1>g, <4>o, <4>z, <5>1, <5>2, <5>4 DEF TalliedAt
        <5>. QED
          BY <5>3, <5>4
      <4>. QED
        BY <2>3, <4>1, <4>2, <4>3, <4>4, <4>5, <4>6
           DEF RequestStep, Send, Mail, SetCooldown, GetOtp, Google, Create,
               AssertTrial, StartTrial, CountAgents, AddAgent, codes
    <3>. QED
      BY <3>3, <3>4
  <2>. QED
    BY <2>1, <2>2, <2>3
<1>. QED
  BY <1>1, <1>2, EachRequestStep

-----------------------------------------------------------------------------
(* The tabs                                                                *)

\* What a step makes of one tab; the other tabs keep what they have.
Sets(t, pc, kind, token) ==
  /\ \A u \in Tabs \ {t} : tab'[u] = tab[u]
  /\ tab'[t].pc = pc /\ tab'[t].kind = kind /\ tab'[t].token = token

LEMMA TabSteps ==
  ASSUME TypeOK, NEW t \in Tabs
  PROVE  /\ Login(t) => Sets(t, "granted", "login", clock)
         /\ \A kind \in {"call", "logout"} : Call(t, kind) =>
               Sets(t, "leaving", kind, NoToken) \/ Sets(t, "refused", kind, NoToken)
         /\ Refresh(t) =>
               \/ store[B(t)] = NoToken /\ Sets(t, "denied", tab[t].kind, store[B(t)])
               \/ store[B(t)] # NoToken /\ Sets(t, "asked", tab[t].kind, store[B(t)])
         /\ Check(t) =>
               \/ tab[t].token \in revoked /\ Sets(t, "denied", tab[t].kind, tab[t].token)
               \/ tab[t].token \notin revoked /\ Sets(t, "checked", tab[t].kind, tab[t].token)
         /\ Rotate(t) => Sets(t, "granted", tab[t].kind, clock)
         /\ SetTokens(t) => \/ Sets(t, "idle", tab[t].kind, tab[t].token)
                            \/ Sets(t, "leaving", tab[t].kind, tab[t].token)
         /\ Leave(t) => Sets(t, "idle", tab[t].kind, tab[t].token)
         /\ Lose(t) => \/ Sets(t, "idle", tab[t].kind, tab[t].token)
                       \/ Sets(t, "denied", tab[t].kind, tab[t].token)
<1>1. tab \in [Tabs -> TabRecords] /\ tab[t] \in TabRecords
  BY DEF TypeOK, TokensTyped, TabsTyped
<1>2. ASSUME NEW pc, To(t, pc) PROVE Sets(t, pc, tab[t].kind, tab[t].token)
  BY <1>1, <1>2 DEF To, Sets, TabRecords
<1>3. Login(t) => Sets(t, "granted", "login", clock)
  BY <1>1 DEF Login, Sets
<1>4. ASSUME NEW kind \in {"call", "logout"}, Call(t, kind)
      PROVE  Sets(t, "leaving", kind, NoToken) \/ Sets(t, "refused", kind, NoToken)
  BY <1>1, <1>4 DEF Call, Sets
<1>5. ASSUME Refresh(t)
      PROVE  \/ store[B(t)] = NoToken /\ Sets(t, "denied", tab[t].kind, store[B(t)])
             \/ store[B(t)] # NoToken /\ Sets(t, "asked", tab[t].kind, store[B(t)])
  BY <1>1, <1>5 DEF Refresh, Sets, TabRecords
<1>6. Rotate(t) => Sets(t, "granted", tab[t].kind, clock)
  BY <1>1 DEF Rotate, Sets, TabRecords
<1>7. ASSUME Check(t)
      PROVE  \/ tab[t].token \in revoked /\ Sets(t, "denied", tab[t].kind, tab[t].token)
             \/ tab[t].token \notin revoked /\ Sets(t, "checked", tab[t].kind, tab[t].token)
  BY <1>2, <1>7 DEF Check
<1>8. SetTokens(t) => \/ Sets(t, "idle", tab[t].kind, tab[t].token)
                      \/ Sets(t, "leaving", tab[t].kind, tab[t].token)
  BY <1>2 DEF SetTokens
<1>9. Leave(t) => Sets(t, "idle", tab[t].kind, tab[t].token)
  BY <1>2 DEF Leave
<1>10. Lose(t) => \/ Sets(t, "idle", tab[t].kind, tab[t].token)
                  \/ Sets(t, "denied", tab[t].kind, tab[t].token)
  BY <1>2 DEF Lose
<1>. QED
  BY <1>3, <1>4, <1>5, <1>6, <1>7, <1>8, <1>9, <1>10

\* The steps of a session that move no tab and store nothing.
Still == Tick \/ (\E b \in Browsers : Expire(b)) \/ (\E k \in issued : Logout(k))

TabStep(t) ==
  \/ Login(t) \/ Refresh(t) \/ Check(t) \/ Rotate(t) \/ SetTokens(t) \/ Leave(t) \/ Lose(t)
  \/ \E kind \in {"call", "logout"} : Call(t, kind)

LEMMA SessionSteps == SessionNext <=> Still \/ \E t \in Tabs : TabStep(t)
  BY DEF SessionNext, Still, TabStep

LEMMA StillSteps == Still => UNCHANGED <<store, tab, issued, crossed, twin, left, faults>>
  BY DEF Still, Tick, Expire, Logout, tokens

LEMMA TabKindsStep ==
  ASSUME TypeOK, TypeOK', TabKinds, SessionNext
  PROVE  TabKinds'
<1>. USE DEF TabKinds
<1>1. CASE Still
  BY <1>1, StillSteps
<1>2. ASSUME NEW t \in Tabs, TabStep(t) PROVE TabKinds'
  <2>1. /\ \A u \in Tabs \ {t} : tab'[u] = tab[u]
        /\ tab'[t].pc \in {"refused", "asked", "checked"} => tab'[t].kind # "login"
    BY <1>2, TabSteps DEF TabStep, Sets, Refresh, Check, Is
  <2>. QED
    BY <2>1
<1>. QED
  BY <1>1, <1>2, SessionSteps

LEMMA AloneBeside ==
  ASSUME TypeOK, NEW t \in Tabs, Beside(t) = {}, NEW u \in Tabs, u # t, B(u) = B(t)
  PROVE  tab[u].pc \notin Busy
  BY DEF Beside, Busy

\* While no two tabs of a browser have crossed, one of them at a time is renewing
\* or leaving, and it shows the token its browser stores.
LEMMA OneAtATimeStep ==
  ASSUME TypeOK, TypeOK', ~crossed => OneAtATime, SessionNext, ~crossed'
  PROVE  OneAtATime' /\ ~crossed
<1>. USE DEF OneAtATime
<1>t. store \in [Browsers -> issued \cup {NoToken}] /\ \A t \in Tabs : B(t) \in Browsers /\ B(t)' = B(t)
  BY TabsAssumption DEF TypeOK, TokensTyped, B
<1>1. CASE Still
  BY <1>t, <1>1, StillSteps
<1>2. ASSUME NEW t \in Tabs, TabStep(t) PROVE OneAtATime' /\ ~crossed
  <2>1. ~crossed
    BY <1>2 DEF TabStep, Login, Refresh, Check, Rotate, SetTokens, Leave, Lose, Call, Cross
  <2>2. \A u \in Tabs \ {t} : tab'[u] = tab[u]
    BY <1>2, TabSteps DEF TabStep, Sets
  <2>3. tab'[t].pc \in Busy => \/ tab[t].pc \in Busy
                               \/ \A u \in Tabs \ {t} : B(u) = B(t) => tab[u].pc \notin Busy
    <3>1. CASE Login(t) \/ Refresh(t)
      <4>1. Beside(t) = {}
        BY <3>1 DEF Login, Refresh, Cross
      <4>. QED
        BY <4>1, AloneBeside
    <3>2. ASSUME NEW kind \in {"call", "logout"}, Call(t, kind)
          PROVE  tab'[t].pc \in Busy => Beside(t) = {}
      <4>1. CASE store[B(t)] # NoToken /\ ~stale[B(t)]
        BY <3>2, <4>1 DEF Call, Cross
      <4>2. CASE ~(store[B(t)] # NoToken /\ ~stale[B(t)])
        <5>1. tab'[t].pc = "refused"
          BY <3>2, <4>2 DEF Call, TypeOK, TokensTyped, TabsTyped
        <5>. QED
          BY <5>1 DEF Busy
      <4>. QED
        BY <4>1, <4>2
    <3>3. CASE \/ Check(t) \/ Rotate(t) \/ SetTokens(t) \/ Leave(t) \/ Lose(t)
      BY <3>3 DEF Check, Rotate, SetTokens, Leave, Lose, Is, Busy
    <3>. QED
      BY <1>2, <3>1, <3>2, <3>3, AloneBeside DEF TabStep
  <2>4. \A u, v \in Tabs : /\ B(u)' = B(v)' /\ tab'[u].pc \in Busy /\ tab'[v].pc \in Busy
                           => u = v
    BY <1>t, <2>1, <2>2, <2>3
  <2>5. \A u \in Tabs \ {t} : tab[u].pc \in {"asked", "checked"} => store'[B(u)] = store[B(u)]
    <3>1. CASE store' = store
      BY <3>1
    <3>2. CASE SetTokens(t) \/ Leave(t)
      <4>1. tab[t].pc \in Busy /\ \A b \in Browsers \ {B(t)} : store'[b] = store[b]
        BY <1>t, <3>2 DEF SetTokens, Leave, Is, Busy
      <4>. QED
        BY <1>t, <2>1, <4>1 DEF Busy
    <3>. QED
      BY <1>2, <3>1, <3>2 DEF TabStep, Login, Refresh, Check, Rotate, Lose, Call
  <2>6. tab'[t].pc \in {"asked", "checked"} => tab'[t].token = store'[B(t)]
    <3>1. CASE Refresh(t)
      BY <3>1, TabSteps DEF Sets, Refresh
    <3>2. CASE Check(t)
      BY <2>1, <3>2, TabSteps DEF Sets, Check, Is
    <3>3. CASE ~Refresh(t) /\ ~Check(t)
      BY <1>2, <3>3, TabSteps DEF Sets, TabStep
    <3>. QED
      BY <3>1, <3>2, <3>3
  <2>. QED
    BY <1>t, <2>1, <2>2, <2>4, <2>5, <2>6
<1>. QED
  BY <1>1, <1>2, SessionSteps

\* A tab that has just been granted a token, and one that stores it.
LEMMA OneHolderStep ==
  ASSUME TypeOK, TypeOK', OneHolder, SessionNext, ~twin'
  PROVE  OneHolder'
<1>. USE DEF OneHolder, Granted
<1>t. /\ store \in [Browsers -> issued \cup {NoToken}] /\ issued \subseteq Nat /\ NoToken \notin Nat
      /\ clock \in Nat /\ \A t \in Tabs : B(t) \in Browsers /\ tab[t].token \in issued \cup {NoToken}
  BY TabsAssumption, BoundsAssumption DEF TypeOK, TokensTyped, TabsTyped, B
<1>1. CASE Still
  BY <1>1, StillSteps
<1>2. ASSUME NEW t \in Tabs, Login(t) \/ Rotate(t) PROVE OneHolder'
  <2>1. clock \notin issued /\ store' = store
    BY <1>2 DEF Login, Rotate, Issue
  <2>2. /\ \A u \in Tabs \ {t} : tab'[u] = tab[u]
        /\ tab'[t].pc = "granted" /\ tab'[t].token = clock
    BY <1>2, TabSteps DEF Sets
  <2>. QED
    BY <1>t, <2>1, <2>2
<1>3. ASSUME NEW t \in Tabs, SetTokens(t) PROVE OneHolder'
  <2>1. /\ tab[t].pc = "granted" /\ store' = [store EXCEPT ![B(t)] = tab[t].token]
    BY <1>3 DEF SetTokens, Is, Kept
  <2>2. tab'[t].pc # "granted" /\ \A u \in Tabs \ {t} : tab'[u] = tab[u]
    BY <1>3, TabSteps DEF Sets
  <2>3. store'[B(t)] = tab[t].token /\ \A b \in Browsers \ {B(t)} : store'[b] = store[b]
    BY <1>t, <2>1
  <2>. QED
    BY <1>t, <2>1, <2>2, <2>3
<1>4. ASSUME NEW t \in Tabs, Leave(t) PROVE OneHolder'
  <2>1. /\ store'[B(t)] = NoToken /\ \A b \in Browsers \ {B(t)} : store'[b] = store[b]
    BY <1>t, <1>4 DEF Leave
  <2>2. tab'[t].pc # "granted" /\ \A u \in Tabs \ {t} : tab'[u] = tab[u]
    BY <1>4, TabSteps DEF Sets
  <2>3. \A u \in Tabs : tab[u].pc = "granted" => tab[u].token # NoToken
    BY DEF TypeOK, TokensTyped, TabsTyped
  <2>. QED
    BY <1>t, <2>1, <2>2, <2>3
<1>5. ASSUME NEW t \in Tabs, \/ Refresh(t) \/ Check(t) \/ Lose(t)
                             \/ \E kind \in {"call", "logout"} : Call(t, kind)
      PROVE  OneHolder'
  <2>1. store' = store
    BY <1>5 DEF Refresh, Check, Lose, Call
  <2>2. tab'[t].pc # "granted" /\ \A u \in Tabs \ {t} : tab'[u] = tab[u]
    BY <1>5, TabSteps DEF Sets
  <2>. QED
    BY <2>1, <2>2
<1>. QED
  BY <1>1, <1>2, <1>3, <1>4, <1>5, SessionSteps DEF TabStep

\* A revoked token is replaced before anyone asks with it again.
LEMMA RevokedStep ==
  ASSUME TypeOK, TypeOK', TabKinds, OneAtATime, OneAtATime', OneHolder, RevokedIsReplaced,
         SessionNext, ~twin', faults' = 0
  PROVE  RevokedIsReplaced'
<1>t. /\ store \in [Browsers -> issued \cup {NoToken}] /\ issued \subseteq Nat /\ NoToken \notin Nat
      /\ clock \in Nat /\ revoked \subseteq issued /\ ended \subseteq revoked
      /\ \A t \in Tabs : /\ B(t) \in Browsers /\ B(t)' = B(t) /\ tab[t].token \in issued \cup {NoToken}
                         /\ tab[t].pc \in {"asked", "checked", "granted"} => tab[t].token # NoToken
  BY TabsAssumption, BoundsAssumption DEF TypeOK, TokensTyped, TabsTyped, B
<1>. USE DEF RevokedIsReplaced, Renewed, Granted
<1>1. CASE Still
  <2>1. UNCHANGED <<store, tab>>
    BY <1>1, StillSteps
  <2>2. \/ UNCHANGED <<revoked, ended>>
        \/ \E k : revoked' = revoked \cup {k} /\ ended' = ended \cup {k}
    BY <1>1 DEF Still, Tick, Expire, Logout, tokens
  <2>. QED
    BY <1>t, <2>1, <2>2
<1>2. ASSUME NEW t \in Tabs, Login(t) PROVE RevokedIsReplaced'
  <2>1. clock \notin issued /\ UNCHANGED <<store, revoked, ended>> /\ tab[t].pc = "idle"
    BY <1>2 DEF Login, Issue, Is
  <2>2. /\ \A u \in Tabs \ {t} : tab'[u] = tab[u]
        /\ tab'[t].pc = "granted" /\ tab'[t].token = clock
    BY <1>2, TabSteps DEF Sets
  <2>. QED
    BY <1>t, <2>1, <2>2
<1>3. ASSUME NEW t \in Tabs, Rotate(t) PROVE RevokedIsReplaced'
  <2>1. /\ clock \notin issued /\ UNCHANGED <<store, ended>> /\ tab[t].pc = "checked"
        /\ revoked' = revoked \cup {tab[t].token}
    BY <1>3 DEF Rotate, Issue, Is, Spent
  <2>2. /\ \A u \in Tabs \ {t} : tab'[u] = tab[u]
        /\ tab'[t].pc = "granted" /\ tab'[t].token = clock /\ tab'[t].kind # "login"
    BY <1>3, <2>1, TabSteps DEF Sets, TabKinds
  <2>3. tab[t].token = store[B(t)] /\ tab[t].token # NoToken /\ tab[t].token \in issued
    BY <1>t, <2>1 DEF OneAtATime
  <2>4. \A u \in Tabs \ {t} : tab[u].pc \in {"asked", "checked", "granted"} =>
                                tab[u].token # tab[t].token
    BY <1>t, <2>1, <2>3 DEF OneAtATime, OneHolder, Busy
  <2>5. \A b \in Browsers \ {B(t)} : store[b] # tab[t].token
    BY <1>t, <2>3 DEF OneHolder
  <2>. QED
    BY <1>t, <2>1, <2>2, <2>3, <2>4, <2>5
<1>4. ASSUME NEW t \in Tabs, SetTokens(t) PROVE RevokedIsReplaced'
  <2>1. /\ tab[t].pc = "granted" /\ store' = [store EXCEPT ![B(t)] = tab[t].token]
        /\ UNCHANGED <<revoked, ended>>
    BY <1>4 DEF SetTokens, Is, Kept, tokens
  <2>2. tab'[t].pc \in {"idle", "leaving"} /\ \A u \in Tabs \ {t} : tab'[u] = tab[u]
    BY <1>4, TabSteps DEF Sets
  <2>3. store'[B(t)] = tab[t].token /\ \A b \in Browsers \ {B(t)} : store'[b] = store[b]
    BY <1>t, <2>1
  <2>. QED
    BY <1>t, <2>1, <2>2, <2>3
<1>5. ASSUME NEW t \in Tabs, Leave(t) PROVE RevokedIsReplaced'
  <2>1. /\ store'[B(t)] = NoToken /\ \A b \in Browsers \ {B(t)} : store'[b] = store[b]
        /\ UNCHANGED <<revoked, ended>> /\ tab[t].pc \in {"leaving", "denied"}
    BY <1>t, <1>5 DEF Leave, tokens, Is
  <2>2. tab'[t].pc = "idle" /\ \A u \in Tabs \ {t} : tab'[u] = tab[u]
    BY <1>5, TabSteps DEF Sets
  <2>3. ASSUME NEW b \in Browsers, store'[b] \in revoked
        PROVE  store'[b] \in ended \/ \E u \in Tabs : B(u) = b /\ tab'[u].pc = "granted" /\ tab'[u].kind # "login"
    <3>1. b # B(t) /\ store[b] \in revoked /\ store'[b] = store[b]
      BY <1>t, <2>1, <2>3
    <3>2. CASE store[b] \in ended
      BY <3>1, <3>2
    <3>3. CASE \E u \in Tabs : B(u) = b /\ tab[u].pc = "granted" /\ tab[u].kind # "login"
      BY <2>1, <2>2, <3>3
    <3>. QED
      BY <3>1, <3>2, <3>3
  <2>. QED
    BY <1>t, <2>1, <2>2, <2>3
<1>6. ASSUME NEW t \in Tabs, Refresh(t) PROVE RevokedIsReplaced'
  <2>1. UNCHANGED <<store, revoked, ended>> /\ tab[t].pc = "refused"
    BY <1>6 DEF Refresh, tokens, Is
  <2>2. /\ \A u \in Tabs \ {t} : tab'[u] = tab[u]
        /\ tab'[t].token = store[B(t)]
        /\ tab'[t].pc = "asked" \/ (tab'[t].pc = "denied" /\ tab'[t].token = NoToken)
    BY <1>6, TabSteps DEF Sets
  <2>3. CASE tab'[t].pc = "asked"
    <3>1. \A u \in Tabs : B(u) = B(t) => ~Granted(u)
      <4>1. ASSUME NEW u \in Tabs, B(u) = B(t), Granted(u) PROVE FALSE
        <5>1. tab'[u].pc = "granted" /\ u # t
          BY <2>1, <2>2, <4>1
        <5>. QED
          BY <1>t, <2>3, <4>1, <5>1 DEF OneAtATime, Busy
      <4>. QED
        BY <4>1
    <3>. QED
      BY <1>t, <2>1, <2>2, <2>3, <3>1
  <2>4. CASE tab'[t].pc = "denied" /\ tab'[t].token = NoToken
    BY <1>t, <2>1, <2>2, <2>4
  <2>. QED
    BY <2>2, <2>3, <2>4
<1>7. ASSUME NEW t \in Tabs, Check(t) PROVE RevokedIsReplaced'
  <2>1. UNCHANGED <<store, revoked, ended>> /\ tab[t].pc = "asked"
    BY <1>7 DEF Check, tokens, Is
  <2>2. /\ \A u \in Tabs \ {t} : tab'[u] = tab[u]
        /\ tab'[t].token = tab[t].token /\ tab'[t].pc \in {"denied", "checked"}
        /\ tab'[t].pc = "denied" => tab[t].token \in revoked
    BY <1>7, TabSteps DEF Sets
  <2>. QED
    BY <1>t, <2>1, <2>2
<1>8. ASSUME NEW t \in Tabs, \E kind \in {"call", "logout"} : Call(t, kind) PROVE RevokedIsReplaced'
  <2>1. UNCHANGED <<store, revoked, ended>> /\ tab[t].pc = "idle"
    BY <1>8 DEF Call, tokens, Is
  <2>2. /\ \A u \in Tabs \ {t} : tab'[u] = tab[u]
        /\ tab'[t].pc \in {"leaving", "refused"}
    BY <1>8, TabSteps DEF Sets
  <2>. QED
    BY <1>t, <2>1, <2>2
<1>9. ASSUME NEW t \in Tabs, Lose(t) PROVE RevokedIsReplaced'
  BY <1>9 DEF Lose, TypeOK
<1>. QED
  BY <1>1, <1>2, <1>3, <1>4, <1>5, <1>6, <1>7, <1>8, <1>9, SessionSteps DEF TabStep

\* No good token is dropped.
LEMMA GoodIsHeldStep ==
  ASSUME TypeOK, TypeOK', TabKinds, OneAtATime, GoodIsHeld, SessionNext, ~left', faults' = 0
  PROVE  GoodIsHeld'
<1>t. /\ store \in [Browsers -> issued \cup {NoToken}] /\ issued \subseteq Nat /\ NoToken \notin Nat
      /\ clock \in Nat /\ revoked \subseteq issued
      /\ \A t \in Tabs : B(t) \in Browsers /\ B(t)' = B(t)
  BY TabsAssumption, BoundsAssumption DEF TypeOK, TokensTyped, TabsTyped, B
<1>. USE DEF GoodIsHeld, Renewed, Granted
<1>1. CASE Still
  <2>1. UNCHANGED <<store, tab, issued>> /\ revoked \subseteq revoked'
    BY <1>1, StillSteps DEF Still, Tick, Expire, Logout, tokens
  <2>. QED
    BY <1>t, <2>1
<1>2. ASSUME NEW t \in Tabs, Login(t) PROVE GoodIsHeld'
  <2>1. UNCHANGED <<store, revoked>> /\ tab[t].pc = "idle" /\ issued' = issued \cup {clock}
    BY <1>2 DEF Login, Issue, Is
  <2>2. /\ \A u \in Tabs \ {t} : tab'[u] = tab[u]
        /\ tab'[t].pc = "granted" /\ tab'[t].token = clock /\ tab'[t].kind = "login"
    BY <1>2, TabSteps DEF Sets
  <2>3. ASSUME NEW k \in issued' \ revoked'
        PROVE  \/ \E b \in Browsers : store'[b] = k
               \/ \E u \in Tabs : tab'[u].pc = "granted" /\ tab'[u].token = k
    <3>1. CASE \E u \in Tabs : tab[u].pc = "granted" /\ tab[u].token = k
      BY <2>1, <2>2, <3>1
    <3>. QED
      BY <2>1, <2>2, <2>3, <3>1
  <2>. QED
    BY <1>t, <2>1, <2>2, <2>3
<1>3. ASSUME NEW t \in Tabs, Rotate(t) PROVE GoodIsHeld'
  <2>1. /\ store' = store /\ tab[t].pc = "checked" /\ issued' = issued \cup {clock}
        /\ revoked' = revoked \cup {tab[t].token} /\ tab[t].token = store[B(t)]
    BY <1>3 DEF Rotate, Issue, Is, Spent, OneAtATime
  <2>2. /\ \A u \in Tabs \ {t} : tab'[u] = tab[u]
        /\ tab'[t].pc = "granted" /\ tab'[t].token = clock
    BY <1>3, TabSteps DEF Sets
  <2>. QED
    BY <1>t, <2>1, <2>2
<1>4. ASSUME NEW t \in Tabs, SetTokens(t) PROVE GoodIsHeld'
  <2>1. /\ tab[t].pc = "granted" /\ store' = [store EXCEPT ![B(t)] = tab[t].token]
        /\ UNCHANGED <<revoked, issued>> /\ (tab[t].kind = "login" => store[B(t)] = NoToken)
    BY <1>4 DEF SetTokens, Is, Kept, tokens
  <2>2. tab'[t].pc \in {"idle", "leaving"} /\ \A u \in Tabs \ {t} : tab'[u] = tab[u]
    BY <1>4, TabSteps DEF Sets
  <2>3. store'[B(t)] = tab[t].token /\ \A b \in Browsers \ {B(t)} : store'[b] = store[b]
    BY <1>t, <2>1
  <2>4. store[B(t)] \in revoked \cup {NoToken}
    BY <2>1
  <2>5. \A u \in Tabs \ {t} : tab[u].pc = "granted" => B(u) # B(t)
    BY <2>1 DEF OneAtATime, Busy
  <2>6. ASSUME NEW k \in issued' \ revoked'
        PROVE  \/ \E b \in Browsers : store'[b] = k
               \/ \E u \in Tabs : tab'[u].pc = "granted" /\ tab'[u].token = k
    <3>1. CASE \E b \in Browsers : store[b] = k
      BY <1>t, <2>1, <2>3, <2>4, <2>6, <3>1
    <3>2. CASE \E u \in Tabs : tab[u].pc = "granted" /\ tab[u].token = k
      BY <1>t, <2>2, <2>3, <3>2
    <3>. QED
      BY <2>1, <2>6, <3>1, <3>2
  <2>7. \A u \in Tabs : tab'[u].pc = "granted" /\ tab'[u].kind # "login" =>
                          store'[B(u)] \in revoked' \cup {NoToken}
    BY <1>t, <2>1, <2>2, <2>3, <2>5
  <2>. QED
    BY <1>t, <2>6, <2>7
<1>5. ASSUME NEW t \in Tabs, Leave(t) PROVE GoodIsHeld'
  BY <1>5 DEF Leave
<1>6. ASSUME NEW t \in Tabs, \/ Refresh(t) \/ Check(t)
                             \/ \E kind \in {"call", "logout"} : Call(t, kind)
      PROVE  GoodIsHeld'
  <2>1. UNCHANGED <<store, issued, revoked>> /\ tab[t].pc # "granted"
    BY <1>6 DEF Refresh, Check, Call, tokens, Is
  <2>2. tab'[t].pc # "granted" /\ \A u \in Tabs \ {t} : tab'[u] = tab[u]
    BY <1>6, TabSteps DEF Sets
  <2>. QED
    BY <1>t, <2>1, <2>2
<1>7. ASSUME NEW t \in Tabs, Lose(t) PROVE GoodIsHeld'
  BY <1>7 DEF Lose, TypeOK
<1>. QED
  BY <1>1, <1>2, <1>3, <1>4, <1>5, <1>6, <1>7, SessionSteps DEF TabStep

-----------------------------------------------------------------------------
(* The invariant and the theorems                                          *)

LEMMA InitInvariant == Init => IInv
<1>. SUFFICES ASSUME Init PROVE IInv
  OBVIOUS
<1>1. TypeOK
  BY TypeInit
<1>2. \A r \in Requests : req[r].pc = "new"
  BY DEF Init, Over
<1>3. GuessInv
  BY <1>2, BoundsAssumption DEF Init, GuessInv, Counters, OneGuess, Tallied, AtEmail
<1>4. TrialNotLost /\ LimitInv
  BY <1>2, BoundsAssumption DEF Init, TrialNotLost, LimitInv, OneTrial, OneAgentAtATime, AtEmail
<1>5. SessionInv
  BY DEF Init, SessionInv, TabKinds, OneAtATime, OneHolder, RevokedIsReplaced, GoodIsHeld,
     Granted, Renewed, Busy
<1>. QED
  BY <1>1, <1>3, <1>4, <1>5 DEF IInv

\* The two parts of the module share the faults alone, and these only grow.
LEMMA RegistrationStep ==
  ASSUME IInv, RegistrationNext, UNCHANGED <<part, sesVars>>
  PROVE  IInv'
<1>1. TypeOK /\ TypeOK'
  BY RequestTypeStep DEF IInv
<1>2. GuessInv'
  BY <1>1, CountersStep, TallyStep DEF IInv, GuessInv
<1>3. TrialNotLost'
  BY <1>1, TrialStep DEF IInv
<1>4. LimitInv'
  BY <1>1, OneTrialStep, OneAgentStep DEF IInv, LimitInv
<1>5. SessionInv'
  <2>1. UNCHANGED <<issued, revoked, ended, store, tab, crossed, twin, left>>
    BY DEF sesVars, tokens
  <2>2. faults' = 0 => faults = 0
    <3>1. faults' = faults \/ faults' = faults + 1
      BY DEF RegistrationNext, Fail
    <3>. QED
      BY <1>1, <3>1 DEF TypeOK
  <2>3. /\ TabKinds' <=> TabKinds
        /\ OneAtATime' <=> OneAtATime
        /\ OneHolder' <=> OneHolder
        /\ RevokedIsReplaced' <=> RevokedIsReplaced
        /\ GoodIsHeld' <=> GoodIsHeld
    BY <2>1 DEF TabKinds, OneAtATime, OneHolder, RevokedIsReplaced, GoodIsHeld, Renewed,
       Granted, Busy, B
  <2>. QED
    BY <2>1, <2>2, <2>3 DEF IInv, SessionInv
<1>. QED
  BY <1>1, <1>2, <1>3, <1>4, <1>5 DEF IInv

LEMMA MoreFaults ==
  ASSUME NEW f \in Nat, NEW g \in Nat, f <= g, NEW n \in Nat, NEW m \in Nat
  PROVE  /\ n <= m + f => n <= m + g
         /\ n <= m + 1 + f => n <= m + 1 + g
  OBVIOUS

LEMMA SessionStep ==
  ASSUME IInv, SessionNext, UNCHANGED <<part, regVars>>
  PROVE  IInv'
<1>1. TypeOK /\ TypeOK'
  BY SessionTypeStep DEF IInv
<1>2. /\ UNCHANGED <<otp, attempts, wrong, account, agents, req, races>>
      /\ faults' = faults \/ faults' = faults + 1
  BY SessionSteps, StillSteps
     DEF regVars, codes, TabStep, Login, Refresh, Check, Rotate, SetTokens, Leave, Lose, Call
<1>3. faults \in Nat /\ faults' \in Nat /\ faults <= faults' /\ (faults' = 0 => faults = 0)
  BY <1>1, <1>2 DEF TypeOK
<1>4. GuessInv'
  <2>1. Counters' /\ (OneGuess' <=> OneGuess)
    BY <1>2 DEF IInv, GuessInv, Counters, OneGuess, AtEmail
  <2>2. ASSUME Tallied PROVE Tallied'
    <3>1. /\ attempts \in [Emails -> Nat] /\ wrong \in [Emails -> Nat]
          /\ \A r \in Requests : req[r].seen \in Nat
      BY <1>1 DEF TypeOK, CodesTyped, RequestsTyped, RequestRecords
    <3>2. \A e \in Emails : TalliedAt(e)
      BY <2>2 DEF Tallied, TalliedAt, Fresh
    <3>3. SUFFICES ASSUME NEW e \in Emails PROVE TalliedAt(e)'
      BY DEF Tallied, TalliedAt, Fresh
    <3>4. \A n, m \in Nat : n <= m + faults => n <= m + faults'
      BY <1>3, MoreFaults
    <3>5. \A n, m \in Nat : n <= m + 1 + faults => n <= m + 1 + faults'
      BY <1>3, MoreFaults
    <3>. QED
      BY <1>2, <3>1, <3>2, <3>4, <3>5 DEF TalliedAt, AtEmail
  <2>. QED
    BY <1>2, <2>1, <2>2 DEF IInv, GuessInv
<1>5. TrialNotLost' /\ LimitInv'
  BY <1>2, <1>3 DEF IInv, TrialNotLost, LimitInv, OneTrial, OneAgentAtATime, AtEmail
<1>6. SessionInv'
  <2>1. TabKinds /\ TabKinds'
    BY <1>1, TabKindsStep DEF IInv, SessionInv
  <2>2. ~crossed' => OneAtATime' /\ ~crossed /\ OneAtATime
    BY <1>1, OneAtATimeStep DEF IInv, SessionInv
  <2>3. (~twin' => ~twin) /\ (~left' => ~left)
    <3>1. CASE Still
      BY <3>1, StillSteps
    <3>2. ASSUME NEW t \in Tabs, TabStep(t) PROVE ~twin' => ~twin
      BY <3>2 DEF TabStep, Login, Refresh, Check, Rotate, SetTokens, Leave, Lose, Call, Issue
    <3>3. ASSUME NEW t \in Tabs, TabStep(t) PROVE ~left' => ~left
      BY <3>3 DEF TabStep, Login, Refresh, Check, Rotate, SetTokens, Leave, Lose, Call, Issue
    <3>. QED
      BY <3>1, <3>2, <3>3, SessionSteps
  <2>4. ASSUME ~crossed', ~twin', faults' = 0 PROVE OneHolder' /\ RevokedIsReplaced'
    <3>1. OneHolder /\ RevokedIsReplaced /\ OneAtATime /\ OneAtATime'
      BY <1>3, <2>2, <2>3, <2>4 DEF IInv, SessionInv
    <3>. QED
      BY <1>1, <2>1, <2>4, <3>1, OneHolderStep, RevokedStep
  <2>5. ASSUME ~crossed', ~left', faults' = 0 PROVE GoodIsHeld'
    <3>1. GoodIsHeld /\ OneAtATime
      BY <1>3, <2>2, <2>3, <2>5 DEF IInv, SessionInv
    <3>. QED
      BY <1>1, <2>1, <2>5, <3>1, GoodIsHeldStep
  <2>. QED
    BY <2>1, <2>2, <2>4, <2>5 DEF SessionInv
<1>. QED
  BY <1>1, <1>4, <1>5, <1>6 DEF IInv

LEMMA InvariantStep == IInv /\ [Next]_vars => IInv'
<1>1. ASSUME IInv, Next PROVE IInv'
  BY <1>1, RegistrationStep, SessionStep DEF Next
<1>2. ASSUME IInv, UNCHANGED vars PROVE IInv'
  <2>1. /\ UNCHANGED <<part, otp, attempts, cooldown, account, agents, req, wrong, races, faults>>
        /\ UNCHANGED <<clock, issued, revoked, ended, store, stale, tab, crossed, twin, left>>
    BY <1>2 DEF vars, regVars, codes, sesVars, tokens
  <2>2. TypeOK'
    BY <1>2, <2>1 DEF IInv, TypeOK, CodesTyped, AccountsTyped, RequestsTyped, TokensTyped, TabsTyped
  <2>3. GuessInv' /\ TrialNotLost' /\ LimitInv'
    BY <1>2, <2>1 DEF IInv, GuessInv, Counters, OneGuess, Tallied, TrialNotLost, LimitInv,
       OneTrial, OneAgentAtATime, AtEmail
  <2>4. SessionInv'
    BY <1>2, <2>1 DEF IInv, SessionInv, TabKinds, OneAtATime, OneHolder, RevokedIsReplaced,
       GoodIsHeld, Renewed, Granted, Busy, B
  <2>. QED
    BY <2>2, <2>3, <2>4 DEF IInv
<1>. QED
  BY <1>1, <1>2

\* The inductive invariant holds of every behaviour.
THEOREM InvariantHolds == Spec => []IInv
BY InitInvariant, InvariantStep, PTL DEF Spec

\* Every variable keeps its type: the counters of Redis are numbers, a request
\* under way is about an address, a token a browser stores was issued, and only
\* issued tokens are revoked.
THEOREM TypeCorrect == Spec => []TypeOK
<1>1. IInv => TypeOK
  BY DEF IInv
<1>. QED
  BY <1>1, InvariantHolds, PTL

\* assertRegisterOtpValid bounds the wrong guesses at a code, whatever other
\* requests of the same and other addresses do in between.
THEOREM GuessesAreCounted == Spec => []GuessesCounted
<1>1. ASSUME IInv PROVE GuessesCounted
  <2>1. SUFFICES ASSUME "guess" \notin races, NEW e \in Emails, otp[e]
                 PROVE  wrong[e] <= MaxAttempts + faults
    BY DEF GuessesCounted
  <2>2. OneGuess /\ Tallied /\ Counters
    BY <1>1, <2>1 DEF IInv, GuessInv
  <2>3. /\ attempts[e] \in Nat /\ wrong[e] \in Nat /\ faults \in Nat /\ MaxAttempts \in Nat
        /\ \A r \in Requests : req[r].seen \in Nat
    BY <1>1, BoundsAssumption DEF IInv, TypeOK, CodesTyped, RequestsTyped, RequestRecords
  <2>4. CASE \E r \in Requests : AtEmail(r, e, {"missed"})
    <3>1. PICK r \in Requests : AtEmail(r, e, {"missed"})
      BY <2>4
    <3>2. wrong[e] <= req[r].seen + 1 + faults /\ req[r].seen + 1 <= MaxAttempts
      BY <2>1, <2>2, <3>1 DEF Tallied, Counters, AtEmail
    <3>. QED
      BY <2>3, <3>2
  <2>5. CASE \A r \in Requests : ~AtEmail(r, e, {"missed"})
    <3>1. wrong[e] <= attempts[e] + faults /\ attempts[e] <= MaxAttempts
      BY <2>1, <2>2, <2>5 DEF Tallied, Counters
    <3>. QED
      BY <2>3, <3>1
  <2>. QED
    BY <2>4, <2>5
<1>. QED
  BY <1>1, InvariantHolds, PTL

\* An account without a trial is about to get one or was refused it, unless a
\* fault came between the two writes.
THEOREM TrialIsNotLost == Spec => []TrialNotLost
<1>1. IInv => TrialNotLost
  BY DEF IInv
<1>. QED
  BY <1>1, InvariantHolds, PTL

\* One trial for a mailbox and maxAgents agents for an account, while no two
\* requests have read before either wrote.
THEOREM PlanLimitsAlwaysHold == Spec => []PlanLimitsHold
<1>1. ASSUME IInv PROVE PlanLimitsHold
  <2>. DEFINE trials == {e \in Emails : account[e] = "trial"}
  <2>1. ASSUME "trial" \notin races PROVE Cardinality(trials) <= 1
    <3>1. \A e, f \in trials : e = f
      BY <1>1, <2>1 DEF IInv, LimitInv, OneTrial
    <3>. HIDE DEF trials
    <3>2. CASE trials = {}
      BY <3>2, FS_EmptySet
    <3>3. CASE trials # {}
      <4>1. PICK e : trials = {e}
        BY <3>1, <3>3
      <4>. QED
        BY <4>1, FS_Singleton
    <3>. QED
      BY <3>2, <3>3
  <2>2. "add" \notin races => \A e \in Emails : agents[e] <= MaxAgents
    BY <1>1 DEF IInv, LimitInv, OneAgentAtATime
  <2>. QED
    BY <2>1, <2>2 DEF PlanLimitsHold
<1>. QED
  BY <1>1, InvariantHolds, PTL

\* A browser whose token nobody has logged out is not refused a renewal, for any
\* number of browsers of the account and of tabs that renew one after the other.
THEOREM SessionIsKept == Spec => []SessionKept
<1>1. IInv => SessionKept
  BY DEF IInv, SessionInv, RevokedIsReplaced, SessionKept
<1>. QED
  BY <1>1, InvariantHolds, PTL

\* Renewing leaves no good refresh token behind.
THEOREM RotationLeavesNothing == Spec => []RotationLeavesNone
<1>1. IInv => RotationLeavesNone
  BY DEF IInv, SessionInv, GoodIsHeld, Granted, RotationLeavesNone
<1>. QED
  BY <1>1, InvariantHolds, PTL
=============================================================================
