------------------------------ MODULE Accounts ------------------------------
(***************************************************************************)
(* How an account comes to be (the code sent by mail, registration, Google,*)
(* the trial, its agents) and how its sessions in the browser are renewed  *)
(* and left. The two share nothing but the row of the account, which the   *)
(* second only needs to be there: a behaviour is about one of them (part). *)
(* All addresses here are spellings of one mailbox (normalizeTrialEmail),  *)
(* all sessions those of one account.                                      *)
(***************************************************************************)
EXTENDS Naturals, FiniteSets

CONSTANTS
  Emails, Requests,   \* addresses; requests, each made once
  MaxAttempts,        \* otp.registerMaxAttempts
  MaxAgents,          \* the plan's maxAgents
  Browsers, Tabs, BrowserOf,
  NoEmail, NoToken,
  MaxClock,           \* bound: seconds told apart
  MaxFaults           \* bound: statements and messages lost

ASSUME TabsAssumption   == BrowserOf \in [Tabs -> Browsers]
ASSUME BoundsAssumption == /\ {MaxAttempts, MaxAgents} \subseteq Nat \ {0}
                           /\ {MaxClock, MaxFaults} \subseteq Nat
                           /\ NoToken \notin Nat /\ NoEmail \notin Emails

VARIABLES
  part,      \* "registration" or "sessions"
  otp,       \* [Emails -> is there a code in Redis]
  attempts,  \* [Emails -> the counter in Redis]
  cooldown,  \* [Emails -> is a new code refused for now]
  account,   \* [Emails -> "none", "created", then "trial" once the trial began]
  agents,    \* [Emails -> agents of the account]
  req,       \* [Requests -> the request and how far it is]
  wrong,     \* history: [Emails -> wrong guesses at the code in Redis]
  races,     \* history: the kinds of request two of which have overlapped
  clock,     \* the second it is
  issued,    \* refresh tokens issued: a token is told by its second alone
  revoked,   \* tokens on the blacklist
  ended,     \* tokens a client has handed to POST /auth/logout
  store,     \* [Browsers -> the refresh token in its localStorage]
  stale,     \* [Browsers -> has the access token beside it expired]
  tab,       \* [Tabs -> how far it is with renewing or leaving]
  crossed,   \* history: have two tabs of a browser renewed or left at a time
  twin,      \* history: has a second issued the same token twice
  left,      \* history: has a browser dropped a token
  faults

codes    == <<otp, attempts, cooldown, wrong>>
regVars  == <<codes, account, agents, req, races>>
tokens   == <<issued, revoked, ended>>
sesVars  == <<clock, tokens, store, stale, tab, crossed, twin, left>>
vars     == <<part, regVars, sesVars, faults>>

Over == [kind |-> "send", pc |-> "over", email |-> NoEmail, seen |-> 0]

Init ==
  /\ part \in {"registration", "sessions"}
  /\ attempts = [e \in Emails |-> 0] /\ agents = attempts /\ wrong = attempts
  /\ otp = [e \in Emails |-> FALSE] /\ cooldown = otp /\ account = [e \in Emails |-> "none"]
  /\ req = [r \in Requests |-> [Over EXCEPT !.pc = "new"]]
  /\ races = {}
  /\ clock = 0 /\ issued = {} /\ revoked = {} /\ ended = {}
  /\ store = [b \in Browsers |-> NoToken] /\ stale = [b \in Browsers |-> FALSE]
  /\ tab = [t \in Tabs |-> [pc |-> "idle", kind |-> "call", token |-> NoToken]]
  /\ crossed = FALSE /\ twin = FALSE /\ left = FALSE
  /\ faults = 0

-----------------------------------------------------------------------------
(* Registration *)

At(r, pc) == part = "registration" /\ req[r].pc = pc
Go(r, pc) == req' = [req EXCEPT ![r] = IF pc = "over" THEN Over ELSE [@ EXCEPT !.pc = pc]]
Others(r, pcs) == {q \in Requests \ {r} : req[q].email = req[r].email /\ req[q].pc \in pcs}
Race(kind, r, pcs) == races' = races \cup {k \in {kind} : Others(r, pcs) # {}}

Receive(r, kind, e) ==
  /\ At(r, "new")
  /\ req' = [req EXCEPT ![r] = [@ EXCEPT !.kind = kind, !.email = e, !.pc = kind]]
  /\ UNCHANGED <<codes, account, agents, races>>

\* sendRegisterOtp: refused for a known address and during the cooldown.
Send(r) ==
  LET e == req[r].email IN
  /\ At(r, "send")
  /\ IF account[e] # "none" \/ cooldown[e] THEN Go(r, "over") ELSE Go(r, "mailing")
  /\ UNCHANGED <<codes, account, agents, races>>

\* The mail goes out before anything is recorded.
Mail(r) ==
  /\ At(r, "mailing") /\ Go(r, "setting")
  /\ UNCHANGED <<codes, account, agents, races>>

SetOtp(r) ==
  LET e == req[r].email IN
  /\ At(r, "setting") /\ Go(r, "cooling")
  /\ otp' = [otp EXCEPT ![e] = TRUE] /\ wrong' = [wrong EXCEPT ![e] = 0]
  /\ UNCHANGED <<attempts, cooldown, account, agents, races>>

SetCooldown(r) ==
  LET e == req[r].email IN
  /\ At(r, "cooling") /\ Go(r, "clearing")
  /\ cooldown' = [cooldown EXCEPT ![e] = TRUE]
  /\ UNCHANGED <<otp, attempts, wrong, account, agents, races>>

DelAttempts(r) ==
  /\ At(r, "clearing") /\ Go(r, "over")
  /\ attempts' = [attempts EXCEPT ![req[r].email] = 0]
  /\ UNCHANGED <<otp, cooldown, wrong, account, agents, races>>

\* The time-outs of the keys. The counter is written after the code and with
\* the same time to live: it outlives it.
Lapse(e) ==
  /\ part = "registration"
  /\ \/ cooldown[e] /\ cooldown' = [cooldown EXCEPT ![e] = FALSE] /\ UNCHANGED <<otp, attempts>>
     \/ ~cooldown[e] /\ otp[e] /\ otp' = [otp EXCEPT ![e] = FALSE]
        /\ UNCHANGED <<cooldown, attempts>>
     \/ ~otp[e] /\ attempts[e] # 0 /\ attempts' = [attempts EXCEPT ![e] = 0]
        /\ UNCHANGED <<cooldown, otp>>
  /\ UNCHANGED <<wrong, account, agents, req, races>>

\* assertRegisterOtpValid: the code is read, then the counter, then compared.
GetOtp(r) ==
  LET e == req[r].email IN
  /\ At(r, "register")
  /\ IF otp[e] THEN Go(r, "counting") ELSE Go(r, "over")
  /\ UNCHANGED <<codes, account, agents, races>>

\* Mutant of Exhausted: one guess too many is compared.
ExhaustedLate(n) == n > MaxAttempts
Exhausted(n) == n >= MaxAttempts

GetAttempts(r) ==
  LET e == req[r].email IN
  /\ At(r, "counting")
  /\ \/ Exhausted(attempts[e]) /\ Go(r, "over") /\ UNCHANGED wrong
     \/ ~Exhausted(attempts[e]) /\ Go(r, "spending") /\ UNCHANGED wrong
     \/ /\ ~Exhausted(attempts[e]) /\ wrong' = [wrong EXCEPT ![e] = @ + 1]
        /\ req' = [req EXCEPT ![r] = [@ EXCEPT !.pc = "missed", !.seen = attempts[e]]]
  /\ Race("guess", r, {"missed", "cooling", "clearing", "forgetting"})
  /\ UNCHANGED <<otp, attempts, cooldown, account, agents>>

Miss(r) ==
  /\ At(r, "missed") /\ Go(r, "over")
  /\ attempts' = [attempts EXCEPT ![req[r].email] = req[r].seen + 1]
  /\ UNCHANGED <<otp, cooldown, wrong, account, agents, races>>

Spend(r) ==
  LET e == req[r].email IN
  /\ \/ At(r, "spending") /\ Go(r, "forgetting")
        /\ otp' = [otp EXCEPT ![e] = FALSE] /\ UNCHANGED attempts
     \/ At(r, "forgetting") /\ Go(r, "creating")
        /\ attempts' = [attempts EXCEPT ![e] = 0] /\ UNCHANGED otp
  /\ UNCHANGED <<cooldown, wrong, account, agents, races>>

\* loginWithGoogle: an account there is is linked and logged in, without a
\* look at its trial.
Google(r) ==
  /\ At(r, "google")
  /\ IF account[req[r].email] = "none" THEN Go(r, "creating") ELSE Go(r, "over")
  /\ UNCHANGED <<codes, account, agents, races>>

\* Mutant of NextAfterCreate: an account made with Google starts no trial.
NextByMail(kind) == IF kind = "google" THEN "over" ELSE "trial"
NextAfterCreate(kind) == "trial"

\* The address is unique: of two creations one throws.
Create(r) ==
  LET e == req[r].email IN
  /\ At(r, "creating")
  /\ IF account[e] # "none" THEN Go(r, "over") /\ UNCHANGED account
     ELSE account' = [account EXCEPT ![e] = "created"] /\ Go(r, NextAfterCreate(req[r].kind))
  /\ UNCHANGED <<codes, agents, races>>

TrialTaken(e) == \E f \in Emails : account[f] = "trial"

\* startTrial: the trials of the mailbox are read, then this one recorded.
AssertTrial(r) ==
  /\ At(r, "trial")
  /\ IF TrialTaken(req[r].email) THEN Go(r, "over") ELSE Go(r, "starting")
  /\ races' = races \cup {k \in {"trial"} : \E q \in Requests \ {r} : req[q].pc = "starting"}
  /\ UNCHANGED <<codes, account, agents>>

StartTrial(r) ==
  /\ At(r, "starting") /\ Go(r, "over")
  /\ account' = [account EXCEPT ![req[r].email] = "trial"]
  /\ UNCHANGED <<codes, agents, races>>

\* Mutant of LimitReached: the limit is passed by one.
LimitPassed(n) == n > MaxAgents
LimitReached(n) == n >= MaxAgents

\* AgentsService.create: assertCanAddAgent counts, then the row is inserted.
CountAgents(r) ==
  LET e == req[r].email IN
  /\ At(r, "add")
  /\ IF account[e] # "trial" \/ LimitReached(agents[e]) THEN Go(r, "over") ELSE Go(r, "adding")
  /\ Race("add", r, {"adding"})
  /\ UNCHANGED <<codes, account, agents>>

AddAgent(r) ==
  /\ At(r, "adding") /\ Go(r, "over")
  /\ agents' = [agents EXCEPT ![req[r].email] = @ + 1]
  /\ UNCHANGED <<codes, account, races>>

\* A statement, the mail or the process fails: the request ends where it is.
Fail(r) ==
  /\ part = "registration" /\ req[r].pc \notin {"new", "over"}
  /\ faults < MaxFaults /\ faults' = faults + 1 /\ Go(r, "over")
  /\ UNCHANGED <<codes, account, agents, races>>

RequestStep(r) ==
  \/ Send(r) \/ Mail(r) \/ SetOtp(r) \/ SetCooldown(r) \/ DelAttempts(r)
  \/ GetOtp(r) \/ GetAttempts(r) \/ Miss(r) \/ Spend(r) \/ Google(r)
  \/ Create(r) \/ AssertTrial(r) \/ StartTrial(r) \/ CountAgents(r) \/ AddAgent(r)

RegistrationNext ==
  \/ /\ \/ \E r \in Requests : \/ RequestStep(r)
                               \/ \E e \in Emails, kind \in {"send", "register", "google", "add"} :
                                    Receive(r, kind, e)
        \/ \E e \in Emails : Lapse(e)
     /\ UNCHANGED faults
  \/ \E r \in Requests : Fail(r)

-----------------------------------------------------------------------------
(* Sessions: every tab runs apiFetch and its refreshPromise over the tokens *)
(* its browser stores                                                       *)

Is(t, pc) == part = "sessions" /\ tab[t].pc = pc
To(t, pc) == tab' = [tab EXCEPT ![t].pc = pc]
B(t)      == BrowserOf[t]
Beside(t) == {u \in Tabs \ {t} : B(u) = B(t)
                 /\ tab[u].pc \in {"asked", "checked", "granted", "leaving", "denied"}}
Cross(t)  == crossed' = (crossed \/ Beside(t) # {})

\* generateTokens: the same account and the same second make the same token.
Issue ==
  /\ issued' = issued \cup {clock}
  /\ twin' = (twin \/ clock \in issued)

Tick ==
  /\ part = "sessions" /\ clock < MaxClock /\ clock' = clock + 1
  /\ UNCHANGED <<tokens, store, stale, tab, crossed, twin, left, faults>>

\* An access token is issued with the refresh token and lives shorter.
Expire(b) ==
  /\ part = "sessions" /\ store[b] # NoToken /\ store[b] < clock /\ ~stale[b]
  /\ stale' = [stale EXCEPT ![b] = TRUE]
  /\ UNCHANGED <<clock, tokens, store, tab, crossed, twin, left, faults>>

\* A login, with a password or with Google, on a page that may have been open
\* since before another tab logged in.
Login(t) ==
  /\ Is(t, "idle") /\ Issue /\ Cross(t)
  /\ tab' = [tab EXCEPT ![t] = [pc |-> "granted", kind |-> "login", token |-> clock]]
  /\ UNCHANGED <<clock, revoked, ended, store, stale, left, faults>>

\* A request is sent with the access token there is; one that is accepted
\* changes nothing here, unless it is the logout.
Call(t, kind) ==
  /\ Is(t, "idle") /\ kind \in {"call", "logout"}
  /\ LET accepted == store[B(t)] # NoToken /\ ~stale[B(t)] IN
       /\ kind = "call" => ~accepted
       /\ tab' = [tab EXCEPT ![t] = [pc |-> IF accepted THEN "leaving" ELSE "refused",
                                     kind |-> kind, token |-> NoToken]]
       /\ IF accepted THEN Cross(t) ELSE UNCHANGED crossed
  /\ UNCHANGED <<clock, tokens, store, stale, twin, left, faults>>

\* The answer is 401: refreshAccessToken reads the token anew.
Refresh(t) ==
  /\ Is(t, "refused") /\ Cross(t)
  /\ tab' = [tab EXCEPT ![t] = [@ EXCEPT !.token = store[B(t)],
                                         !.pc = IF store[B(t)] = NoToken THEN "denied" ELSE "asked"]]
  /\ UNCHANGED <<clock, tokens, store, stale, twin, left, faults>>

\* AuthService.refresh reads the blacklist, and in another step writes it and
\* issues.
Check(t) ==
  /\ Is(t, "asked") /\ To(t, IF tab[t].token \in revoked THEN "denied" ELSE "checked")
  /\ UNCHANGED <<clock, tokens, store, stale, crossed, twin, left, faults>>

\* Mutant of Spent: the token a refresh is asked with stays good.
SpentNever(t) == {}
Spent(t) == {tab[t].token}

Rotate(t) ==
  /\ Is(t, "checked") /\ Issue
  /\ revoked' = revoked \cup Spent(t)
  /\ tab' = [tab EXCEPT ![t] = [@ EXCEPT !.pc = "granted", !.token = clock]]
  /\ UNCHANGED <<clock, ended, store, stale, crossed, left, faults>>

\* Mutant of Kept: after a renewal the refresh token stays the one it was.
KeptOld(t) == IF tab[t].kind = "login" THEN tab[t].token ELSE store[B(t)]
Kept(t) == tab[t].token

\* The answer: setTokens, and the request is sent again.
SetTokens(t) ==
  /\ Is(t, "granted")
  /\ store' = [store EXCEPT ![B(t)] = Kept(t)] /\ stale' = [stale EXCEPT ![B(t)] = FALSE]
  /\ left' = (left \/ (tab[t].kind = "login" /\ store[B(t)] # NoToken))
  /\ To(t, IF tab[t].kind = "logout" THEN "leaving" ELSE "idle")
  /\ UNCHANGED <<clock, tokens, crossed, twin, faults>>

\* The page's logout names no token and is answered 400, which it ignores; a
\* refusal to renew ends the session in the browser all the same.
Leave(t) ==
  /\ Is(t, "leaving") \/ Is(t, "denied")
  /\ store' = [store EXCEPT ![B(t)] = NoToken] /\ stale' = [stale EXCEPT ![B(t)] = FALSE]
  /\ left' = TRUE
  /\ To(t, "idle")
  /\ UNCHANGED <<clock, tokens, crossed, twin, faults>>

\* A message of a renewal or login is lost, before or after the server acted.
Lose(t) ==
  /\ Is(t, "asked") \/ Is(t, "checked") \/ Is(t, "granted")
  /\ faults < MaxFaults /\ faults' = faults + 1
  /\ To(t, IF tab[t].kind = "login" THEN "idle" ELSE "denied")
  /\ UNCHANGED <<clock, tokens, store, stale, crossed, twin, left>>

\* POST /auth/logout by a client that names its token.
Logout(k) ==
  /\ part = "sessions" /\ k \in issued \ revoked
  /\ revoked' = revoked \cup {k} /\ ended' = ended \cup {k}
  /\ UNCHANGED <<clock, issued, store, stale, tab, crossed, twin, left, faults>>

SessionNext ==
  \/ Tick
  \/ \E b \in Browsers : Expire(b)
  \/ \E t \in Tabs : \/ Login(t) \/ Refresh(t) \/ Check(t) \/ Rotate(t)
                     \/ SetTokens(t) \/ Leave(t) \/ Lose(t)
                     \/ \E kind \in {"call", "logout"} : Call(t, kind)
  \/ \E k \in issued : Logout(k)

Next == \/ RegistrationNext /\ UNCHANGED <<part, sesVars>>
        \/ SessionNext /\ UNCHANGED <<part, regVars>>

Spec == Init /\ [][Next]_vars

-----------------------------------------------------------------------------
(* Properties *)

\* No code is compared with more wrong guesses than registerMaxAttempts, but for
\* those whose count was lost to a fault, unless guesses overlapped each other,
\* the recording of a new code or the forgetting of one that was spent.
GuessesCounted ==
  "guess" \notin races => \A e \in Emails : otp[e] => wrong[e] <= MaxAttempts + faults

\* An account without a trial is one whose trial is about to start or was
\* refused because the mailbox has had it; only a fault between the two writes
\* leaves an account for which no request will ever start one.
TrialNotLost ==
  faults = 0 => \A e \in Emails : account[e] = "created" =>
    \/ \E r \in Requests : req[r].email = e /\ req[r].pc \in {"trial", "starting"}
    \/ \E f \in Emails : account[f] = "trial"

\* One mailbox has one trial, however its address is spelt and whichever way its
\* accounts are made, and an account at most maxAgents agents, unless two
\* requests have read what there is before either had added its own.
PlanLimitsHold ==
  /\ "trial" \notin races => Cardinality({e \in Emails : account[e] = "trial"}) <= 1
  /\ "add" \notin races => \A e \in Emails : agents[e] <= MaxAgents

\* A browser whose token nobody has logged out is never refused a renewal, as
\* long as its tabs renew one after the other, also when the second was refused
\* before the first renewed, and no second issues the same token twice.
SessionKept ==
  ~crossed /\ ~twin /\ faults = 0 =>
    \A t \in Tabs : tab[t].pc = "denied" /\ tab[t].token # NoToken => tab[t].token \in ended

\* Renewing leaves no good token behind: each one that is not on the blacklist
\* is stored or on its way to a tab, unless a browser has dropped one by leaving
\* (which revokes none), a message was lost or tabs overlapped.
RotationLeavesNone ==
  ~crossed /\ ~left /\ faults = 0 =>
    issued \ revoked \subseteq {store[b] : b \in Browsers} \cup {tab[t].token : t \in Tabs}
=============================================================================
