-------------------------------- MODULE Billing --------------------------------
(***************************************************************************)
(* Payments and the subscription they buy: checkout orders (table          *)
(* payments), bank transfers that SePay reports by webhook, at least once  *)
(* and possibly twice at a time, the transaction that marks an order PAID  *)
(* and extends the subscription, and the writes that expire orders and     *)
(* subscriptions.                                                          *)
(*                                                                         *)
(* A handler is cut at its awaits. A transaction runs at READ COMMITTED:   *)
(* its writes are seen at its commit, a row it has written is locked until *)
(* then, and nothing it has read is.                                       *)
(***************************************************************************)
EXTENDS Naturals, FiniteSets

CONSTANTS
  Users, NoUser,
  Transfers, NoTransfer, \* bank transfers that carry a payment code
  Hooks,          \* webhook requests that can be in progress at the same time
  Checkouts,      \* calls of createCheckout in progress
  Checks,         \* calls of assertActive in progress
  Window,         \* how many PENDING orders the webhook looks at ("take: 50")
  Ttl,            \* PENDING_TTL_HOURS
  Duration,       \* durationDays of a plan
  AdminExpiries,  \* what adminSetSubscription may set the expiry to
  MaxPayments,    \* bound: orders ever created
  MaxTime,        \* bound: the clock
  MaxFaults,      \* bound: database errors under a webhook
  MaxCrashes      \* bound: restarts of the server

ASSUME ConstantsAssumption ==
  /\ Window \in Nat \ {0} /\ Ttl \in Nat \ {0} /\ Duration \in Nat \ {0}
  /\ AdminExpiries \subseteq Nat
  /\ MaxPayments \in Nat /\ MaxTime \in Nat /\ MaxFaults \in Nat /\ MaxCrashes \in Nat
ASSUME HooksAssumption == IsFiniteSet(Hooks)
ASSUME NamesAssumption == Users # {} /\ NoUser \notin Users /\ NoTransfer \notin Transfers

Payments == 1..MaxPayments

VARIABLES
  now,        \* the clock, in ticks far longer than a transaction
  sub,        \* users: subscriptionStatus and subscriptionExpiresAt
  pay, npay,  \* the orders, numbered as created
  checkout,   \* [Checkouts -> the call in progress]
  transfer,   \* [Transfers -> the order it pays (0: not sent) and whether in full]
  hook,       \* [Hooks -> the webhook request in progress]
  answered,   \* transfers SePay has been answered success for
  check,      \* [Checks -> the user assertActive is about to mark EXPIRED]
  credits,    \* how often an order has extended a subscription
  overridden, \* users whose subscription an administrator has set
  faults, crashes

vars == <<now, sub, pay, npay, checkout, transfer, hook, answered, check,
          credits, overridden, faults, crashes>>

AnyUser == CHOOSE u \in Users : TRUE

NoPayment  == [status |-> "ABSENT", user |-> AnyUser, expiresAt |-> 0, paidAt |-> 0,
               sepayTransactionId |-> NoTransfer]
NoCheckout == [on |-> FALSE, user |-> AnyUser, orders |-> {}]
NoHook     == [pc |-> "idle", tr |-> NoTransfer, base |-> 0]

Init ==
  /\ now = 0
  /\ sub = [u \in Users |-> [status |-> "TRIAL", expiresAt |-> 1]]
  /\ pay = [p \in Payments |-> NoPayment] /\ npay = 0
  /\ checkout = [c \in Checkouts |-> NoCheckout]
  /\ transfer = [t \in Transfers |-> [pay |-> 0, full |-> TRUE]]
  /\ hook = [h \in Hooks |-> NoHook]
  /\ answered = {}
  /\ check = [k \in Checks |-> NoUser]
  /\ credits = [p \in Payments |-> 0]
  /\ overridden = {}
  /\ faults = 0 /\ crashes = 0

Pending == {p \in Payments : pay[p].status = "PENDING"}
Overdue == {p \in Pending : pay[p].expiresAt < now}
Order(h) == transfer[hook[h].tr].pay

\* Requests that have written their order and not yet committed.
InTransaction == {h \in Hooks : hook[h].pc \in {"user", "commit"}}
Locked(p) == \E h \in InTransaction : Order(h) = p

-----------------------------------------------------------------------------
(* BillingService.createCheckout: one transaction of two statements. The   *)
(* first sees the orders pending when it runs, and leaves alone those that *)
(* are no longer pending once it gets their lock.                          *)

CheckoutExpires(c, u) ==
  /\ ~checkout[c].on
  /\ checkout' = [checkout EXCEPT ![c] =
       [on |-> TRUE, user |-> u, orders |-> {p \in Pending : pay[p].user = u}]]
  /\ UNCHANGED <<now, sub, pay, npay, transfer, hook, answered, check, credits,
                 overridden, faults, crashes>>

NewOrder(u) == [status |-> "PENDING", user |-> u, expiresAt |-> now + Ttl, paidAt |-> 0,
                sepayTransactionId |-> NoTransfer]

CheckoutCreates(c) ==
  /\ checkout[c].on /\ npay < MaxPayments
  /\ \A p \in checkout[c].orders : ~Locked(p)
  /\ npay' = npay + 1
  /\ pay' = [p \in Payments |->
       IF p = npay + 1
       THEN NewOrder(checkout[c].user)
       ELSE IF p \in checkout[c].orders \cap Pending
            THEN [pay[p] EXCEPT !.status = "EXPIRED"] ELSE pay[p]]
  /\ checkout' = [checkout EXCEPT ![c] = NoCheckout]
  /\ UNCHANGED <<now, sub, transfer, hook, answered, check, credits, overridden,
                 faults, crashes>>

\* expireOverduePendingPayments, one conditional statement.
ExpireOverdue ==
  /\ Overdue # {} /\ \A p \in Overdue : ~Locked(p)
  /\ pay' = [p \in Payments |->
       IF p \in Overdue THEN [pay[p] EXCEPT !.status = "EXPIRED"] ELSE pay[p]]
  /\ UNCHANGED <<now, sub, npay, checkout, transfer, hook, answered, check, credits,
                 overridden, faults, crashes>>

-----------------------------------------------------------------------------
(* SepayWebhookController.webhook and BillingService.handleSepayWebhook.   *)
(* Transfers that go out, to another account or carry no code are skipped  *)
(* without a trace and left out.                                           *)

To(h, pc) == hook' = [hook EXCEPT ![h].pc = pc]

\* The controller answers success, whatever became of the request.
Answer(h) ==
  /\ hook' = [hook EXCEPT ![h] = NoHook]
  /\ answered' = answered \cup {hook[h].tr}

\* A user sends money with the code of an order, of any status.
Send(t) ==
  /\ transfer[t].pay = 0
  /\ \E p \in 1..npay, full \in BOOLEAN :
       transfer' = [transfer EXCEPT ![t] = [pay |-> p, full |-> full]]
  /\ UNCHANGED <<now, sub, pay, npay, checkout, hook, answered, check, credits,
                 overridden, faults, crashes>>

\* SePay reports a transfer; it may do so again, and while it is at it.
Deliver(h, t) ==
  /\ transfer[t].pay # 0 /\ hook[h].pc = "idle"
  /\ hook' = [hook EXCEPT ![h] = [NoHook EXCEPT !.pc = "lookup", !.tr = t]]
  /\ UNCHANGED <<now, sub, pay, npay, checkout, transfer, answered, check, credits,
                 overridden, faults, crashes>>

\* findUnique by the transaction id: a PAID order makes it a duplicate.
Lookup(h) ==
  /\ hook[h].pc = "lookup"
  /\ \/ /\ \E p \in Payments : /\ pay[p].sepayTransactionId = hook[h].tr
                               /\ pay[p].status = "PAID"
        /\ Answer(h)
     \/ /\ \A p \in Payments : pay[p].sepayTransactionId = hook[h].tr => pay[p].status # "PAID"
        /\ To(h, "find")
        /\ UNCHANGED answered
  /\ UNCHANGED <<now, sub, pay, npay, checkout, transfer, check, credits, overridden,
                 faults, crashes>>

\* The order is among the newest PENDING ones.
Found(p) == p \in Pending /\ Cardinality({q \in Pending : q > p}) < Window

\* Mutant of Find: an overdue order is skipped without the update.
FindSkipsOverdue(h) ==
  LET p == Order(h)
      taken == Found(p) /\ transfer[hook[h].tr].full /\ pay[p].expiresAt >= now IN
  /\ hook[h].pc = "find"
  /\ \/ ~taken /\ Answer(h)
     \/ taken /\ To(h, "read") /\ UNCHANGED answered
  /\ UNCHANGED <<now, sub, pay, npay, checkout, transfer, check, credits, overridden,
                 faults, crashes>>

\* findMany, then the checks of the amount and of the order's own expiry.
Find(h) ==
  LET p == Order(h)
      taken == Found(p) /\ transfer[hook[h].tr].full IN
  /\ hook[h].pc = "find"
  /\ \/ ~taken /\ Answer(h)
     \/ taken /\ To(h, IF pay[p].expiresAt < now THEN "expire" ELSE "read") /\ UNCHANGED answered
  /\ UNCHANGED <<now, sub, pay, npay, checkout, transfer, check, credits, overridden,
                 faults, crashes>>

\* Mutant of Expire: a status the schema does not have.
ExpireMisspelt(h) ==
  /\ hook[h].pc = "expire" /\ ~Locked(Order(h))
  /\ pay' = [pay EXCEPT ![Order(h)].status = "OVERDUE"]
  /\ Answer(h)
  /\ UNCHANGED <<now, sub, npay, checkout, transfer, check, credits, overridden,
                 faults, crashes>>

\* The update to EXPIRED, whatever the order has become.
Expire(h) ==
  /\ hook[h].pc = "expire" /\ ~Locked(Order(h))
  /\ pay' = [pay EXCEPT ![Order(h)].status = "EXPIRED"]
  /\ Answer(h)
  /\ UNCHANGED <<now, sub, npay, checkout, transfer, check, credits, overridden,
                 faults, crashes>>

\* markPaymentPaid: read the order ...
PaidRead(h) ==
  /\ hook[h].pc = "read"
  /\ \/ pay[Order(h)].status = "PAID" /\ Answer(h)
     \/ pay[Order(h)].status # "PAID" /\ To(h, "write") /\ UNCHANGED answered
  /\ UNCHANGED <<now, sub, pay, npay, checkout, transfer, check, credits, overridden,
                 faults, crashes>>

\* ... write it, once its lock is free (seen by others at the commit) ...
PaidWrite(h) ==
  /\ hook[h].pc = "write" /\ ~Locked(Order(h))
  /\ To(h, "user")
  /\ UNCHANGED <<now, sub, pay, npay, checkout, transfer, answered, check, credits,
                 overridden, faults, crashes>>

Later(a, b) == IF a >= b THEN a ELSE b

\* Mutant of PaidUser: the period is added to an expiry that has passed.
PaidUserNoMax(h) ==
  /\ hook[h].pc = "user"
  /\ hook' = [hook EXCEPT ![h].pc = "commit",
       ![h].base = sub[pay[Order(h)].user].expiresAt + Duration]
  /\ UNCHANGED <<now, sub, pay, npay, checkout, transfer, answered, check, credits,
                 overridden, faults, crashes>>

\* ... read the user and compute the new expiry ...
PaidUser(h) ==
  /\ hook[h].pc = "user"
  /\ hook' = [hook EXCEPT ![h].pc = "commit",
       ![h].base = Later(sub[pay[Order(h)].user].expiresAt, now) + Duration]
  /\ UNCHANGED <<now, sub, pay, npay, checkout, transfer, answered, check, credits,
                 overridden, faults, crashes>>

PaidOrder(order, tr) == [status |-> "PAID", user |-> order.user,
  expiresAt |-> order.expiresAt, paidAt |-> now, sepayTransactionId |-> tr]

\* Mutant of PaidCommit: the order's update leaves its status out.
PaidCommitKeepsStatus(h) ==
  LET p == Order(h) IN
  /\ hook[h].pc = "commit"
  /\ pay' = [pay EXCEPT ![p] = [@ EXCEPT !.paidAt = now, !.sepayTransactionId = hook[h].tr]]
  /\ sub' = [sub EXCEPT ![pay[p].user] = [status |-> "ACTIVE", expiresAt |-> hook[h].base]]
  /\ credits' = [credits EXCEPT ![p] = @ + 1]
  /\ Answer(h)
  /\ UNCHANGED <<now, npay, checkout, transfer, check, overridden, faults, crashes>>

\* ... write the user and commit.
PaidCommit(h) ==
  LET p == Order(h) IN
  /\ hook[h].pc = "commit"
  /\ pay' = [pay EXCEPT ![p] = PaidOrder(pay[p], hook[h].tr)]
  /\ sub' = [sub EXCEPT ![pay[p].user] = [status |-> "ACTIVE", expiresAt |-> hook[h].base]]
  /\ credits' = [credits EXCEPT ![p] = @ + 1]
  /\ Answer(h)
  /\ UNCHANGED <<now, npay, checkout, transfer, check, overridden, faults, crashes>>

HookStep(h) ==
  \/ Lookup(h) \/ Find(h) \/ Expire(h)
  \/ PaidRead(h) \/ PaidWrite(h) \/ PaidUser(h) \/ PaidCommit(h)

\* The database fails under a request: its transaction is rolled back, and the
\* controller swallows the error.
HookFails(h) ==
  /\ hook[h].pc # "idle" /\ faults < MaxFaults
  /\ faults' = faults + 1
  /\ Answer(h)
  /\ UNCHANGED <<now, sub, pay, npay, checkout, transfer, check, credits, overridden, crashes>>

-----------------------------------------------------------------------------
(* SubscriptionService                                                     *)

\* assertActive: the read that finds the subscription over ...
CheckRead(k, u) ==
  /\ check[k] = NoUser
  /\ sub[u].expiresAt <= now /\ sub[u].status # "EXPIRED"
  /\ check' = [check EXCEPT ![k] = u]
  /\ UNCHANGED <<now, sub, pay, npay, checkout, transfer, hook, answered, credits,
                 overridden, faults, crashes>>

\* ... and the write that follows it.
CheckWrite(k) ==
  /\ check[k] # NoUser
  /\ sub' = [sub EXCEPT ![check[k]].status = "EXPIRED"]
  /\ check' = [check EXCEPT ![k] = NoUser]
  /\ UNCHANGED <<now, pay, npay, checkout, transfer, hook, answered, credits, overridden,
                 faults, crashes>>

\* The hourly syncExpiredStatus, one conditional statement.
SyncExpired ==
  LET over == {u \in Users : /\ sub[u].status \in {"TRIAL", "ACTIVE"}
                             /\ sub[u].expiresAt < now} IN
  /\ over # {}
  /\ sub' = [u \in Users |-> IF u \in over THEN [sub[u] EXCEPT !.status = "EXPIRED"]
                             ELSE sub[u]]
  /\ UNCHANGED <<now, pay, npay, checkout, transfer, hook, answered, check, credits,
                 overridden, faults, crashes>>

\* adminSetSubscription, a blind write of the fields given.
AdminSets(u) ==
  /\ \E e \in AdminExpiries, s \in {"ACTIVE", "CANCELLED"} :
       sub' = [sub EXCEPT ![u] = [status |-> s, expiresAt |-> e]]
  /\ overridden' = overridden \cup {u}
  /\ UNCHANGED <<now, pay, npay, checkout, transfer, hook, answered, check, credits,
                 faults, crashes>>

-----------------------------------------------------------------------------
(* Environment                                                             *)

Tick ==
  /\ now < MaxTime /\ InTransaction = {}
  /\ now' = now + 1
  /\ UNCHANGED <<sub, pay, npay, checkout, transfer, hook, answered, check, credits,
                 overridden, faults, crashes>>

\* A restart rolls back what is open and answers nobody.
Crash ==
  /\ crashes < MaxCrashes
  /\ crashes' = crashes + 1
  /\ checkout' = [c \in Checkouts |-> NoCheckout]
  /\ hook' = [h \in Hooks |-> NoHook]
  /\ check' = [k \in Checks |-> NoUser]
  /\ UNCHANGED <<now, sub, pay, npay, transfer, answered, credits, overridden, faults>>

Next ==
  \/ \E c \in Checkouts : CheckoutCreates(c) \/ \E u \in Users : CheckoutExpires(c, u)
  \/ ExpireOverdue
  \/ \E t \in Transfers : Send(t) \/ \E h \in Hooks : Deliver(h, t)
  \/ \E h \in Hooks : HookStep(h) \/ HookFails(h)
  \/ \E k \in Checks : CheckWrite(k) \/ \E u \in Users : CheckRead(k, u)
  \/ SyncExpired
  \/ \E u \in Users : AdminSets(u)
  \/ Tick \/ Crash

Spec == Init /\ [][Next]_vars

\* Handlers resume, and SePay reports a transfer until it is answered. (Strong
\* fairness only because the model bounds the requests in progress.)
Fairness ==
  /\ \A h \in Hooks : WF_vars(HookStep(h))
  /\ \A t \in Transfers : SF_vars(t \notin answered /\ \E h \in Hooks : Deliver(h, t))

FairSpec == Spec /\ Fairness

-----------------------------------------------------------------------------
(* Properties *)

Subscriptions == [status : {"TRIAL", "ACTIVE", "EXPIRED", "CANCELLED"}, expiresAt : Nat]
Orders == [status : {"ABSENT", "PENDING", "PAID", "EXPIRED"}, user : Users,
           expiresAt : Nat, paidAt : Nat, sepayTransactionId : Transfers \cup {NoTransfer}]
RequestPcs == {"idle", "lookup", "find", "expire", "read", "write", "user", "commit"}
Requests == [pc : RequestPcs, tr : Transfers \cup {NoTransfer}, base : Nat]

\* Every variable has its type.
TypeOK ==
  /\ now \in 0..MaxTime
  /\ sub \in [Users -> Subscriptions]
  /\ pay \in [Payments -> Orders] /\ npay \in 0..MaxPayments
  /\ checkout \in [Checkouts -> [on : BOOLEAN, user : Users, orders : SUBSET Payments]]
  /\ transfer \in [Transfers -> [pay : 0..MaxPayments, full : BOOLEAN]]
  /\ hook \in [Hooks -> Requests]
  /\ answered \subseteq Transfers
  /\ check \in [Checks -> Users \cup {NoUser}]
  /\ credits \in [Payments -> Nat]
  /\ overridden \subseteq Users
  /\ faults \in 0..MaxFaults /\ crashes \in 0..MaxCrashes

\* What was paid for is there: the subscription of a user runs at least one
\* full period from any payment recorded, although two transactions may read
\* the same expiry and one of them overwrite the other, and whatever crashes.
\* (An administrator may set it to anything.)
PaidIsGranted ==
  \A p \in Payments :
    pay[p].status = "PAID" /\ pay[p].user \notin overridden
      => sub[pay[p].user].expiresAt >= pay[p].paidAt + Duration

\* A transfer reported again extends nothing again, up to the requests that
\* were in progress together: with one request at a time an order is credited
\* once, for good, however often SePay repeats itself.
CreditsBounded == \A p \in Payments : credits[p] <= Cardinality(Hooks)

\* Money is not forgotten: once a full transfer for a pending order has been
\* sent, the order ends, PAID or EXPIRED, across restarts. (A database error is
\* swallowed, answered success and so never made good.)
TransferSettles ==
  \A t \in Transfers, p \in Payments :
    (transfer[t] = [pay |-> p, full |-> TRUE] /\ pay[p].status = "PENDING")
      ~> (pay[p].status # "PENDING" \/ faults > 0)

\* A report of a transfer that has been credited is a duplicate and ignored.
CreditedOnce == \A p \in Payments : credits[p] <= 1
=============================================================================
