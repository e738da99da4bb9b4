----------------------------- MODULE BillingProofs -----------------------------
(***************************************************************************)
(* Proofs about Billing. Nothing a transaction reads is locked, so what a  *)
(* payment grants cannot be argued from the row alone: the invariant also  *)
(* says what a request may hold in its hands (a base that covers a full    *)
(* period from now) and how many requests may still credit an order.       *)
(***************************************************************************)
EXTENDS Billing, FiniteSetTheorems, TLAPS

PayingPcs == {"read", "write", "user", "commit"}
Paying(p) == {h \in Hooks : hook[h].pc \in PayingPcs /\ Order(h) = p}

\* A request in progress is about a transfer that was sent for an order made.
RequestsAreReal ==
  /\ \A h \in Hooks : hook[h].pc # "idle" =>
       hook[h].tr \in Transfers /\ transfer[hook[h].tr].pay # 0
  /\ \A t \in Transfers : transfer[t].pay <= npay

\* An order that is not yet made, or pending, has never been credited.
PendingIsUncredited ==
  \A p \in Payments : p > npay \/ pay[p].status = "PENDING" => credits[p] = 0

PaidInThePast == \A p \in Payments : pay[p].paidAt <= now

\* Time does not pass inside a transaction.
BaseCoversPeriod == \A h \in Hooks : hook[h].pc = "commit" => hook[h].base >= now + Duration

\* Every credit an order has had or can still get has a request of its own.
CreditRoom == \A p \in Payments : credits[p] + Cardinality(Paying(p)) <= Cardinality(Hooks)

IInv ==
  /\ TypeOK /\ RequestsAreReal /\ PendingIsUncredited
  /\ PaidInThePast /\ BaseCoversPeriod /\ PaidIsGranted /\ CreditRoom

-----------------------------------------------------------------------------
(* Types *)

LEMMA ConstantTypes ==
  /\ AnyUser \in Users
  /\ NoPayment \in Orders /\ NoHook \in Requests
  /\ NoCheckout \in [on : BOOLEAN, user : Users, orders : SUBSET Payments]
BY ConstantsAssumption, NamesAssumption
   DEF AnyUser, NoPayment, NoHook, NoCheckout, Orders, Requests, RequestPcs

\* The order of a request in progress.
LEMMA OrderType ==
  ASSUME TypeOK, RequestsAreReal, NEW h \in Hooks, hook[h].pc # "idle"
  PROVE  /\ Order(h) \in Payments /\ Order(h) <= npay
         /\ hook[h].tr \in Transfers
BY ConstantsAssumption DEF TypeOK, RequestsAreReal, Order, Payments

LEMMA AnswerType ==
  ASSUME TypeOK, RequestsAreReal, NEW h \in Hooks, hook[h].pc # "idle", Answer(h)
  PROVE  hook' \in [Hooks -> Requests] /\ answered' \subseteq Transfers
BY OrderType, ConstantTypes DEF TypeOK, Answer

LEMMA ToType ==
  ASSUME TypeOK, NEW h \in Hooks, NEW pc \in RequestPcs, To(h, pc)
  PROVE  hook' \in [Hooks -> Requests]
BY DEF TypeOK, To, Requests, RequestPcs

LEMMA NewOrderType ==
  ASSUME TypeOK, NEW u \in Users
  PROVE  NewOrder(u) \in Orders
BY ConstantsAssumption DEF TypeOK, NewOrder, Orders

LEMMA PaidOrderType ==
  ASSUME TypeOK, NEW o \in Orders, NEW t \in Transfers
  PROVE  PaidOrder(o, t) \in Orders
BY DEF TypeOK, PaidOrder, Orders

LEMMA TypeInit == Init => TypeOK
<1> SUFFICES ASSUME Init PROVE TypeOK
  OBVIOUS
<1> USE ConstantsAssumption, NamesAssumption, ConstantTypes DEF Init, Payments
<1>1. now \in 0..MaxTime /\ npay \in 0..MaxPayments /\ faults \in 0..MaxFaults
      /\ crashes \in 0..MaxCrashes /\ answered \subseteq Transfers /\ overridden \subseteq Users
  OBVIOUS
<1>2. sub \in [Users -> Subscriptions]
  BY DEF Subscriptions
<1>3. pay \in [Payments -> Orders] /\ credits \in [Payments -> Nat]
  OBVIOUS
<1>4. checkout \in [Checkouts -> [on : BOOLEAN, user : Users, orders : SUBSET Payments]]
  OBVIOUS
<1>5. transfer \in [Transfers -> [pay : 0..MaxPayments, full : BOOLEAN]]
  OBVIOUS
<1>6. hook \in [Hooks -> Requests] /\ check \in [Checks -> Users \cup {NoUser}]
  OBVIOUS
<1> QED BY <1>1, <1>2, <1>3, <1>4, <1>5, <1>6 DEF TypeOK

LEMMA TypeStep ==
  ASSUME TypeOK, RequestsAreReal, [Next]_vars
  PROVE  TypeOK'
<1> USE ConstantsAssumption, NamesAssumption, ConstantTypes
<1>1. ASSUME NEW c \in Checkouts, NEW u \in Users, CheckoutExpires(c, u) PROVE TypeOK'
  BY <1>1 DEF TypeOK, CheckoutExpires, Pending
<1>2. ASSUME NEW c \in Checkouts, CheckoutCreates(c) PROVE TypeOK'
  <2>1. npay + 1 \in Payments /\ npay' \in 0..MaxPayments
    BY <1>2 DEF TypeOK, CheckoutCreates, Payments
  <2>2. \A p \in Payments : pay'[p] \in Orders
    <3> TAKE p \in Payments
    <3>1. checkout[c].user \in Users /\ pay[p] \in Orders
      BY DEF TypeOK
    <3>2. [pay[p] EXCEPT !.status = "EXPIRED"] \in Orders
      BY <3>1 DEF Orders
    <3> QED BY <1>2, <3>1, <3>2, NewOrderType DEF CheckoutCreates
  <2>3. pay' \in [Payments -> Orders]
    BY <2>2, <1>2 DEF CheckoutCreates
  <2> QED BY <1>2, <2>1, <2>3 DEF TypeOK, CheckoutCreates
<1>3. ASSUME ExpireOverdue PROVE TypeOK'
  <2>1. pay' \in [Payments -> Orders]
    BY <1>3 DEF TypeOK, ExpireOverdue, Orders
  <2> QED BY <1>3, <2>1 DEF TypeOK, ExpireOverdue
<1>4. ASSUME NEW t \in Transfers, Send(t) PROVE TypeOK'
  BY <1>4 DEF TypeOK, Send
<1>5. ASSUME NEW t \in Transfers, NEW h \in Hooks, Deliver(h, t) PROVE TypeOK'
  BY <1>5 DEF TypeOK, Deliver, Requests, RequestPcs, NoHook
<1>6. ASSUME NEW h \in Hooks, HookStep(h) PROVE TypeOK'
  <2>0. hook[h].pc # "idle"
    BY <1>6 DEF HookStep, Lookup, Find, Expire, PaidRead, PaidWrite, PaidUser, PaidCommit
  <2> USE <2>0, OrderType
  <2>1. CASE Lookup(h)
    <3>1. hook' \in [Hooks -> Requests] /\ answered' \subseteq Transfers
      BY <2>1, AnswerType, ToType DEF TypeOK, Lookup, RequestPcs
    <3> QED BY <2>1, <3>1 DEF TypeOK, Lookup
  <2>2. CASE Find(h)
    <3>1. hook' \in [Hooks -> Requests] /\ answered' \subseteq Transfers
      BY <2>2, AnswerType, ToType DEF TypeOK, Find, RequestPcs
    <3> QED BY <2>2, <3>1 DEF TypeOK, Find
  <2>3. CASE Expire(h)
    <3>1. pay' \in [Payments -> Orders]
      BY <2>3 DEF TypeOK, Expire, Orders
    <3> QED BY <2>3, <3>1, AnswerType DEF TypeOK, Expire
  <2>4. CASE PaidRead(h)
    <3>1. hook' \in [Hooks -> Requests] /\ answered' \subseteq Transfers
      BY <2>4, AnswerType, ToType DEF TypeOK, PaidRead, RequestPcs
    <3> QED BY <2>4, <3>1 DEF TypeOK, PaidRead
  <2>5. CASE PaidWrite(h)
    BY <2>5, ToType DEF TypeOK, PaidWrite, RequestPcs
  <2>6. CASE PaidUser(h)
    <3>1. pay[Order(h)].user \in Users
      BY DEF TypeOK, Orders
    <3>2. Later(sub[pay[Order(h)].user].expiresAt, now) + Duration \in Nat
      BY <3>1 DEF TypeOK, Subscriptions, Later
    <3>3. hook' \in [Hooks -> Requests]
      BY <2>6, <3>2 DEF TypeOK, PaidUser, Requests, RequestPcs
    <3> QED BY <2>6, <3>3 DEF TypeOK, PaidUser
  <2>7. CASE PaidCommit(h)
    <3>1. pay' \in [Payments -> Orders]
      BY <2>7, PaidOrderType DEF TypeOK, PaidCommit
    <3>2. sub' \in [Users -> Subscriptions]
      BY <2>7 DEF TypeOK, PaidCommit, Requests, Subscriptions
    <3>3. credits' \in [Payments -> Nat]
      BY <2>7 DEF TypeOK, PaidCommit
    <3> QED BY <2>7, <3>1, <3>2, <3>3, AnswerType DEF TypeOK, PaidCommit
  <2> QED BY <1>6, <2>1, <2>2, <2>3, <2>4, <2>5, <2>6, <2>7 DEF HookStep
<1>7. ASSUME NEW h \in Hooks, HookFails(h) PROVE TypeOK'
  BY <1>7, AnswerType DEF TypeOK, HookFails
<1>8. ASSUME NEW k \in Checks, CheckWrite(k) PROVE TypeOK'
  BY <1>8 DEF TypeOK, CheckWrite, Subscriptions
<1>9. ASSUME NEW k \in Checks, NEW u \in Users, CheckRead(k, u) PROVE TypeOK'
  BY <1>9 DEF TypeOK, CheckRead
<1>10. ASSUME SyncExpired PROVE TypeOK'
  <2>1. sub' \in [Users -> Subscriptions]
    BY <1>10 DEF TypeOK, SyncExpired, Subscriptions
  <2> QED BY <1>10, <2>1 DEF TypeOK, SyncExpired
<1>11. ASSUME NEW u \in Users, AdminSets(u) PROVE TypeOK'
  BY <1>11 DEF TypeOK, AdminSets, Subscriptions
<1>12. CASE Tick
  BY <1>12 DEF TypeOK, Tick
<1>13. CASE Crash
  BY <1>13 DEF TypeOK, Crash
<1>14. CASE UNCHANGED vars
  BY <1>14 DEF TypeOK, vars
<1> QED BY <1>1, <1>2, <1>3, <1>4, <1>5, <1>6, <1>7, <1>8, <1>9, <1>10, <1>11, <1>12,
           <1>13, <1>14 DEF Next

-----------------------------------------------------------------------------
(* Requests and orders                                                     *)

\* What a step of a request changes of the requests: its own, which ends or
\* goes on about the same transfer.
LEMMA StepOfRequest ==
  ASSUME TypeOK, NEW h \in Hooks, HookStep(h) \/ HookFails(h)
  PROVE  /\ hook[h].pc # "idle"
         /\ hook'[h] = NoHook \/ hook'[h].tr = hook[h].tr
         /\ \A g \in Hooks \ {h} : hook'[g] = hook[g]
         /\ hook' \in [Hooks -> Requests] => DOMAIN hook' = Hooks
         /\ transfer' = transfer /\ npay' = npay /\ now' = now
BY DEF TypeOK, Requests, HookStep, Lookup, Find, Expire, PaidRead, PaidWrite, PaidUser,
       PaidCommit, HookFails, Answer, To

LEMMA RealStep ==
  ASSUME TypeOK, RequestsAreReal, [Next]_vars
  PROVE  RequestsAreReal'
<1> USE ConstantsAssumption
<1>1. ASSUME NEW c \in Checkouts, CheckoutCreates(c) PROVE RequestsAreReal'
  BY <1>1 DEF TypeOK, RequestsAreReal, CheckoutCreates
<1>2. ASSUME NEW t \in Transfers, Send(t) PROVE RequestsAreReal'
  <2>1. PICK p \in 1..npay, full \in BOOLEAN :
          transfer' = [transfer EXCEPT ![t] = [pay |-> p, full |-> full]]
    BY <1>2 DEF Send
  <2>2. hook' = hook /\ npay' = npay
    BY <1>2 DEF Send
  <2>3. \A u \in Transfers : transfer'[u].pay <= npay /\ (transfer[u].pay # 0 => transfer'[u].pay # 0)
    BY <2>1 DEF TypeOK, RequestsAreReal
  <2> QED BY <2>2, <2>3 DEF RequestsAreReal
<1>3. ASSUME NEW t \in Transfers, NEW h \in Hooks, Deliver(h, t) PROVE RequestsAreReal'
  BY <1>3 DEF TypeOK, RequestsAreReal, Deliver, NoHook, Requests
<1>4. ASSUME NEW h \in Hooks, HookStep(h) \/ HookFails(h) PROVE RequestsAreReal'
  BY <1>4, StepOfRequest DEF RequestsAreReal, NoHook
<1>5. CASE Crash
  BY <1>5 DEF RequestsAreReal, Crash, NoHook
<1>6. CASE UNCHANGED <<hook, transfer, npay>>
  BY <1>6 DEF RequestsAreReal
<1> QED
  BY <1>1, <1>2, <1>3, <1>4, <1>5, <1>6
  DEF Next, vars, CheckoutExpires, ExpireOverdue, CheckRead, CheckWrite, SyncExpired,
      AdminSets, Tick

-----------------------------------------------------------------------------
(* What was paid for is there                                              *)

LEMMA LaterBounds ==
  ASSUME NEW a \in Nat, NEW b \in Nat
  PROVE  Later(a, b) \in Nat /\ Later(a, b) >= a /\ Later(a, b) >= b
BY DEF Later

LEMMA BaseStep ==
  ASSUME TypeOK, RequestsAreReal, BaseCoversPeriod, [Next]_vars
  PROVE  BaseCoversPeriod'
<1> USE ConstantsAssumption
<1>1. ASSUME NEW t \in Transfers, NEW h \in Hooks, Deliver(h, t) PROVE BaseCoversPeriod'
  BY <1>1 DEF TypeOK, BaseCoversPeriod, Deliver, NoHook, Requests
<1>2. ASSUME NEW h \in Hooks, HookStep(h) \/ HookFails(h) PROVE BaseCoversPeriod'
  <2>1. hook'[h].pc = "commit" => PaidUser(h)
    BY <1>2 DEF TypeOK, Requests, HookStep, Lookup, Find, Expire, PaidRead, PaidWrite,
                PaidCommit, HookFails, Answer, To, NoHook
  <2>2. ASSUME PaidUser(h) PROVE hook'[h].base >= now + Duration
    <3> DEFINE e == sub[pay[Order(h)].user].expiresAt
    <3>1. Order(h) \in Payments
      BY <1>2, OrderType, StepOfRequest
    <3>2. e \in Nat /\ now \in Nat
      BY <3>1 DEF TypeOK, Orders, Subscriptions
    <3>3. Later(e, now) \in Nat /\ Later(e, now) >= now
      BY <3>2, LaterBounds
    <3>4. hook'[h].base = Later(e, now) + Duration
      BY <2>2 DEF TypeOK, PaidUser
    <3> QED BY <3>2, <3>3, <3>4
  <2> QED BY <1>2, <2>1, <2>2, StepOfRequest DEF BaseCoversPeriod
<1>3. CASE Tick
  BY <1>3 DEF BaseCoversPeriod, Tick, InTransaction
<1>4. CASE Crash
  BY <1>4 DEF BaseCoversPeriod, Crash, NoHook
<1>5. CASE UNCHANGED <<hook, now>>
  BY <1>5 DEF BaseCoversPeriod
<1> QED
  BY <1>1, <1>2, <1>3, <1>4, <1>5
  DEF Next, vars, CheckoutExpires, CheckoutCreates, ExpireOverdue, Send, CheckRead,
      CheckWrite, SyncExpired, AdminSets

\* A request changes orders and subscriptions only by Expire and by its commit.
LEMMA QuietRequest ==
  ASSUME NEW h \in Hooks, HookStep(h) \/ HookFails(h), ~Expire(h), ~PaidCommit(h)
  PROVE  UNCHANGED <<now, sub, pay, npay, credits, overridden>>
BY DEF HookStep, Lookup, Find, PaidRead, PaidWrite, PaidUser, HookFails

\* How a commit leaves orders and subscriptions.
LEMMA CommitEffect ==
  ASSUME TypeOK, RequestsAreReal, BaseCoversPeriod, NEW h \in Hooks, PaidCommit(h)
  PROVE  /\ Order(h) \in Payments
         /\ pay'[Order(h)] = PaidOrder(pay[Order(h)], hook[h].tr)
         /\ \A p \in Payments \ {Order(h)} : pay'[p] = pay[p]
         /\ pay[Order(h)].user \in Users
         /\ sub'[pay[Order(h)].user].expiresAt = hook[h].base
         /\ \A u \in Users \ {pay[Order(h)].user} : sub'[u] = sub[u]
         /\ hook[h].base \in Nat /\ hook[h].base >= now + Duration
         /\ UNCHANGED <<now, npay, overridden>>
<1>1. hook[h].pc = "commit" /\ Order(h) \in Payments
  BY OrderType DEF PaidCommit
<1>2. pay[Order(h)].user \in Users /\ hook[h].base \in Nat
  BY <1>1 DEF TypeOK, Orders, Requests
<1>3. pay'[Order(h)] = PaidOrder(pay[Order(h)], hook[h].tr)
      /\ \A p \in Payments \ {Order(h)} : pay'[p] = pay[p]
  BY <1>1 DEF TypeOK, PaidCommit
<1>4. sub'[pay[Order(h)].user].expiresAt = hook[h].base
      /\ \A u \in Users \ {pay[Order(h)].user} : sub'[u] = sub[u]
  BY <1>2 DEF TypeOK, PaidCommit
<1> QED BY <1>1, <1>2, <1>3, <1>4 DEF PaidCommit, BaseCoversPeriod

LEMMA GrantStep ==
  ASSUME TypeOK, RequestsAreReal, BaseCoversPeriod, PaidInThePast, PaidIsGranted, [Next]_vars
  PROVE  PaidInThePast' /\ PaidIsGranted'
<1> USE ConstantsAssumption
<1>t. /\ now \in Nat
      /\ \A p \in Payments : pay[p] \in Orders
      /\ \A u \in Users : sub[u] \in Subscriptions
  BY DEF TypeOK
<1>1. ASSUME NEW c \in Checkouts, CheckoutCreates(c) PROVE PaidInThePast' /\ PaidIsGranted'
  <2>1. \A p \in Payments : \/ pay'[p] = pay[p]
                            \/ pay'[p].status # "PAID" /\ pay'[p].paidAt <= now
    <3> TAKE p \in Payments
    <3>1. CASE p = npay + 1
      BY <1>1, <3>1, <1>t DEF CheckoutCreates, NewOrder
    <3>2. CASE p # npay + 1 /\ p \in checkout[c].orders \cap Pending
      BY <1>1, <3>2, <1>t DEF CheckoutCreates, Orders, PaidInThePast
    <3>3. CASE p # npay + 1 /\ p \notin checkout[c].orders \cap Pending
      BY <1>1, <3>3 DEF CheckoutCreates
    <3> QED BY <3>1, <3>2, <3>3
  <2>2. UNCHANGED <<now, sub, overridden>>
    BY <1>1 DEF CheckoutCreates
  <2> QED BY <2>1, <2>2 DEF PaidInThePast, PaidIsGranted
<1>2. CASE ExpireOverdue
  <2>1. \A p \in Payments : \/ pay'[p] = pay[p]
                            \/ pay'[p].status # "PAID" /\ pay'[p].paidAt <= now
    BY <1>2, <1>t DEF ExpireOverdue, Orders, PaidInThePast
  <2> QED BY <1>2, <2>1 DEF ExpireOverdue, PaidInThePast, PaidIsGranted
<1>3. ASSUME NEW h \in Hooks, HookStep(h) \/ HookFails(h) PROVE PaidInThePast' /\ PaidIsGranted'
  <2>1. CASE Expire(h)
    <3>1. \A p \in Payments : \/ pay'[p] = pay[p]
                              \/ pay'[p].status # "PAID" /\ pay'[p].paidAt <= now
      BY <2>1, <1>t DEF TypeOK, Expire, Orders, PaidInThePast
    <3> QED BY <2>1, <3>1 DEF Expire, PaidInThePast, PaidIsGranted
  <2>2. CASE PaidCommit(h)
    <3> DEFINE o == Order(h)
    <3>0. /\ o \in Payments /\ pay'[o] = PaidOrder(pay[o], hook[h].tr)
          /\ \A p \in Payments \ {o} : pay'[p] = pay[p]
          /\ sub'[pay[o].user].expiresAt = hook[h].base
          /\ \A u \in Users \ {pay[o].user} : sub'[u] = sub[u]
          /\ hook[h].base \in Nat /\ hook[h].base >= now + Duration
          /\ UNCHANGED <<now, overridden>>
      BY <2>2, CommitEffect
    <3> HIDE DEF o
    <3>1. pay'[o].paidAt = now /\ pay'[o].user = pay[o].user
      BY <3>0 DEF PaidOrder
    <3>2. \A p \in Payments : pay'[p].paidAt <= now /\ pay'[p].user = pay[p].user
      BY <3>0, <3>1, <1>t DEF PaidInThePast
    <3>3. ASSUME NEW p \in Payments, pay'[p].status = "PAID", pay[p].user \notin overridden
          PROVE  sub'[pay[p].user].expiresAt >= pay'[p].paidAt + Duration
      <4>1. pay[p].user \in Users /\ pay[p].paidAt \in Nat /\ pay[p].paidAt <= now
        BY <1>t DEF Orders, PaidInThePast
      <4>2. CASE p = o
        BY <3>0, <3>1, <4>2
      <4>3. CASE p # o /\ pay[p].user = pay[o].user
        <5>1. pay'[p].paidAt = pay[p].paidAt
          BY <3>0, <4>3
        <5> QED BY <3>0, <4>1, <4>3, <5>1, <1>t
      <4>4. CASE p # o /\ pay[p].user # pay[o].user
        BY <3>0, <3>3, <4>1, <4>4 DEF PaidIsGranted
      <4> QED BY <4>2, <4>3, <4>4
    <3> QED BY <3>0, <3>2, <3>3 DEF PaidInThePast, PaidIsGranted
  <2>3. CASE ~Expire(h) /\ ~PaidCommit(h)
    BY <1>3, <2>3, QuietRequest DEF PaidInThePast, PaidIsGranted
  <2> QED BY <2>1, <2>2, <2>3
<1>4. ASSUME NEW k \in Checks, CheckWrite(k) PROVE PaidInThePast' /\ PaidIsGranted'
  <2>1. \A u \in Users : sub'[u].expiresAt = sub[u].expiresAt
    BY <1>4, <1>t DEF TypeOK, CheckWrite, Subscriptions
  <2> QED BY <1>4, <2>1, <1>t DEF CheckWrite, Orders, PaidInThePast, PaidIsGranted
<1>5. CASE SyncExpired
  <2>1. \A u \in Users : sub'[u].expiresAt = sub[u].expiresAt
    BY <1>5, <1>t DEF SyncExpired, Subscriptions
  <2> QED BY <1>5, <2>1, <1>t DEF SyncExpired, Orders, PaidInThePast, PaidIsGranted
<1>6. ASSUME NEW u \in Users, AdminSets(u) PROVE PaidInThePast' /\ PaidIsGranted'
  <2>1. \A v \in Users \ {u} : sub'[v] = sub[v]
    BY <1>6 DEF TypeOK, AdminSets
  <2>2. overridden' = overridden \cup {u} /\ UNCHANGED <<now, pay>>
    BY <1>6 DEF AdminSets
  <2> QED BY <2>1, <2>2, <1>t DEF Orders, PaidInThePast, PaidIsGranted
<1>7. CASE Tick
  BY <1>7, <1>t DEF Tick, Orders, PaidInThePast, PaidIsGranted
<1>8. CASE UNCHANGED <<now, sub, pay, overridden>>
  BY <1>8 DEF PaidInThePast, PaidIsGranted
<1> QED
  BY <1>1, <1>2, <1>3, <1>4, <1>5, <1>6, <1>7, <1>8
  DEF Next, vars, CheckoutExpires, Send, Deliver, CheckRead, Crash

-----------------------------------------------------------------------------
(* Credits are counted                                                     *)

LEMMA UncreditedStep ==
  ASSUME TypeOK, RequestsAreReal, BaseCoversPeriod, PendingIsUncredited, [Next]_vars
  PROVE  PendingIsUncredited'
<1> USE ConstantsAssumption
<1>t. npay \in Nat /\ \A p \in Payments : p \in Nat
  BY DEF TypeOK, Payments
<1>1. ASSUME NEW c \in Checkouts, CheckoutCreates(c) PROVE PendingIsUncredited'
  <2>1. \A p \in Payments : p # npay + 1 /\ pay'[p].status = "PENDING" => pay[p].status = "PENDING"
    BY <1>1 DEF TypeOK, CheckoutCreates, Pending
  <2> QED BY <1>1, <2>1, <1>t DEF CheckoutCreates, PendingIsUncredited
<1>2. CASE ExpireOverdue
  <2>1. \A p \in Payments : pay'[p].status = "PENDING" => pay[p].status = "PENDING"
    BY <1>2 DEF ExpireOverdue, Overdue, Pending
  <2> QED BY <1>2, <2>1 DEF ExpireOverdue, PendingIsUncredited
<1>3. ASSUME NEW h \in Hooks, HookStep(h) \/ HookFails(h) PROVE PendingIsUncredited'
  <2>1. CASE Expire(h)
    <3>1. \A p \in Payments : pay'[p].status = "PENDING" => pay[p].status = "PENDING"
      BY <2>1 DEF TypeOK, Expire, Orders
    <3> QED BY <2>1, <3>1 DEF Expire, PendingIsUncredited
  <2>2. CASE PaidCommit(h)
    <3>1. hook[h].pc # "idle"
      BY <2>2 DEF PaidCommit
    <3> DEFINE o == Order(h)
    <3>2. o \in Payments /\ o <= npay
      BY <3>1, OrderType
    <3>e. /\ pay'[o] = PaidOrder(pay[o], hook[h].tr)
          /\ \A p \in Payments \ {o} : pay'[p] = pay[p]
      BY <2>2, CommitEffect
    <3>3. pay'[o].status = "PAID"
      BY <3>e DEF PaidOrder
    <3>4. \A p \in Payments \ {o} : pay'[p] = pay[p]
      BY <3>e
    <3>5. \A p \in Payments \ {o} : credits'[p] = credits[p]
      BY <2>2, <3>2 DEF TypeOK, PaidCommit
    <3>6. npay' = npay
      BY <2>2 DEF PaidCommit
    <3> HIDE DEF o
    <3>7. ASSUME NEW p \in Payments, p > npay \/ pay'[p].status = "PENDING" PROVE credits'[p] = 0
      <4>1. p # o
        BY <3>2, <3>3, <3>7, <1>t
      <4> QED BY <3>4, <3>5, <3>7, <4>1 DEF PendingIsUncredited
    <3> QED BY <3>6, <3>7 DEF PendingIsUncredited
  <2>3. CASE ~Expire(h) /\ ~PaidCommit(h)
    BY <1>3, <2>3, QuietRequest DEF PendingIsUncredited
  <2> QED BY <2>1, <2>2, <2>3
<1>4. CASE UNCHANGED <<pay, npay, credits>>
  BY <1>4 DEF PendingIsUncredited
<1> QED
  BY <1>1, <1>2, <1>3, <1>4
  DEF Next, vars, CheckoutExpires, Send, Deliver, CheckRead, CheckWrite, SyncExpired,
      AdminSets, Tick, Crash

LEMMA PayingIsFinite ==
  ASSUME NEW S \in SUBSET Hooks
  PROVE  /\ IsFiniteSet(S) /\ Cardinality(S) \in Nat
         /\ Cardinality(Hooks) \in Nat /\ Cardinality(S) <= Cardinality(Hooks)
BY HooksAssumption, FS_Subset, FS_CardinalityType

\* A step that lets no further request reach the transaction of an order.
LEMMA RoomKept ==
  ASSUME TypeOK, CreditRoom, credits' = credits,
         \A g \in Hooks : hook'[g].pc \in PayingPcs =>
           hook[g].pc \in PayingPcs /\ Order(g)' = Order(g)
  PROVE  CreditRoom'
<1> SUFFICES ASSUME NEW p \in Payments
             PROVE  credits[p] + Cardinality(Paying(p)') <= Cardinality(Hooks)
  BY DEF CreditRoom
<1>1. Paying(p)' \subseteq Paying(p) /\ Paying(p) \subseteq Hooks
  BY DEF Paying
<1>2. Cardinality(Paying(p)') <= Cardinality(Paying(p))
  BY <1>1, PayingIsFinite, FS_Subset
<1>3. credits[p] \in Nat /\ Cardinality(Paying(p)) \in Nat /\ Cardinality(Paying(p)') \in Nat
      /\ Cardinality(Hooks) \in Nat
  BY <1>1, PayingIsFinite DEF TypeOK
<1>4. credits[p] + Cardinality(Paying(p)) <= Cardinality(Hooks)
  BY DEF CreditRoom
<1> QED BY <1>2, <1>3, <1>4

LEMMA RoomStep ==
  ASSUME TypeOK, RequestsAreReal, PendingIsUncredited, CreditRoom, [Next]_vars
  PROVE  CreditRoom'
<1>1. ASSUME NEW t \in Transfers, Send(t) PROVE CreditRoom'
  <2>1. \A u \in Transfers : transfer[u].pay # 0 => transfer'[u] = transfer[u]
    BY <1>1 DEF TypeOK, Send
  <2>2. hook' = hook /\ credits' = credits
    BY <1>1 DEF Send
  <2>3. \A g \in Hooks : hook'[g].pc \in PayingPcs =>
          hook[g].pc \in PayingPcs /\ Order(g)' = Order(g)
    BY <2>1, <2>2 DEF RequestsAreReal, PayingPcs, Order
  <2> QED BY <2>2, <2>3, RoomKept
<1>2. ASSUME NEW t \in Transfers, NEW h \in Hooks, Deliver(h, t) PROVE CreditRoom'
  <2>1. hook'[h].pc = "lookup" /\ (\A g \in Hooks \ {h} : hook'[g] = hook[g])
        /\ UNCHANGED <<transfer, credits>>
    BY <1>2 DEF TypeOK, Deliver, NoHook
  <2>2. \A g \in Hooks : hook'[g].pc \in PayingPcs =>
          hook[g].pc \in PayingPcs /\ Order(g)' = Order(g)
    BY <2>1 DEF PayingPcs, Order
  <2> QED BY <2>1, <2>2, RoomKept
<1>3. ASSUME NEW h \in Hooks, HookStep(h) \/ HookFails(h) PROVE CreditRoom'
  <2>0. /\ hook[h].pc # "idle"
        /\ hook'[h] = NoHook \/ hook'[h].tr = hook[h].tr
        /\ \A g \in Hooks \ {h} : hook'[g] = hook[g]
        /\ transfer' = transfer
    BY <1>3, StepOfRequest
  <2>1. \A g \in Hooks : hook'[g].pc \in PayingPcs => Order(g)' = Order(g)
    BY <2>0 DEF PayingPcs, Order, NoHook
  <2>2. CASE PaidCommit(h)
    <3> DEFINE o == Order(h)
    <3>1. o \in Payments /\ h \in Paying(o)
      BY <2>0, <2>2, OrderType DEF Paying, PayingPcs, PaidCommit
    <3>2. hook'[h].pc = "idle"
      BY <2>2 DEF TypeOK, PaidCommit, Answer, NoHook
    <3>3. credits'[o] = credits[o] + 1 /\ \A p \in Payments \ {o} : credits'[p] = credits[p]
      BY <2>2, <3>1 DEF TypeOK, PaidCommit
    <3>4. ASSUME NEW p \in Payments
          PROVE  credits'[p] + Cardinality(Paying(p)') <= Cardinality(Hooks)
      <4>1. Paying(p)' \subseteq Paying(p) \ {h} /\ Paying(p) \subseteq Hooks
        BY <2>0, <2>1, <3>2 DEF Paying, PayingPcs
      <4>2. /\ credits[p] \in Nat /\ Cardinality(Hooks) \in Nat
            /\ Cardinality(Paying(p)) \in Nat /\ Cardinality(Paying(p)') \in Nat
            /\ credits[p] + Cardinality(Paying(p)) <= Cardinality(Hooks)
        BY <4>1, PayingIsFinite DEF TypeOK, CreditRoom
      <4>3. Cardinality(Paying(p)') <= Cardinality(Paying(p) \ {h})
            /\ Cardinality(Paying(p) \ {h}) <= Cardinality(Paying(p))
            /\ Cardinality(Paying(p) \ {h}) \in Nat
        BY <4>1, PayingIsFinite, FS_Subset
      <4>4. CASE p = o
        <5>1. Cardinality(Paying(p) \ {h}) = Cardinality(Paying(p)) - 1
          BY <3>1, <4>1, <4>4, PayingIsFinite, FS_RemoveElement
        <5> QED BY <3>3, <4>2, <4>3, <4>4, <5>1
      <4>5. CASE p # o
        BY <3>3, <4>2, <4>3, <4>5
      <4> QED BY <4>4, <4>5
    <3> QED BY <3>4 DEF CreditRoom
  <2>3. CASE ~PaidCommit(h) /\ hook[h].pc \in PayingPcs
    <3>1. credits' = credits
      BY <1>3, <2>3 DEF HookStep, Lookup, Find, Expire, PaidRead, PaidWrite, PaidUser, HookFails
    <3> QED BY <2>0, <2>1, <2>3, <3>1, RoomKept
  <2>4. CASE hook[h].pc \notin PayingPcs /\ hook'[h].pc \notin PayingPcs
    <3>1. credits' = credits
      BY <1>3, <2>4 DEF HookStep, Lookup, Find, Expire, PaidRead, PaidWrite, PaidUser,
                        PaidCommit, HookFails, PayingPcs
    <3> QED BY <2>0, <2>1, <2>4, <3>1, RoomKept
  <2>5. CASE hook[h].pc \notin PayingPcs /\ hook'[h].pc \in PayingPcs
    <3>1. Order(h) \in Pending /\ credits' = credits
      BY <1>3, <2>5 DEF TypeOK, Requests, HookStep, Lookup, Find, Found, Expire, PaidRead, PaidWrite,
                        PaidUser, PaidCommit, HookFails, PayingPcs, Answer, To, NoHook
    <3>2. ASSUME NEW p \in Payments
          PROVE  credits'[p] + Cardinality(Paying(p)') <= Cardinality(Hooks)
      <4>1. /\ credits[p] \in Nat /\ Cardinality(Hooks) \in Nat
            /\ Cardinality(Paying(p)) \in Nat /\ Cardinality(Paying(p)') \in Nat
            /\ Cardinality(Paying(p)') <= Cardinality(Hooks)
            /\ credits[p] + Cardinality(Paying(p)) <= Cardinality(Hooks)
        <5>1. Paying(p) \subseteq Hooks /\ Paying(p)' \subseteq Hooks
          BY DEF Paying
        <5> QED BY <5>1, PayingIsFinite DEF TypeOK, CreditRoom
      <4>2. CASE p = Order(h)
        <5>1. credits[p] = 0
          BY <3>1, <4>2 DEF Pending, PendingIsUncredited
        <5> QED BY <3>1, <4>1, <5>1
      <4>3. CASE p # Order(h)
        <5>1. Paying(p)' \subseteq Paying(p) /\ Paying(p) \subseteq Hooks
          BY <2>0, <2>1, <2>5, <4>3 DEF Paying
        <5>2. Cardinality(Paying(p)') <= Cardinality(Paying(p))
          BY <5>1, PayingIsFinite, FS_Subset
        <5> QED BY <3>1, <4>1, <5>2
      <4> QED BY <4>2, <4>3
    <3> QED BY <3>2 DEF CreditRoom
  <2> QED BY <2>2, <2>3, <2>4, <2>5
<1>4. CASE Crash
  <2>1. credits' = credits /\ \A g \in Hooks : hook'[g].pc = "idle"
    BY <1>4 DEF Crash, NoHook
  <2> QED BY <2>1, RoomKept DEF PayingPcs
<1>5. CASE UNCHANGED <<hook, transfer, credits>>
  BY <1>5, RoomKept DEF Order
<1> QED
  BY <1>1, <1>2, <1>3, <1>4, <1>5
  DEF Next, vars, CheckoutExpires, CheckoutCreates, ExpireOverdue, CheckRead, CheckWrite,
      SyncExpired, AdminSets, Tick

-----------------------------------------------------------------------------
(* The theorems                                                            *)

LEMMA IInvInit == Init => IInv
<1> SUFFICES ASSUME Init PROVE IInv
  OBVIOUS
<1>1. TypeOK
  BY TypeInit
<1>2. RequestsAreReal /\ PendingIsUncredited /\ PaidInThePast /\ BaseCoversPeriod /\ PaidIsGranted
  BY DEF Init, NoHook, NoPayment, RequestsAreReal, PendingIsUncredited, PaidInThePast,
         BaseCoversPeriod, PaidIsGranted
<1>3. CreditRoom
  <2> SUFFICES ASSUME NEW p \in Payments
               PROVE  credits[p] + Cardinality(Paying(p)) <= Cardinality(Hooks)
    BY DEF CreditRoom
  <2>1. credits[p] = 0 /\ Paying(p) \subseteq Hooks
    BY DEF Init, Paying
  <2> QED BY <2>1, PayingIsFinite
<1> QED BY <1>1, <1>2, <1>3 DEF IInv

LEMMA IInvStep == IInv /\ [Next]_vars => IInv'
BY TypeStep, RealStep, UncreditedStep, BaseStep, GrantStep, RoomStep DEF IInv

\* The inductive invariant holds of every behaviour of the billing code.
THEOREM Invariant == Spec => []IInv
BY IInvInit, IInvStep, PTL DEF Spec

\* Every variable keeps its type, for all users, transfers, requests and bounds.
THEOREM TypeCorrect == Spec => []TypeOK
<1>1. IInv => TypeOK
  BY DEF IInv
<1> QED BY <1>1, Invariant, PTL

\* A payment recorded has bought a full period from the moment it was paid.
THEOREM PaidIsAlwaysGranted == Spec => []PaidIsGranted
<1>1. IInv => PaidIsGranted
  BY DEF IInv
<1> QED BY <1>1, Invariant, PTL

\* An order is credited at most as often as webhook requests can overlap.
THEOREM CreditsAreBounded == Spec => []CreditsBounded
<1>1. ASSUME IInv PROVE CreditsBounded
  <2> SUFFICES ASSUME NEW p \in Payments PROVE credits[p] <= Cardinality(Hooks)
    BY DEF CreditsBounded
  <2>1. Paying(p) \subseteq Hooks
    BY DEF Paying
  <2> QED BY <1>1, <2>1, PayingIsFinite DEF IInv, CreditRoom, TypeOK
<1> QED BY <1>1, Invariant, PTL
=============================================================================
