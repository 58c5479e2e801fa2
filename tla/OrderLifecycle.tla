---------------------------- MODULE OrderLifecycle ----------------------------
(***************************************************************************)
(* One order from the sale to its end: the orders row, the request         *)
(* handlers of the buyer and of the seller that race on it, and the        *)
(* workers (one per API instance) that close an order nobody pays for.     *)
(*                                                                         *)
(* Every handler reads the order, decides, writes with one UPDATE whose    *)
(* WHERE repeats part of the decision, and reads the order again for its   *)
(* reply.  A step is one such statement.  Times are in minutes.            *)
(***************************************************************************)
EXTENDS Naturals, FiniteSets

CONSTANTS
  Calls, Op,          \* the requests, and what each asks for
  Addresses,          \* shipping addresses buyers submit (not blank)
  PayTimeout,         \* PAY_TIMEOUT_MINUTES
  TickMin, MaxTime,   \* bound: the clock moves by TickMin up to MaxTime
  MaxRequests,        \* bound: requests that are begun
  NULL                \* SQL NULL

Ops == {"pay", "buyerCancel", "address", "confirm",     \* the buyer's
        "sellerCancel", "ship", "refund"}               \* the seller's

ASSUME OrderConstants ==
  /\ Op \in [Calls -> Ops]
  /\ PayTimeout \in Nat \ {0} /\ TickMin \in Nat \ {0} /\ MaxTime \in Nat
  /\ MaxRequests \in Nat
  /\ NULL \notin Addresses \cup Nat

VARIABLES
  order,   \* the orders row, NULL while there is none
  now,     \* wall clock, of MySQL and of the API instances
  pc,      \* what each request does next, or how it was answered
  from     \* the status a refund has read

vars == <<order, now, pc, from>>

New(timeout) ==
  [ status |-> "pending_pay", createdAt |-> now, expireAt |-> now + timeout,
    paidAt |-> NULL, address |-> NULL, shippedAt |-> NULL, completedAt |-> NULL,
    cancelledBy |-> NULL, refundedAt |-> NULL ]

(* The order is not there yet, or it has been paid.                        *)
Paid == [ New(PayTimeout) EXCEPT !.status = "paid", !.paidAt = now ]

Init ==
  /\ now = 0
  /\ order \in { NULL, Paid }
  /\ pc = [c \in Calls |-> "start"]
  /\ from = [c \in Calls |-> NULL]

-------------------------------------------------------------------------------
(* The sale makes the order, once: uk_session.  Definitions that a comment *)
(* calls mutants are plausible bugs of the definition they precede; nothing*)
(* uses them, they only show that the properties notice.                   *)

CapTimeout == 30      \* what a bid at the cap gives its buyer to pay

CreateFromSettledSession ==
  /\ order = NULL
  /\ order' = New(PayTimeout)
  /\ UNCHANGED <<now, pc, from>>

CreateAtCap ==
  /\ order = NULL
  /\ order' = New(CapTimeout)
  /\ UNCHANGED <<now, pc, from>>

-------------------------------------------------------------------------------
(* Orders nobody pays for.                                                 *)

(* CloseExpiredPending: UPDATE ... WHERE pending_pay AND pay_expire_at < ?.*)
(* (Mutants: whatever its status; never for an order of a bid at the cap.) *)
ClosedIfExpired ==
  IF order.expireAt < now THEN [order EXCEPT !.status = "closed"] ELSE order

ClosedUnlessCap ==
  IF order.status = "pending_pay" /\ order.expireAt < now
     /\ order.expireAt # order.createdAt + CapTimeout
  THEN [order EXCEPT !.status = "closed"] ELSE order

Closed ==
  IF order.status = "pending_pay" /\ order.expireAt < now
  THEN [order EXCEPT !.status = "closed"] ELSE order

(* A worker's minute has passed.                                           *)
CloseExpiredPending ==
  /\ order # NULL
  /\ order' = Closed /\ order' # order
  /\ UNCHANGED <<now, pc, from>>

-------------------------------------------------------------------------------
(* The handlers: first half.                                               *)

Goto(c, label) == pc' = [pc EXCEPT ![c] = label]

(* MockPay and CancelPendingByBuyer begin with closeExpiredPending.        *)
Sweep(c) ==
  /\ order # NULL /\ pc[c] = "start" /\ Op[c] \in {"pay", "buyerCancel"}
  /\ order' = Closed
  /\ Goto(c, "read")
  /\ UNCHANGED <<now, from>>

(* GetByID, and the handler's own test of what it got.                     *)
Read(c, op, start, permitted) ==
  /\ order # NULL /\ pc[c] = start /\ Op[c] = op
  /\ Goto(c, IF permitted THEN "write" ELSE "refused")
  /\ UNCHANGED <<order, now>>

PayExpired == now > order.expireAt

MockPay(c) ==
  /\ Read(c, "pay", "read", order.status = "pending_pay" /\ ~PayExpired)
  /\ UNCHANGED from

CancelPendingByBuyer(c) ==
  /\ Read(c, "buyerCancel", "read", order.status = "pending_pay" /\ ~PayExpired)
  /\ UNCHANGED from

CancelPendingBySeller(c) ==
  /\ Read(c, "sellerCancel", "start", order.status = "pending_pay")
  /\ UNCHANGED from

SubmitShippingAddress(c) ==
  /\ Read(c, "address", "start", order.status = "paid")
  /\ UNCHANGED from

ShipOrder(c) ==
  /\ Read(c, "ship", "start", order.status = "paid" /\ order.address # NULL)
  /\ UNCHANGED from

ConfirmReceive(c) ==
  /\ Read(c, "confirm", "start", order.status = "shipped")
  /\ UNCHANGED from

Refundable == order.status \in {"paid", "shipped"}

RefundBySeller(c) ==
  /\ Read(c, "refund", "start", Refundable)
  /\ from' = IF Refundable THEN [from EXCEPT ![c] = order.status] ELSE from

-------------------------------------------------------------------------------
(* The handlers: the UPDATE, which may match nothing.                      *)

Write(c, op, where, row) ==
  /\ order # NULL /\ pc[c] = "write" /\ Op[c] = op
  /\ order' = IF where THEN row ELSE order
  /\ Goto(c, IF where THEN "reply" ELSE "refused")
  /\ UNCHANGED <<now, from>>

(* (Mutant: UPDATE ... WHERE id = ?.)                                      *)
MarkPaidById(c) ==
  Write(c, "pay", TRUE, [order EXCEPT !.status = "paid", !.paidAt = now])

MarkPaid(c) ==
  Write(c, "pay", order.status = "pending_pay",
        [order EXCEPT !.status = "paid", !.paidAt = now])

MarkCancelled(c, op, actor) ==
  Write(c, op, order.status = "pending_pay",
        [order EXCEPT !.status = "cancelled", !.cancelledBy = actor])

(* (Mutant: UPDATE ... WHERE id = ?.)                                      *)
UpdateShippingById(c) ==
  \E a \in Addresses : Write(c, "address", TRUE, [order EXCEPT !.address = a])

UpdateShipping(c) ==
  \E a \in Addresses :
    Write(c, "address", order.status = "paid", [order EXCEPT !.address = a])

MarkShipped(c) ==
  Write(c, "ship", order.status = "paid" /\ order.address # NULL,
        [order EXCEPT !.status = "shipped", !.shippedAt = now])

MarkCompleted(c) ==
  Write(c, "confirm", order.status = "shipped",
        [order EXCEPT !.status = "completed", !.completedAt = now])

(* (Mutant: UPDATE ... WHERE status IN ('paid','shipped','completed').)    *)
MarkRefundedLate(c) ==
  Write(c, "refund", order.status \in {"paid", "shipped", "completed"},
        [order EXCEPT !.status = "refunded", !.refundedAt = now, !.cancelledBy = "seller"])

MarkRefunded(c) ==
  Write(c, "refund", order.status = from[c],
        [order EXCEPT !.status = "refunded", !.refundedAt = now, !.cancelledBy = "seller"])

(* Read again, notify, answer.                                             *)
Reply(c) ==
  /\ pc[c] = "reply"
  /\ Goto(c, "ok")
  /\ UNCHANGED <<order, now, from>>

(* A database error, a cancelled request or the death of the instance.     *)
Abort(c) ==
  /\ pc[c] \in {"read", "write", "reply"}
  /\ Goto(c, "failed")
  /\ UNCHANGED <<order, now, from>>

Tick ==
  /\ now + TickMin <= MaxTime
  /\ now' = now + TickMin
  /\ UNCHANGED <<order, pc, from>>

-------------------------------------------------------------------------------
Begin(c) ==
  \/ Sweep(c) \/ MockPay(c) \/ CancelPendingByBuyer(c) \/ CancelPendingBySeller(c)
  \/ SubmitShippingAddress(c) \/ ShipOrder(c) \/ ConfirmReceive(c) \/ RefundBySeller(c)

Update(c) ==
  \/ MarkPaid(c) \/ MarkCancelled(c, "buyerCancel", "buyer")
  \/ MarkCancelled(c, "sellerCancel", "seller")
  \/ UpdateShipping(c) \/ MarkShipped(c) \/ MarkCompleted(c) \/ MarkRefunded(c)

Answered == {"ok", "refused", "failed"}

(* Every request has been answered and the clock has reached its bound.    *)
Terminated ==
  /\ now + TickMin > MaxTime
  /\ \A c \in Calls : pc[c] \in {"start"} \cup Answered
  /\ UNCHANGED vars

Begun == { c \in Calls : pc[c] # "start" }
MayBegin(c) == c \in Begun \/ Cardinality(Begun) < MaxRequests

Next ==
  \/ CreateFromSettledSession \/ CreateAtCap \/ CloseExpiredPending
  \/ \E c \in Calls : (MayBegin(c) /\ Begin(c)) \/ Update(c) \/ Reply(c) \/ Abort(c)
  \/ Tick \/ Terminated

Spec == Init /\ [][Next]_vars

(* The worker's ticker keeps firing; nobody has to make a request.         *)
FairSpec == Spec /\ WF_vars(CloseExpiredPending)
-------------------------------------------------------------------------------
(* What is claimed of all this.                                            *)

Statuses == { "pending_pay", "paid", "shipped", "completed",
              "cancelled", "closed", "refunded" }
Times    == Nat \cup {NULL}
Orders   ==
  [ status : Statuses, createdAt : Nat, expireAt : Nat, paidAt : Times,
    address : Addresses \cup {NULL}, shippedAt : Times, completedAt : Times,
    cancelledBy : {"buyer", "seller", NULL}, refundedAt : Times ]

ASSUME NullIsNoOrder == NULL \notin Orders /\ NULL \notin Statuses

TypeOK ==
  /\ order \in Orders \cup {NULL}
  /\ now \in Nat
  /\ pc \in [Calls -> {"start", "read", "write", "reply"} \cup Answered]
  /\ from \in [Calls -> {"paid", "shipped", NULL}]

(* What a success reply tells its reader.                                  *)
Kept(c) ==
  /\ order # NULL
  /\ Op[c] = "pay" => order.paidAt # NULL
  /\ Op[c] = "buyerCancel" => order.status = "cancelled" /\ order.cancelledBy = "buyer"
  /\ Op[c] = "sellerCancel" => order.status = "cancelled" /\ order.cancelledBy = "seller"
  /\ Op[c] = "address" => order.address # NULL
  /\ Op[c] = "ship" => order.shippedAt # NULL
  /\ Op[c] = "confirm" => order.status = "completed"
  /\ Op[c] = "refund" => order.status = "refunded"

(* A success reply is never overtaken by a request or a worker that raced  *)
(* with it: the paid order is not closed, the cancelled one not paid, the  *)
(* refunded one not completed.                                             *)
RepliesHold == \A c \in Calls : pc[c] = "ok" => Kept(c)

(* Of requests that ask for the same thing at most one is told it did it.  *)
(* (An address may be corrected until the parcel is sent.)                 *)
OneSuccess ==
  \A c, d \in Calls :
    pc[c] = "ok" /\ pc[d] = "ok" /\ Op[c] = Op[d] /\ Op[c] # "address" => c = d

(* The columns agree with the status: what was not paid for is not sent,   *)
(* what is cancelled or closed was never paid, a parcel has an address.    *)
RowTellsItsPast ==
  order # NULL =>
    /\ order.paidAt = NULL <=> order.status \in {"pending_pay", "cancelled", "closed"}
    /\ order.status \in {"shipped", "completed"} => order.shippedAt # NULL
    /\ order.shippedAt # NULL =>
         /\ order.status \in {"shipped", "completed", "refunded"}
         /\ order.address # NULL /\ order.paidAt <= order.shippedAt
    /\ order.completedAt # NULL <=> order.status = "completed"
    /\ order.refundedAt # NULL <=> order.status = "refunded"

(* The state machine of docs/api-spec.md, whatever races.                  *)
Moves ==
  { <<"pending_pay", "paid">>, <<"pending_pay", "cancelled">>, <<"pending_pay", "closed">>,
    <<"paid", "shipped">>, <<"paid", "refunded">>,
    <<"shipped", "completed">>, <<"shipped", "refunded">> }

OnlyDocumentedMoves ==
  [][order # NULL => \/ order'.status = order.status
                     \/ <<order.status, order'.status>> \in Moves]_vars

(* The parcel goes to the address that was there when it was sent: a late  *)
(* correction that had read "paid" does not get through.                   *)
ParcelKeepsItsAddress ==
  [][order # NULL /\ order.shippedAt # NULL =>
       order'.address = order.address /\ order'.shippedAt = order.shippedAt]_vars

(* An order nobody pays for in time does not stay pending.                 *)
Overdue == order # NULL /\ order.status = "pending_pay" /\ order.expireAt < now
UnpaidGetsClosed == Overdue ~> ~Overdue

-------------------------------------------------------------------------------
(* Why the invariants hold: what a reply will say is true from the UPDATE  *)
(* on, and an UPDATE that succeeds makes every rival's WHERE fail.         *)
Done(c) == pc[c] \in {"reply", "ok"}

Inv ==
  /\ TypeOK /\ RowTellsItsPast
  /\ order # NULL /\ order.paidAt # NULL => order.paidAt <= now
  /\ \A c \in Calls : Done(c) => Kept(c)
  /\ \A c, d \in Calls : Done(c) /\ Done(d) /\ Op[c] = Op[d] /\ Op[c] # "address" => c = d
===============================================================================
