------------------------ MODULE OrderLifecycle_proofs ------------------------
(***************************************************************************)
(* Proofs about OrderLifecycle, for every set of requests, every address   *)
(* and every timeout.                                                      *)
(***************************************************************************)
EXTENDS OrderLifecycle, TLAPS

(* What an UPDATE that matched leaves behind.                              *)
Written(c) ==
  /\ order' \in Orders
  /\ RowTellsItsPast'
  /\ order'.paidAt # NULL => order'.paidAt <= now
  /\ Kept(c)'
  /\ \A d \in Calls : Kept(d) => Kept(d)' /\ (Op[d] = Op[c] => Op[c] = "address")

(* A handler whose UPDATE matched has done what its reply will say; the    *)
(* row it leaves is consistent and breaks no other handler's word.         *)
LEMMA UpdateEffect ==
  ASSUME Inv, NEW c \in Calls, Update(c)
  PROVE  /\ order # NULL /\ now' = now /\ from' = from /\ pc[c] = "write"
         /\ \/ order' = order /\ pc' = [pc EXCEPT ![c] = "refused"]
            \/ pc' = [pc EXCEPT ![c] = "reply"] /\ Written(c)
<1> DEFINE Effect ==
      /\ order # NULL /\ now' = now /\ from' = from /\ pc[c] = "write"
      /\ \/ order' = order /\ pc' = [pc EXCEPT ![c] = "refused"]
         \/ pc' = [pc EXCEPT ![c] = "reply"] /\ Written(c)
<1>1. /\ now \in Nat /\ NULL \notin Orders /\ NULL \notin Nat /\ NULL \notin Addresses
      /\ order # NULL => order \in Orders
      /\ RowTellsItsPast
      /\ order # NULL /\ order.paidAt # NULL => order.paidAt <= now
      /\ from[c] \in {"paid", "shipped", NULL}
  BY OrderConstants, NullIsNoOrder DEF Inv, TypeOK
<1>2. CASE MarkPaid(c)
  <2>1. CASE order.status = "pending_pay"
    <3>1. /\ order # NULL /\ now' = now /\ from' = from /\ pc[c] = "write" /\ Op[c] = "pay"
          /\ pc' = [pc EXCEPT ![c] = "reply"]
          /\ order' = [order EXCEPT !.status = "paid", !.paidAt = now]
      BY <1>2, <2>1 DEF MarkPaid, Write, Goto
    <3>2. order' \in Orders /\ order' # NULL
      BY <1>1, <3>1 DEF Orders, Statuses, Times
    <3>3. /\ order'.status = "paid" /\ order'.paidAt = now
          /\ order'.address = order.address /\ order'.shippedAt = order.shippedAt
          /\ order'.completedAt = order.completedAt /\ order'.refundedAt = order.refundedAt
          /\ order'.cancelledBy = order.cancelledBy
      BY <1>1, <3>1 DEF Orders
    <3>4. order.shippedAt = NULL /\ order.completedAt = NULL /\ order.refundedAt = NULL
          /\ order.paidAt = NULL
      BY <1>1, <2>1, <3>1 DEF RowTellsItsPast
    <3>5. RowTellsItsPast'
      BY <1>1, <3>3, <3>4 DEF RowTellsItsPast
    <3>6. \A d \in Calls : Kept(d) => Kept(d)' /\ Op[d] # "pay"
      BY <2>1, <3>2, <3>3, <3>4 DEF Kept
    <3> QED BY <1>1, <3>1, <3>2, <3>3, <3>5, <3>6 DEF Written, Kept
  <2>2. CASE order.status # "pending_pay"
    BY <1>2, <2>2 DEF MarkPaid, Write, Goto
  <2> QED BY <2>1, <2>2
<1>3. ASSUME NEW op, NEW actor, <<op, actor>> \in {<<"buyerCancel", "buyer">>, <<"sellerCancel", "seller">>},
             MarkCancelled(c, op, actor)
      PROVE  Effect
  <2>1. CASE order.status = "pending_pay"
    <3>1. /\ order # NULL /\ now' = now /\ from' = from /\ pc[c] = "write" /\ Op[c] = op
          /\ pc' = [pc EXCEPT ![c] = "reply"]
          /\ order' = [order EXCEPT !.status = "cancelled", !.cancelledBy = actor]
      BY <1>3, <2>1 DEF MarkCancelled, Write, Goto
    <3>2. order' \in Orders /\ order' # NULL
      BY <1>1, <1>3, <3>1 DEF Orders, Statuses, Times
    <3>3. /\ order'.status = "cancelled" /\ order'.paidAt = order.paidAt
          /\ order'.address = order.address /\ order'.shippedAt = order.shippedAt
          /\ order'.completedAt = order.completedAt /\ order'.refundedAt = order.refundedAt
          /\ order'.cancelledBy = actor
      BY <1>1, <3>1 DEF Orders
    <3>4. order.shippedAt = NULL /\ order.completedAt = NULL /\ order.refundedAt = NULL
          /\ order.paidAt = NULL
      BY <1>1, <2>1, <3>1 DEF RowTellsItsPast
    <3>5. RowTellsItsPast'
      BY <1>1, <3>3, <3>4 DEF RowTellsItsPast
    <3>6. \A d \in Calls : Kept(d) => Kept(d)' /\ Op[d] # op
      BY <1>3, <2>1, <3>2, <3>3, <3>4 DEF Kept
    <3>7. Kept(c)'
      BY <1>3, <3>1, <3>2, <3>3 DEF Kept
    <3> QED BY <1>1, <3>1, <3>2, <3>3, <3>4, <3>5, <3>6, <3>7 DEF Written
  <2>2. CASE order.status # "pending_pay"
    BY <1>3, <2>2 DEF MarkCancelled, Write, Goto
  <2> QED BY <2>1, <2>2
<1>4. CASE UpdateShipping(c)
  <2>1. PICK a \in Addresses :
          Write(c, "address", order.status = "paid", [order EXCEPT !.address = a])
    BY <1>4 DEF UpdateShipping
  <2>2. CASE order.status = "paid"
    <3>1. /\ order # NULL /\ now' = now /\ from' = from /\ pc[c] = "write" /\ Op[c] = "address"
          /\ pc' = [pc EXCEPT ![c] = "reply"]
          /\ order' = [order EXCEPT !.address = a]
      BY <2>1, <2>2 DEF Write, Goto
    <3>2. order' \in Orders /\ order' # NULL
      BY <1>1, <3>1 DEF Orders
    <3>3. /\ order'.status = "paid" /\ order'.paidAt = order.paidAt
          /\ order'.address = a /\ order'.shippedAt = order.shippedAt
          /\ order'.completedAt = order.completedAt /\ order'.refundedAt = order.refundedAt
          /\ order'.cancelledBy = order.cancelledBy
      BY <1>1, <2>2, <3>1 DEF Orders
    <3>4. a # NULL
      BY <1>1
    <3>5. RowTellsItsPast'
      BY <1>1, <2>2, <3>1, <3>3, <3>4 DEF RowTellsItsPast
    <3>6. \A d \in Calls : Kept(d) => Kept(d)'
      BY <2>2, <3>2, <3>3, <3>4 DEF Kept
    <3>7. Kept(c)'
      BY <3>1, <3>2, <3>3, <3>4 DEF Kept
    <3>8. order'.paidAt # NULL => order'.paidAt <= now
      BY <1>1, <3>1, <3>3
    <3> QED BY <3>1, <3>2, <3>5, <3>6, <3>7, <3>8 DEF Written
  <2>3. CASE order.status # "paid"
    BY <2>1, <2>3 DEF Write, Goto
  <2> QED BY <2>2, <2>3
<1>5. CASE MarkShipped(c)
  BY <1>1, <1>5, ZenonT(40) DEF MarkShipped, Write, Goto, Written, Kept, RowTellsItsPast, Orders, Statuses, Times
<1>6. CASE MarkCompleted(c)
  <2>1. CASE order.status = "shipped"
    <3>1. /\ order # NULL /\ now' = now /\ from' = from /\ pc[c] = "write" /\ Op[c] = "confirm"
          /\ pc' = [pc EXCEPT ![c] = "reply"]
          /\ order' = [order EXCEPT !.status = "completed", !.completedAt = now]
      BY <1>6, <2>1 DEF MarkCompleted, Write, Goto
    <3>2. order' \in Orders /\ order' # NULL
      BY <1>1, <3>1 DEF Orders, Statuses, Times
    <3>3. /\ order'.status = "completed" /\ order'.paidAt = order.paidAt
          /\ order'.address = order.address /\ order'.shippedAt = order.shippedAt
          /\ order'.completedAt = now /\ order'.refundedAt = order.refundedAt
      BY <1>1, <3>1 DEF Orders
    <3>4. /\ order.paidAt # NULL /\ order.shippedAt # NULL /\ order.refundedAt = NULL
          /\ order.address # NULL /\ order.paidAt <= order.shippedAt
      BY <1>1, <2>1, <3>1 DEF RowTellsItsPast
    <3>5. RowTellsItsPast'
      BY <1>1, <3>3, <3>4 DEF RowTellsItsPast
    <3>6. \A d \in Calls : Kept(d) => Kept(d)' /\ Op[d] # "confirm"
      BY <2>1, <3>2, <3>3, <3>4 DEF Kept
    <3>7. Kept(c)'
      BY <3>1, <3>2, <3>3 DEF Kept
    <3>8. order'.paidAt # NULL => order'.paidAt <= now
      BY <1>1, <3>1, <3>3
    <3> QED BY <3>1, <3>2, <3>5, <3>6, <3>7, <3>8 DEF Written
  <2>2. CASE order.status # "shipped"
    BY <1>6, <2>2 DEF MarkCompleted, Write, Goto
  <2> QED BY <2>1, <2>2
<1>7. CASE MarkRefunded(c)
  <2>1. CASE order.status = from[c]
    <3>1. /\ order # NULL /\ now' = now /\ from' = from /\ pc[c] = "write" /\ Op[c] = "refund"
          /\ pc' = [pc EXCEPT ![c] = "reply"]
          /\ order' = [order EXCEPT !.status = "refunded", !.refundedAt = now,
                                    !.cancelledBy = "seller"]
      BY <1>7, <2>1 DEF MarkRefunded, Write, Goto
    <3>2. order' \in Orders /\ order' # NULL
      BY <1>1, <3>1 DEF Orders, Statuses, Times
    <3>3. /\ order'.status = "refunded" /\ order'.paidAt = order.paidAt
          /\ order'.address = order.address /\ order'.shippedAt = order.shippedAt
          /\ order'.completedAt = order.completedAt /\ order'.refundedAt = now
      BY <1>1, <3>1 DEF Orders
    <3>4. order.status \in {"paid", "shipped"}
      <4>1. order.status # NULL
        BY <1>1, <3>1, NullIsNoOrder DEF Orders
      <4> QED BY <1>1, <2>1, <4>1
    <3>5. order.paidAt # NULL /\ order.completedAt = NULL
      BY <1>1, <3>1, <3>4 DEF RowTellsItsPast
    <3>6. RowTellsItsPast'
      BY <1>1, <3>1, <3>3, <3>5 DEF RowTellsItsPast
    <3>7. \A d \in Calls : Kept(d) => Kept(d)' /\ Op[d] # "refund"
      BY <3>2, <3>3, <3>4 DEF Kept
    <3>8. Kept(c)'
      BY <3>1, <3>2, <3>3 DEF Kept
    <3>9. order'.paidAt # NULL => order'.paidAt <= now
      BY <1>1, <3>1, <3>3
    <3> QED BY <3>1, <3>2, <3>6, <3>7, <3>8, <3>9 DEF Written
  <2>2. CASE order.status # from[c]
    BY <1>7, <2>2 DEF MarkRefunded, Write, Goto
  <2> QED BY <2>1, <2>2
<1> QED BY <1>2, <1>3, <1>4, <1>5, <1>6, <1>7 DEF Update

Labels == {"start", "read", "write", "reply"} \cup Answered

(* A step after which no more requests have done their UPDATE, and which   *)
(* breaks no word already given, keeps the invariant.                      *)
LEMMA NothingDone ==
  ASSUME Inv,
         order' \in Orders \cup {NULL}, RowTellsItsPast',
         order' # NULL /\ order'.paidAt # NULL => order'.paidAt <= now',
         now' \in Nat, pc' \in [Calls -> Labels], from' \in [Calls -> {"paid", "shipped", NULL}],
         \A d \in Calls : (Kept(d) => Kept(d)') /\ (Done(d)' => Done(d))
  PROVE  Inv'
<1>1. TypeOK'
  BY DEF TypeOK, Labels
<1>2. \A d \in Calls : Done(d)' => Kept(d)'
  BY DEF Inv
<1>3. \A c, d \in Calls :
        Done(c)' /\ Done(d)' /\ Op[c] = Op[d] /\ Op[c] # "address" => c = d
  BY DEF Inv
<1> QED BY <1>1, <1>2, <1>3 DEF Inv

(* Closing touches only a pending order, about which nobody has said       *)
(* anything.                                                               *)
LEMMA ClosedEffect ==
  ASSUME Inv, order # NULL, order' = Closed, now' = now
  PROVE  /\ order' \in Orders /\ RowTellsItsPast'
         /\ order'.paidAt # NULL => order'.paidAt <= now'
         /\ \A d \in Calls : Kept(d) => Kept(d)'
<1>1. /\ order \in Orders /\ RowTellsItsPast /\ NULL \notin Orders
      /\ order.paidAt # NULL => order.paidAt <= now
  BY NullIsNoOrder DEF Inv, TypeOK
<1>2. CASE order.status = "pending_pay" /\ order.expireAt < now
  <2>1. order' = [order EXCEPT !.status = "closed"]
    BY <1>2 DEF Closed
  <2>2. order' \in Orders /\ order' # NULL
    BY <1>1, <2>1 DEF Orders, Statuses
  <2>3. /\ order'.status = "closed" /\ order'.paidAt = order.paidAt
        /\ order'.address = order.address /\ order'.shippedAt = order.shippedAt
        /\ order'.completedAt = order.completedAt /\ order'.refundedAt = order.refundedAt
        /\ order'.cancelledBy = order.cancelledBy
    BY <1>1, <2>1 DEF Orders
  <2>4. RowTellsItsPast'
    BY <1>1, <1>2, <2>2, <2>3 DEF RowTellsItsPast
  <2>5. \A d \in Calls : Kept(d) => Kept(d)'
    BY <1>2, <2>2, <2>3 DEF Kept
  <2> QED BY <1>1, <2>2, <2>3, <2>4, <2>5
<1>3. CASE ~(order.status = "pending_pay" /\ order.expireAt < now)
  <2>1. order' = order
    BY <1>3 DEF Closed
  <2> QED BY <1>1, <2>1 DEF RowTellsItsPast, Kept
<1> QED BY <1>2, <1>3

LEMMA InitInv == Init => Inv
<1> SUFFICES ASSUME Init PROVE Inv
  OBVIOUS
<1>1. now = 0 /\ \A c \in Calls : ~Done(c)
  BY DEF Init, Done
<1>2. /\ now \in Nat
      /\ pc \in [Calls -> {"start", "read", "write", "reply"} \cup Answered]
      /\ from \in [Calls -> {"paid", "shipped", NULL}]
  BY DEF Init, Answered
<1>3. CASE order = NULL
  BY <1>1, <1>2, <1>3 DEF Inv, TypeOK, RowTellsItsPast
<1>4. CASE order = Paid
  <2>1. /\ order.status = "paid" /\ order.paidAt = 0 /\ order.shippedAt = NULL
        /\ order.completedAt = NULL /\ order.refundedAt = NULL
    BY <1>1, <1>4 DEF Paid, New
  <2>2. order \in Orders /\ order # NULL /\ 0 # NULL
    <3>1. 0 \in Nat /\ now \in Nat /\ now + PayTimeout \in Nat /\ 0 # NULL
      BY <1>1, OrderConstants
    <3>2. order = [ status |-> "paid", createdAt |-> now, expireAt |-> now + PayTimeout,
                    paidAt |-> now, address |-> NULL, shippedAt |-> NULL, completedAt |-> NULL,
                    cancelledBy |-> NULL, refundedAt |-> NULL ]
      BY <1>4 DEF Paid, New
    <3>3. order \in Orders
      BY <3>1, <3>2 DEF Orders, Statuses, Times
    <3> QED BY <3>1, <3>3, NullIsNoOrder
  <2>3. RowTellsItsPast
    BY <2>1, <2>2 DEF RowTellsItsPast
  <2>4. TypeOK
    BY <1>2, <2>2 DEF TypeOK
  <2> QED BY <1>1, <2>1, <2>3, <2>4 DEF Inv
<1> QED BY <1>3, <1>4 DEF Init

(* The steps that leave the row alone and do no UPDATE.                    *)
LEMMA QuietStep ==
  ASSUME Inv, order' = order, now' \in Nat, now <= now',
         pc' \in [Calls -> Labels], from' \in [Calls -> {"paid", "shipped", NULL}],
         \A d \in Calls : Done(d)' => Done(d)
  PROVE  Inv'
<1>1. /\ order' \in Orders \cup {NULL} /\ RowTellsItsPast'
      /\ \A d \in Calls : Kept(d) => Kept(d)'
  BY DEF Inv, TypeOK, RowTellsItsPast, Kept
<1>2. order' # NULL /\ order'.paidAt # NULL => order'.paidAt <= now'
  <2>1. now \in Nat /\ order' \in Orders \cup {NULL} /\ NULL \notin Nat
    BY <1>1, OrderConstants DEF Inv, TypeOK
  <2>2. order # NULL /\ order.paidAt # NULL => order.paidAt \in Nat /\ order.paidAt <= now
    BY DEF Inv, TypeOK, Orders, Times
  <2> QED BY <2>1, <2>2
<1> QED BY <1>1, <1>2, NothingDone

LEMMA NextInv == Inv /\ [Next]_vars => Inv'
<1> SUFFICES ASSUME Inv, [Next]_vars PROVE Inv'
  OBVIOUS
<1>1. /\ now \in Nat /\ order \in Orders \cup {NULL} /\ NULL \notin Orders
      /\ pc \in [Calls -> Labels] /\ from \in [Calls -> {"paid", "shipped", NULL}]
  BY NullIsNoOrder DEF Inv, TypeOK, Labels
<1>2. ASSUME NEW timeout \in Nat, order = NULL, order' = New(timeout), UNCHANGED <<now, pc, from>>
      PROVE  Inv'
  <2>1. order' \in Orders /\ order' # NULL
    BY <1>1, <1>2 DEF New, Orders, Statuses, Times
  <2>2. order'.status = "pending_pay" /\ order'.paidAt = NULL /\ order'.shippedAt = NULL
        /\ order'.completedAt = NULL /\ order'.refundedAt = NULL
    BY <1>2 DEF New
  <2>3. RowTellsItsPast'
    BY <2>2 DEF RowTellsItsPast
  <2>4. \A d \in Calls : (Kept(d) => Kept(d)') /\ (Done(d)' => Done(d))
    BY <1>2 DEF Kept, Done
  <2> QED BY <1>1, <1>2, <2>1, <2>2, <2>3, <2>4, NothingDone
<1>3. CASE CreateFromSettledSession
  BY <1>2, <1>3, OrderConstants DEF CreateFromSettledSession
<1>4. CASE CreateAtCap
  BY <1>2, <1>4 DEF CreateAtCap, CapTimeout
<1>5. CASE CloseExpiredPending
  <2>1. order # NULL /\ order' = Closed /\ now' = now /\ pc' = pc /\ from' = from
    BY <1>5 DEF CloseExpiredPending
  <2>2. \A d \in Calls : Done(d)' => Done(d)
    BY <2>1 DEF Done
  <2> QED BY <1>1, <2>1, <2>2, ClosedEffect, NothingDone
<1>6. ASSUME NEW c \in Calls, Begin(c)
      PROVE  Inv'
  <2>1. CASE Sweep(c)
    <3>1. /\ order # NULL /\ order' = Closed /\ now' = now /\ from' = from
          /\ pc' = [pc EXCEPT ![c] = "read"]
      BY <2>1 DEF Sweep, Goto
    <3>2. pc' \in [Calls -> Labels] /\ \A d \in Calls : Done(d)' => Done(d)
      BY <1>1, <3>1 DEF Done, Labels
    <3> QED BY <1>1, <3>1, <3>2, ClosedEffect, NothingDone
  <2>2. ASSUME NEW op, NEW start, NEW permitted \in BOOLEAN, Read(c, op, start, permitted),
               from' \in [Calls -> {"paid", "shipped", NULL}]
        PROVE  Inv'
    <3>1. /\ order' = order /\ now' = now
          /\ \E label \in {"write", "refused"} : pc' = [pc EXCEPT ![c] = label]
      BY <2>2 DEF Read, Goto
    <3>2. pc' \in [Calls -> Labels] /\ \A d \in Calls : Done(d)' => Done(d)
      BY <1>1, <3>1 DEF Done, Labels, Answered
    <3> QED BY <1>1, <2>2, <3>1, <3>2, QuietStep
  <2>3. CASE RefundBySeller(c)
    <3>1. Read(c, "refund", "start", Refundable) /\ Refundable \in BOOLEAN
      BY <2>3 DEF RefundBySeller, Refundable
    <3>2. from' \in [Calls -> {"paid", "shipped", NULL}]
      BY <1>1, <2>3 DEF RefundBySeller, Refundable
    <3> QED BY <2>2, <3>1, <3>2
  <2>4. CASE \/ MockPay(c) \/ CancelPendingByBuyer(c) \/ CancelPendingBySeller(c)
             \/ SubmitShippingAddress(c) \/ ShipOrder(c) \/ ConfirmReceive(c)
    <3>1. \E op, start : \E permitted \in BOOLEAN : Read(c, op, start, permitted)
      BY <2>4 DEF MockPay, CancelPendingByBuyer, CancelPendingBySeller,
                  SubmitShippingAddress, ShipOrder, ConfirmReceive
    <3>2. from' = from
      BY <2>4 DEF MockPay, CancelPendingByBuyer, CancelPendingBySeller,
                  SubmitShippingAddress, ShipOrder, ConfirmReceive
    <3> QED BY <1>1, <2>2, <3>1, <3>2
  <2> QED BY <1>6, <2>1, <2>3, <2>4 DEF Begin
<1>7. ASSUME NEW c \in Calls, Update(c)
      PROVE  Inv'
  <2>1. CASE order' = order /\ pc' = [pc EXCEPT ![c] = "refused"]
    <3>1. now' = now /\ from' = from
      BY <1>7, UpdateEffect
    <3>2. pc' \in [Calls -> Labels] /\ \A d \in Calls : Done(d)' => Done(d)
      BY <1>1, <2>1 DEF Done, Labels, Answered
    <3> QED BY <1>1, <2>1, <3>1, <3>2, QuietStep
  <2>2. CASE pc' = [pc EXCEPT ![c] = "reply"] /\ Written(c)
    <3>1. now' = now /\ from' = from
      BY <1>7, UpdateEffect
    <3>2. pc' \in [Calls -> Labels] /\ \A d \in Calls : Done(d)' <=> Done(d) \/ d = c
      BY <1>1, <2>2 DEF Done, Labels
    <3>3. TypeOK'
      BY <1>1, <2>2, <3>1, <3>2 DEF TypeOK, Labels, Written
    <3>4. \A d \in Calls : Done(d)' => Kept(d)'
      BY <2>2, <3>2 DEF Inv, Written
    <3>5. \A d \in Calls : Done(d) /\ Op[d] = Op[c] => Op[c] = "address"
      BY <2>2 DEF Inv, Written
    <3>6. \A d, e \in Calls :
            Done(d)' /\ Done(e)' /\ Op[d] = Op[e] /\ Op[d] # "address" => d = e
      BY <3>2, <3>5 DEF Inv
    <3> QED BY <2>2, <3>1, <3>3, <3>4, <3>6 DEF Inv, Written
  <2> QED BY <1>7, <2>1, <2>2, UpdateEffect
<1>8. ASSUME NEW c \in Calls, Reply(c) \/ Abort(c)
      PROVE  Inv'
  <2>1. /\ order' = order /\ now' = now /\ from' = from
        /\ \/ pc[c] = "reply" /\ pc' = [pc EXCEPT ![c] = "ok"]
           \/ pc' = [pc EXCEPT ![c] = "failed"]
    BY <1>8 DEF Reply, Abort, Goto
  <2>2. pc' \in [Calls -> Labels] /\ \A d \in Calls : Done(d)' => Done(d)
    BY <1>1, <2>1 DEF Done, Labels, Answered
  <2> QED BY <1>1, <2>1, <2>2, QuietStep
<1>9. CASE Tick
  <2>1. /\ order' = order /\ pc' = pc /\ from' = from /\ now' \in Nat /\ now <= now'
    BY <1>1, <1>9, OrderConstants DEF Tick
  <2>2. \A d \in Calls : Done(d)' => Done(d)
    BY <2>1 DEF Done
  <2> QED BY <1>1, <2>1, <2>2, QuietStep
<1>10. CASE Terminated \/ UNCHANGED vars
  <2>1. order' = order /\ now' = now /\ pc' = pc /\ from' = from
    BY <1>10 DEF Terminated, vars
  <2>2. \A d \in Calls : Done(d)' => Done(d)
    BY <2>1 DEF Done
  <2> QED BY <1>1, <2>1, <2>2, QuietStep
<1> QED BY <1>3, <1>4, <1>5, <1>6, <1>7, <1>8, <1>9, <1>10 DEF Next

(* The invariant of the order's life.                                      *)
THEOREM OrderInvariance == Spec => []Inv
<1> QED BY InitInv, NextInv, PTL DEF Spec

(* The variables stay in their types.                                      *)
THEOREM OrderTypes == Spec => []TypeOK
<1>1. Inv => TypeOK
  BY DEF Inv
<1> QED BY <1>1, OrderInvariance, PTL

(* Whatever requests and workers race, what a success reply said stays     *)
(* true.                                                                   *)
THEOREM RepliesSafe == Spec => []RepliesHold
<1>1. Inv => RepliesHold
  BY DEF Inv, RepliesHold, Done
<1> QED BY <1>1, OrderInvariance, PTL

(* One payment, one cancellation, one shipment... is told it succeeded.    *)
THEOREM OneSuccessSafe == Spec => []OneSuccess
<1>1. Inv => OneSuccess
  BY DEF Inv, OneSuccess, Done
<1> QED BY <1>1, OrderInvariance, PTL

(* The columns of the row agree with its status.                           *)
THEOREM RowTellsSafe == Spec => []RowTellsItsPast
<1>1. Inv => RowTellsItsPast
  BY DEF Inv
<1> QED BY <1>1, OrderInvariance, PTL

(* A move of the state machine that leaves a sent parcel alone.            *)
Move ==
  /\ <<order.status, order'.status>> \in Moves
  /\ order.shippedAt # NULL => order'.address = order.address /\ order'.shippedAt = order.shippedAt

(* What the row may do in one step: nothing, a move, or, before the parcel *)
(* is sent, a new address.                                                 *)
LEMMA RowStep ==
  ASSUME Inv, Next, order # NULL
  PROVE  \/ order' = order
         \/ Move
         \/ order'.status = order.status /\ order.shippedAt = NULL
<1> DEFINE Goal == \/ order' = order
                   \/ Move
                   \/ order'.status = order.status /\ order.shippedAt = NULL
<1>1. /\ order \in Orders /\ RowTellsItsPast /\ from \in [Calls -> {"paid", "shipped", NULL}]
      /\ order.status # NULL
  BY NullIsNoOrder DEF Inv, TypeOK, Orders
<1>2. ASSUME order' = Closed
      PROVE  Goal
  BY <1>1, <1>2 DEF Closed, Orders, Move, Moves
<1>3. CASE CloseExpiredPending
  BY <1>2, <1>3 DEF CloseExpiredPending
<1>4. ASSUME NEW c \in Calls, Begin(c)
      PROVE  Goal
  <2>1. CASE Sweep(c)
    BY <1>2, <2>1 DEF Sweep
  <2>2. CASE ~Sweep(c)
    <3>1. order' = order
      BY <1>4, <2>2 DEF Begin, Read, MockPay, CancelPendingByBuyer, CancelPendingBySeller,
                        SubmitShippingAddress, ShipOrder, ConfirmReceive, RefundBySeller
    <3> QED BY <3>1
  <2> QED BY <2>1, <2>2
<1>5. ASSUME NEW c \in Calls, Update(c)
      PROVE  Goal
  <2>1. CASE MarkPaid(c)
    BY <1>1, <2>1 DEF MarkPaid, Write, Orders, Move, Moves
  <2>2. ASSUME NEW op, NEW actor, MarkCancelled(c, op, actor)
        PROVE  Goal
    BY <1>1, <2>2 DEF MarkCancelled, Write, Orders, Move, Moves
  <2>3. CASE UpdateShipping(c)
    <3>1. \/ order' = order
          \/ order.status = "paid" /\ \E a \in Addresses : order' = [order EXCEPT !.address = a]
      BY <2>3 DEF UpdateShipping, Write
    <3> QED BY <1>1, <3>1 DEF Orders, RowTellsItsPast
  <2>4. CASE MarkShipped(c)
    <3>1. \/ order' = order
          \/ order.status = "paid" /\ order' = [order EXCEPT !.status = "shipped", !.shippedAt = now]
      BY <2>4 DEF MarkShipped, Write
    <3> QED BY <1>1, <3>1 DEF Orders, RowTellsItsPast, Move, Moves
  <2>5. CASE MarkCompleted(c)
    BY <1>1, <2>5 DEF MarkCompleted, Write, Orders, Move, Moves
  <2>6. CASE MarkRefunded(c)
    BY <1>1, <2>6 DEF MarkRefunded, Write, Orders, Move, Moves
  <2> QED BY <1>5, <2>1, <2>2, <2>3, <2>4, <2>5, <2>6 DEF Update
<1>6. ASSUME NEW c \in Calls, Reply(c) \/ Abort(c)
      PROVE  Goal
  BY <1>6 DEF Reply, Abort
<1>7. CASE Tick \/ Terminated
  BY <1>7 DEF Tick, Terminated, vars
<1> QED BY <1>3, <1>4, <1>5, <1>6, <1>7
        DEF Next, CreateFromSettledSession, CreateAtCap

(* Only the moves the API's documentation draws, whatever races.           *)
THEOREM MovesSafe == Spec => OnlyDocumentedMoves
<1>1. Inv /\ [Next]_vars =>
        [order # NULL => \/ order'.status = order.status
                         \/ <<order.status, order'.status>> \in Moves]_vars
  BY RowStep DEF Move
<1> QED BY <1>1, OrderInvariance, PTL DEF Spec, OnlyDocumentedMoves

(* Once the parcel is sent its address stays what it was.                  *)
THEOREM ParcelSafe == Spec => ParcelKeepsItsAddress
<1>1. Inv /\ [Next]_vars =>
        [order # NULL /\ order.shippedAt # NULL =>
           order'.address = order.address /\ order'.shippedAt = order.shippedAt]_vars
  BY RowStep DEF Move
<1> QED BY <1>1, OrderInvariance, PTL DEF Spec, ParcelKeepsItsAddress
===============================================================================
