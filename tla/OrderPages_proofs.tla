--------------------------- MODULE OrderPages_proofs ---------------------------
(***************************************************************************)
(* Proofs about OrderPages, for any addresses, any number of visits, of    *)
(* requests of the badge and of presses, and any losses.                   *)
(*                                                                         *)
(* The order only goes forward (RowGoesOn), so an answer that was true     *)
(* when it was given stays one the order has been at (Answers); that is    *)
(* all a page ever shows.  That the buyer's page does not jump back takes  *)
(* more: which buttons can still be waiting beside what is shown (Waiting).*)
(***************************************************************************)
EXTENDS OrderPages, TLAPS

--------------------------------------------------------------------------------
(* How the order goes on                                                   *)

LEMMA LaterSelf == \A s \in Statuses : s \in Later(s)
BY DEF Statuses, Later

LEMMA LaterTrans ==
  ASSUME NEW s \in Statuses, NEW t \in Later(s), NEW u \in Later(t)
  PROVE  u \in Later(s)
BY DEF Statuses, Later

(* What a request may do to the order.                                     *)
Onwards(r, q) ==
  /\ q \in Rows
  /\ q.status \in Later(r.status)
  /\ r.status # "paid" => q.address = r.address

LEMMA OnwardsSelf == \A r \in Rows : Onwards(r, r)
BY LaterSelf DEF Rows, Onwards

LEMMA EffectGoesOn ==
  ASSUME TypeOK, NEW op \in Ops, NEW x \in Addresses \cup {None}, Accepts(op)
  PROVE  Onwards(row, Effect(op, x))
<1>1. row \in Rows
  BY DEF TypeOK
<1>2. CASE op \in {"bload", "sload"}
  BY <1>1, <1>2, OnwardsSelf DEF Effect
<1>3. CASE op = "pay"
  BY <1>1, <1>3 DEF Effect, Accepts, Onwards, Rows, Statuses, Later, Sending
<1>4. CASE op \in {"drop", "void"}
  BY <1>1, <1>4 DEF Effect, Accepts, Onwards, Rows, Statuses, Later, Sending
<1>5. CASE op = "address"
  BY <1>1, <1>5 DEF Effect, Accepts, Onwards, Rows, Statuses, Later, Sending
<1>6. CASE op = "ship"
  BY <1>1, <1>6 DEF Effect, Accepts, Onwards, Rows, Statuses, Later, Sending
<1>7. CASE op = "receive"
  BY <1>1, <1>7 DEF Effect, Accepts, Onwards, Rows, Statuses, Later, Sending
<1>8. CASE op = "refund"
  BY <1>1, <1>8 DEF Effect, Accepts, Onwards, Rows, Statuses, Later, Sending
<1> QED BY <1>2, <1>3, <1>4, <1>5, <1>6, <1>7, <1>8 DEF Ops, BuyerOps, SellerOps

(* What is behind an order is behind whatever becomes of the order.        *)
LEMMA BehindStays ==
  ASSUME row \in Rows, NEW r \in Rows, Behind(r), Onwards(row, row')
  PROVE  Behind(r)'
<1>1. /\ r.status \in Statuses /\ row.status \in Later(r.status) /\ row'.status \in Later(row.status)
      /\ r.status \in Sending => r.address = row.address
  BY DEF Behind, Onwards, Rows
<1>2. row'.status \in Later(r.status)
  BY <1>1, LaterTrans
<1>3. r.status \in Sending => row.status \in Sending \cup {"refunded"}
  BY <1>1 DEF Later, Sending
<1> QED BY <1>1, <1>2, <1>3 DEF Behind, Onwards, Sending

LEMMA VisitsNat == Visits \subseteq Nat
BY OrderPagesAssumption DEF Visits, Pages

LEMMA PageOfOp == \A op \in Ops : PageOf(op) \in Pages
BY DEF PageOf, Pages

LEMMA CallOf ==
  ASSUME TypeOK, NEW v \in Visits, NEW op \in Ops
  PROVE  /\ call[<<v, op>>] \in Calls
         /\ call[<<v, op>>].arg \in Addresses \cup {None}
         /\ call[<<v, op>>].reply \in Rows \cup {None}
BY DEF TypeOK, Calls

LEMMA RowGoesOn == ASSUME TypeOK, [Next]_vars  PROVE Onwards(row, row')
<1>1. row \in Rows
  BY DEF TypeOK
<1>2. CASE CloseExpired
  BY <1>1, <1>2 DEF CloseExpired, Onwards, Rows, Statuses, Later
<1>3. ASSUME NEW v \in Visits, NEW op \in Ops, Serve(v, op)  PROVE Onwards(row, row')
  <2>1. CASE Accepts(op) /\ row' = Effect(op, call[<<v, op>>].arg)
    BY <2>1, CallOf, EffectGoesOn
  <2>2. CASE UNCHANGED row
    BY <1>1, <2>2, OnwardsSelf
  <2> QED BY <1>3, <2>1, <2>2 DEF Serve
<1>4. CASE UNCHANGED row
  BY <1>1, <1>4, OnwardsSelf
<1> QED
  BY <1>2, <1>3, <1>4 DEF Next, vars, DeadlinePasses, Countdown, Open, Press, Lose, BuyerAnswer,
     SellerAnswer, Returns, BadgeStep, BuyerOps, SellerOps, Ops

--------------------------------------------------------------------------------
(* Types                                                                   *)

LEMMA EffectIsRow ==
  ASSUME TypeOK, NEW op \in Ops, NEW x \in Addresses \cup {None}, Accepts(op)
  PROVE  Effect(op, x) \in Rows
BY EffectGoesOn DEF Onwards

LEMMA IdleAndSent == /\ Idle \in Calls
                     /\ \A x \in Addresses \cup {None} : Sent(x) \in Calls
BY DEF Idle, Sent, Calls

(* The requests of the pages: what the steps do to them keeps their types. *)
CallsOK ==
  /\ call \in [ Visits \X Ops -> Calls ]
  /\ \A v \in Visits, op \in Ops : call[<<v, op>>].at # "idle" => v <= visit[PageOf(op)]

LEMMA ServeCalls ==
  ASSUME TypeOK, NEW v \in Visits, NEW op \in Ops, Serve(v, op)
  PROVE  CallsOK'
<1>1. call' \in [ Visits \X Ops -> Calls ]
  <2>1. CASE Accepts(op) /\ call' = [ call EXCEPT ![<<v, op>>].at = "done",
                                                 ![<<v, op>>].reply = Effect(op, call[<<v, op>>].arg) ]
    <3>1. Effect(op, call[<<v, op>>].arg) \in Rows
      BY <2>1, CallOf, EffectIsRow
    <3> QED BY <2>1, <3>1 DEF TypeOK, Calls
  <2>2. CASE call' = [ call EXCEPT ![<<v, op>>].at = "done" ]
    BY <2>2 DEF TypeOK, Calls
  <2> QED BY <2>1, <2>2 DEF Serve
<1>2. \A w \in Visits, q \in Ops : call'[<<w, q>>].at # "idle" => call[<<w, q>>].at # "idle"
  BY CallOf, ZenonT(40) DEF Serve, TypeOK, Calls
<1> QED BY <1>1, <1>2 DEF Serve, TypeOK, CallsOK

LEMMA LoseCalls ==
  ASSUME TypeOK, NEW v \in Visits, NEW op \in Ops, Lose(v, op)
  PROVE  CallsOK'
<1>1. call' \in [ Visits \X Ops -> Calls ]
  <2> DEFINE lost == [ call[<<v, op>>] EXCEPT !.at = "done", !.reply = None ]
  <2>1. lost \in Calls
    BY CallOf DEF Calls
  <2>2. call' = [ call EXCEPT ![<<v, op>>] = lost ]
    BY CallOf DEF Lose, TypeOK, Calls
  <2> QED BY <2>1, <2>2 DEF TypeOK
<1>2. \A w \in Visits, q \in Ops : call'[<<w, q>>].at # "idle" => call[<<w, q>>].at # "idle"
  BY CallOf DEF Lose, TypeOK, Calls
<1> QED BY <1>1, <1>2 DEF Lose, TypeOK, CallsOK

LEMMA OpenCalls ==
  ASSUME TypeOK, NEW p \in Pages, Open(p)
  PROVE  CallsOK'
<1>0. LoadOf(p) \in Ops /\ PageOf(LoadOf(p)) = p
  BY DEF LoadOf, Ops, BuyerOps, SellerOps, PageOf, Pages
<1>1. call' \in [ Visits \X Ops -> Calls ]
  BY IdleAndSent DEF Open, TypeOK
<1>2. \A q \in Pages : visit[q] \in Nat /\ visit'[q] \in Nat /\ visit[q] <= visit'[q]
  BY DEF Open, TypeOK
<1>3. ASSUME NEW w \in Visits, NEW q \in Ops, call'[<<w, q>>].at # "idle"
      PROVE  w <= visit'[PageOf(q)]
  <2>1. CASE <<w, q>> = <<visit[p] + 1, LoadOf(p)>>
    BY <1>0, <1>2, <2>1 DEF Open, TypeOK
  <2>2. CASE <<w, q>> # <<visit[p] + 1, LoadOf(p)>>
    <3>1. call[<<w, q>>].at # "idle"
      BY <1>3, <2>2 DEF Open, TypeOK
    <3> QED BY <1>2, <1>3, <3>1, PageOfOp, VisitsNat DEF TypeOK
  <2> QED BY <2>1, <2>2
<1> QED BY <1>1, <1>3 DEF CallsOK

LEMMA PressCalls ==
  ASSUME TypeOK, NEW op \in Ops, Press(op)
  PROVE  CallsOK'
<1>1. PICK x \in Addresses \cup {None} : call' = [ call EXCEPT ![<<visit[PageOf(op)], op>>] = Sent(x) ]
  BY DEF Press
<1>2. call' \in [ Visits \X Ops -> Calls ]
  BY <1>1, IdleAndSent DEF TypeOK
<1>3. ASSUME NEW w \in Visits, NEW q \in Ops, call'[<<w, q>>].at # "idle"
      PROVE  w <= visit'[PageOf(q)]
  <2>1. CASE <<w, q>> = <<visit[PageOf(op)], op>>
    BY <2>1, PageOfOp DEF Press, TypeOK
  <2>2. CASE <<w, q>> # <<visit[PageOf(op)], op>>
    BY <1>1, <1>3, <2>2 DEF Press, TypeOK
  <2> QED BY <2>1, <2>2
<1> QED BY <1>2, <1>3 DEF CallsOK

LEMMA ReturnsCalls ==
  ASSUME TypeOK, NEW v \in Visits, NEW op \in Ops, Returns(v, op)
  PROVE  CallsOK'
<1>1. call' \in [ Visits \X Ops -> Calls ]
  BY IdleAndSent DEF Returns, TypeOK
<1>2. \A w \in Visits, q \in Ops : call'[<<w, q>>].at # "idle" => call[<<w, q>>].at # "idle"
  BY DEF Returns, TypeOK, Idle
<1> QED BY <1>1, <1>2 DEF Returns, TypeOK, CallsOK

LEMMA ViewKept ==
  ASSUME TypeOK, NEW v \in Visits, NEW op \in Ops, Returns(v, op)
  PROVE  view' \in [ Pages -> Rows \cup {None} ]
BY CallOf, PageOfOp DEF Returns, TypeOK

LEMMA PollKept ==
  ASSUME TypeOK, NEW k \in Polls, BadgeStep(k)
  PROVE  /\ badge' \in Nat
         /\ poll' \in [ Polls -> [ at : { "idle", "sent", "done" }, value : Nat ] ]
         /\ faults' \in Nat
<1>1. ToPay \in Nat /\ poll[k].value \in Nat
  BY DEF ToPay, TypeOK
<1> QED
  BY <1>1 DEF BadgeStep, Refresh, ServeCount, ShowCount, LoseCount, Fault, PollIdle, TypeOK

LEMMA TypesHold == Init => TypeOK
<1> SUFFICES ASSUME Init  PROVE TypeOK
  OBVIOUS
<1>1. /\ visit \in [ Pages -> Nat ] /\ view \in [ Pages -> Rows \cup {None} ]
      /\ label \in BOOLEAN /\ badge \in Nat
      /\ presses \in Nat /\ faults \in Nat
  BY DEF Init
<1>2. poll \in [ Polls -> [ at : { "idle", "sent", "done" }, value : Nat ] ]
  BY DEF Init, PollIdle
<1>3. CallsOK
  BY IdleAndSent DEF Init, CallsOK, Idle
<1> QED BY <1>1, <1>2, <1>3 DEF Init, TypeOK, CallsOK

LEMMA TypesKept == ASSUME TypeOK, [Next]_vars  PROVE TypeOK'
<1>1. row' \in Rows
  BY RowGoesOn DEF Onwards
<1>2. CASE DeadlinePasses
  BY <1>1, <1>2 DEF DeadlinePasses, TypeOK, pageVars, badgeVars
<1>3. CASE CloseExpired
  BY <1>1, <1>3 DEF CloseExpired, TypeOK, pageVars, badgeVars
<1>4. CASE Countdown
  BY <1>1, <1>4 DEF Countdown, TypeOK, badgeVars, Expired
<1>5. ASSUME NEW p \in Pages, Open(p)  PROVE TypeOK'
  <2>1. visit' \in [ Pages -> Nat ] /\ view' \in [ Pages -> Rows \cup {None} ]
    BY <1>5 DEF Open, TypeOK
  <2>2. CallsOK'
    BY <1>5, OpenCalls
  <2> QED BY <1>1, <1>5, <2>1, <2>2 DEF Open, TypeOK, CallsOK, badgeVars
<1>6. ASSUME NEW op \in Ops, Press(op)  PROVE TypeOK'
  <2>1. CallsOK'
    BY <1>6, PressCalls
  <2> QED BY <1>1, <1>6, <2>1 DEF Press, TypeOK, CallsOK, badgeVars
<1>7. ASSUME NEW v \in Visits, NEW op \in Ops, Serve(v, op)  PROVE TypeOK'
  <2>1. CallsOK'
    BY <1>7, ServeCalls
  <2> QED BY <1>1, <1>7, <2>1 DEF Serve, TypeOK, CallsOK, badgeVars
<1>8. ASSUME NEW v \in Visits, NEW op \in Ops, Lose(v, op)  PROVE TypeOK'
  <2>1. CallsOK'
    BY <1>8, LoseCalls
  <2> QED BY <1>1, <1>8, <2>1 DEF Lose, Fault, TypeOK, CallsOK, badgeVars
<1>9. ASSUME NEW v \in Visits, NEW op \in Ops, Returns(v, op)  PROVE TypeOK'
  <2>1. CallsOK'
    BY <1>9, ReturnsCalls
  <2>2. view' \in [ Pages -> Rows \cup {None} ]
    BY <1>9, ViewKept
  <2> QED BY <1>1, <1>9, <2>1, <2>2 DEF Returns, TypeOK, CallsOK, badgeVars
<1>10. ASSUME NEW k \in Polls, BadgeStep(k)  PROVE TypeOK'
  BY <1>1, <1>10, PollKept DEF BadgeStep, TypeOK, pageVars
<1>11. CASE UNCHANGED vars
  BY <1>11 DEF vars, pageVars, badgeVars, TypeOK
<1> QED
  BY <1>2, <1>3, <1>4, <1>5, <1>6, <1>7, <1>8, <1>9, <1>10, <1>11
  DEF Next, BuyerAnswer, SellerAnswer, Ops

(* The pages' state stays well typed, and no request is under way for a    *)
(* visit that has not begun: for any number of visits, polls and losses.   *)
THEOREM PagesTyped == Spec => []TypeOK
<1>1. TypeOK /\ [Next]_vars => TypeOK'
  BY TypesKept
<1> QED BY TypesHold, <1>1, PTL DEF Spec

--------------------------------------------------------------------------------
(* What a page shows is what the order was                                 *)

Answers == \A v \in Visits, op \in Ops :
             LET reply == call[<<v, op>>].reply IN reply # None => Behind(reply)

LEMMA AnswersKept ==
  ASSUME TypeOK, Answers, [Next]_vars
  PROVE  Answers'
<1>1. TypeOK' /\ Onwards(row, row') /\ row \in Rows
  BY TypesKept, RowGoesOn DEF TypeOK
<1>2. \A r \in Rows : Behind(r) => Behind(r)'
  BY <1>1, BehindStays
<1>3. ASSUME NEW w \in Visits, NEW q \in Ops, call'[<<w, q>>].reply # None,
             call'[<<w, q>>].reply = call[<<w, q>>].reply
      PROVE  Behind(call[<<w, q>>].reply)'
  BY <1>2, <1>3, CallOf DEF Answers
<1>4. ASSUME NEW v \in Visits, NEW op \in Ops, Serve(v, op),
             NEW w \in Visits, NEW q \in Ops, call'[<<w, q>>].reply # None
      PROVE  call'[<<w, q>>].reply = call[<<w, q>>].reply \/ call'[<<w, q>>].reply = row'
  <2>1. CASE /\ row' = Effect(op, call[<<v, op>>].arg)
             /\ call' = [ call EXCEPT ![<<v, op>>].at = "done",
                                      ![<<v, op>>].reply = Effect(op, call[<<v, op>>].arg) ]
    <3>1. call' = [ call EXCEPT ![<<v, op>>].at = "done", ![<<v, op>>].reply = row' ]
      BY <2>1
    <3> HIDE <2>1
    <3>2. CASE <<w, q>> = <<v, op>>
      BY <3>1, <3>2, CallOf DEF TypeOK, Calls
    <3>3. CASE <<w, q>> # <<v, op>>
      BY <3>1, <3>3 DEF TypeOK
    <3> QED BY <3>2, <3>3
  <2>2. CASE call' = [ call EXCEPT ![<<v, op>>].at = "done" ]
    BY <2>2, CallOf DEF TypeOK, Calls
  <2> QED BY <1>4, <2>1, <2>2 DEF Serve
<1>5. ASSUME NEW v \in Visits, NEW op \in Ops, Lose(v, op) \/ Returns(v, op),
             NEW w \in Visits, NEW q \in Ops, call'[<<w, q>>].reply # None
      PROVE  call'[<<w, q>>].reply = call[<<w, q>>].reply
  <2>1. CASE <<w, q>> = <<v, op>>
    BY <1>5, <2>1, CallOf DEF Lose, Returns, Idle, TypeOK, Calls
  <2>2. CASE <<w, q>> # <<v, op>>
    BY <1>5, <2>2 DEF Lose, Returns, TypeOK
  <2> QED BY <2>1, <2>2
<1>6. ASSUME NEW p \in Pages, Open(p),
             NEW w \in Visits, NEW q \in Ops, call'[<<w, q>>].reply # None
      PROVE  call'[<<w, q>>].reply = call[<<w, q>>].reply
  BY <1>6, CallOf DEF Open, Sent, Idle, TypeOK, Calls
<1>7. ASSUME NEW op \in Ops, Press(op),
             NEW w \in Visits, NEW q \in Ops, call'[<<w, q>>].reply # None
      PROVE  call'[<<w, q>>].reply = call[<<w, q>>].reply
  BY <1>7, CallOf DEF Press, Sent, Idle, TypeOK, Calls
<1>8. Behind(row)'
  BY <1>1, LaterSelf DEF Behind, Onwards, Rows
<1>9. ASSUME NEW w \in Visits, NEW q \in Ops, call'[<<w, q>>].reply # None
      PROVE  call'[<<w, q>>].reply = call[<<w, q>>].reply \/ call'[<<w, q>>].reply = row'
  BY <1>4, <1>5, <1>6, <1>7, <1>9
  DEF Next, vars, pageVars, DeadlinePasses, CloseExpired, Countdown, BuyerAnswer, SellerAnswer,
      BadgeStep, Ops
<1>10. ASSUME NEW w \in Visits, NEW q \in Ops, call'[<<w, q>>].reply # None
       PROVE  Behind(call[<<w, q>>].reply)'
  <2>1. CASE call'[<<w, q>>].reply = call[<<w, q>>].reply
    BY <1>3, <1>10, <2>1
  <2>2. CASE call'[<<w, q>>].reply = row'
    BY <1>8, <2>2 DEF Behind
  <2> QED BY <1>9, <1>10, <2>1, <2>2
<1> QED BY <1>10 DEF Answers

LEMMA PagesKept ==
  ASSUME TypeOK, Answers, PagesAreBehind, [Next]_vars
  PROVE  PagesAreBehind'
<1>1. TypeOK' /\ Onwards(row, row') /\ row \in Rows
  BY TypesKept, RowGoesOn DEF TypeOK
<1>2. \A r \in Rows : Behind(r) => Behind(r)'
  BY <1>1, BehindStays
<1>3. ASSUME NEW v \in Visits, NEW op \in Ops, Returns(v, op),
             NEW p \in Pages, view'[p] # None
      PROVE  view'[p] = view[p] \/ view'[p] = call[<<v, op>>].reply
  BY <1>3, PageOfOp DEF Returns, TypeOK
<1>4. ASSUME NEW q \in Pages, Open(q), NEW p \in Pages, view'[p] # None
      PROVE  view'[p] = view[p]
  BY <1>4 DEF Open, TypeOK
<1>5. ASSUME NEW p \in Pages, view'[p] # None
      PROVE  view'[p] = view[p] \/ \E v \in Visits, op \in Ops : view'[p] = call[<<v, op>>].reply
  BY <1>3, <1>4, <1>5
  DEF Next, vars, pageVars, DeadlinePasses, CloseExpired, Countdown, BuyerAnswer, SellerAnswer,
      BadgeStep, Press, Serve, Lose, Ops
<1>6. ASSUME NEW p \in Pages, view'[p] # None
      PROVE  Behind(view[p])'
  <2>1. CASE view'[p] = view[p]
    <3>1. view[p] \in Rows /\ Behind(view[p])
      BY <1>6, <2>1 DEF TypeOK, PagesAreBehind
    <3> QED BY <1>2, <2>1, <3>1 DEF Behind
  <2>2. ASSUME NEW v \in Visits, NEW op \in Ops, view'[p] = call[<<v, op>>].reply
        PROVE  Behind(view[p])'
    <3>1. call[<<v, op>>].reply \in Rows /\ Behind(call[<<v, op>>].reply)
      BY <1>6, <2>2, CallOf DEF Answers
    <3> QED BY <1>2, <2>2, <3>1 DEF Behind
  <2> QED BY <1>5, <1>6, <2>1, <2>2
<1> QED BY <1>6 DEF PagesAreBehind

(* Neither page ever shows an order as something it was not, and the       *)
(* address on the page of a parcel under way is where it went: for any     *)
(* number of visits, presses and losses, and answers in any order.         *)
THEOREM PagesBehind == Spec => []PagesAreBehind
<1>1. Init => TypeOK /\ Answers /\ PagesAreBehind
  <2> SUFFICES ASSUME Init  PROVE Answers /\ PagesAreBehind
    BY TypesHold
  <2>1. Answers
    BY DEF Init, Answers, Idle
  <2>2. PagesAreBehind
    BY DEF Init, PagesAreBehind
  <2> QED BY <2>1, <2>2
<1>2. TypeOK /\ Answers /\ PagesAreBehind /\ [Next]_vars => (TypeOK /\ Answers /\ PagesAreBehind)'
  BY TypesKept, AnswersKept, PagesKept
<1> QED BY <1>1, <1>2, PTL DEF Spec

--------------------------------------------------------------------------------
(* The buyer's page never goes back                                        *)

(* What an answered request of the buyer shows.                            *)
Result(op, status) ==
  /\ op \in { "pay", "address" } => status = "paid"
  /\ op = "drop" => status = "cancelled"
  /\ op = "receive" => status = "completed"

Results == \A v \in Visits, op \in BuyerOps :
             LET reply == call[<<v, op>>].reply IN reply # None => Result(op, reply.status)

(* What the page can show while a request of it is under way: what it      *)
(* showed when the button was pressed, or what the rival button has made   *)
(* of it.                                                                  *)
MayWait(op, shown) ==
  /\ op = "bload" <=> shown = None
  /\ op = "pay"     => shown.status \in { "pending_pay", "cancelled" }
  /\ op = "drop"    => shown.status \in { "pending_pay", "paid" }
  /\ op = "address" => shown.status = "paid"
  /\ op = "receive" => shown.status = "shipped"

Waiting == \A v \in Visits, op \in BuyerOps :
             v = visit["buyer"] /\ call[<<v, op>>].at # "idle" => MayWait(op, view["buyer"])

(* An answer that comes while the page shows the order is no step back.    *)
LEMMA NoStepBack ==
  ASSUME row \in Rows, NEW op \in BuyerOps, NEW shown \in Rows, NEW reply \in Rows, shown # None,
         MayWait(op, shown), Result(op, reply.status), Behind(shown), Behind(reply)
  PROVE  reply.status \in Later(shown.status)
BY DEF BuyerOps, MayWait, Result, Behind, Rows, Statuses, Later

(* And the other requests may wait beside it.                              *)
LEMMA OthersWait ==
  ASSUME row \in Rows, NEW op \in BuyerOps, NEW other \in BuyerOps, op # other,
         NEW shown \in Rows \cup {None}, NEW reply \in Rows, reply # None,
         MayWait(op, shown), MayWait(other, shown), Result(op, reply.status),
         shown # None => Behind(shown), Behind(reply)
  PROVE  MayWait(other, reply)
<1>1. op # "bload" /\ other # "bload" /\ shown # None
  BY DEF MayWait
<1> QED BY <1>1 DEF BuyerOps, MayWait, Result, Behind, Rows, Statuses, Later

LEMMA ResultsKept ==
  ASSUME TypeOK, Results, [Next]_vars
  PROVE  Results'
<1>1. ASSUME NEW op \in BuyerOps, NEW x \in Addresses \cup {None}, Accepts(op), op # "bload"
      PROVE  Result(op, Effect(op, x).status)
  BY <1>1 DEF TypeOK, Rows, Accepts, Effect, Result, BuyerOps
<1>2. \A status : Result("bload", status)
  BY DEF Result
<1>3. ASSUME NEW v \in Visits, NEW op \in Ops, Serve(v, op),
             NEW w \in Visits, NEW q \in BuyerOps, call'[<<w, q>>].reply # None
      PROVE  Result(q, call'[<<w, q>>].reply.status)
  <2>1. CASE /\ Accepts(op)
             /\ call' = [ call EXCEPT ![<<v, op>>].at = "done",
                                      ![<<v, op>>].reply = Effect(op, call[<<v, op>>].arg) ]
    <3>1. PICK x \in Addresses \cup {None} :
            call' = [ call EXCEPT ![<<v, op>>].at = "done", ![<<v, op>>].reply = Effect(op, x) ]
      BY <2>1, CallOf
    <3>2. CASE <<w, q>> = <<v, op>>
      <4>1. call'[<<w, q>>].reply = Effect(q, x)
        BY <3>1, <3>2, CallOf DEF TypeOK, Calls
      <4> QED BY <1>1, <1>2, <2>1, <3>2, <4>1
    <3>3. CASE <<w, q>> # <<v, op>>
      <4>1. call'[<<w, q>>] = call[<<w, q>>]
        BY <3>1, <3>3 DEF TypeOK, Ops
      <4> QED BY <1>3, <4>1 DEF Results
    <3> QED BY <3>2, <3>3
  <2>2. CASE call' = [ call EXCEPT ![<<v, op>>].at = "done" ]
    <3>1. call'[<<w, q>>].reply = call[<<w, q>>].reply
      <4>1. CASE <<w, q>> = <<v, op>>
        BY <2>2, <4>1, CallOf DEF TypeOK, Calls
      <4>2. CASE <<w, q>> # <<v, op>>
        BY <2>2, <4>2 DEF TypeOK, Ops
      <4> QED BY <4>1, <4>2
    <3> QED BY <1>3, <3>1 DEF Results
  <2> QED BY <1>3, <2>1, <2>2 DEF Serve
<1>4. ASSUME NEW v \in Visits, NEW op \in Ops, Lose(v, op) \/ Returns(v, op),
             NEW w \in Visits, NEW q \in BuyerOps, call'[<<w, q>>].reply # None
      PROVE  call'[<<w, q>>].reply = call[<<w, q>>].reply
  <2>1. CASE <<w, q>> = <<v, op>>
    BY <1>4, <2>1, CallOf DEF Lose, Returns, Idle, TypeOK, Calls
  <2>2. CASE <<w, q>> # <<v, op>>
    BY <1>4, <2>2 DEF Lose, Returns, TypeOK, Ops
  <2> QED BY <2>1, <2>2
<1>5. ASSUME NEW p \in Pages, Open(p),
             NEW w \in Visits, NEW q \in BuyerOps, call'[<<w, q>>].reply # None
      PROVE  call'[<<w, q>>].reply = call[<<w, q>>].reply
  BY <1>5, CallOf DEF Open, Sent, Idle, TypeOK, Calls, Ops
<1>6. ASSUME NEW op \in Ops, Press(op),
             NEW w \in Visits, NEW q \in BuyerOps, call'[<<w, q>>].reply # None
      PROVE  call'[<<w, q>>].reply = call[<<w, q>>].reply
  BY <1>6, CallOf DEF Press, Sent, Idle, TypeOK, Calls, Ops
<1>7. ASSUME NEW w \in Visits, NEW q \in BuyerOps, call'[<<w, q>>].reply # None
      PROVE  Result(q, call'[<<w, q>>].reply.status)
  <2>1. CASE call'[<<w, q>>].reply = call[<<w, q>>].reply
    BY <1>7, <2>1 DEF Results
  <2>2. CASE \E v \in Visits, op \in Ops : Serve(v, op)
    BY <1>3, <1>7, <2>2
  <2> QED
    BY <1>4, <1>5, <1>6, <1>7, <2>1, <2>2
    DEF Next, vars, pageVars, DeadlinePasses, CloseExpired, Countdown, BuyerAnswer, SellerAnswer,
        BadgeStep, Ops
<1> QED BY <1>7 DEF Results

(* What Returns shows when it shows something new to the buyer.            *)
LEMMA ShownAnswer ==
  ASSUME TypeOK, Answers, Results, Waiting,
         NEW v \in Visits, NEW op \in Ops, Returns(v, op), view'["buyer"] # view["buyer"]
  PROVE  /\ v = visit["buyer"] /\ op \in BuyerOps /\ MayWait(op, view["buyer"])
         /\ view'["buyer"] = call[<<v, op>>].reply
         /\ view'["buyer"] \in Rows /\ view'["buyer"] # None
         /\ Behind(view'["buyer"]) /\ Result(op, view'["buyer"].status)
<1>1. /\ OnScreen(v, op) /\ call[<<v, op>>].reply # None /\ PageOf(op) = "buyer"
      /\ view'["buyer"] = call[<<v, op>>].reply
  BY PageOfOp DEF Returns, TypeOK, Pages
<1>2. op \in BuyerOps /\ v = visit["buyer"] /\ call[<<v, op>>].at # "idle"
  BY <1>1 DEF PageOf, OnScreen, Returns
<1>3. MayWait(op, view["buyer"]) /\ Result(op, call[<<v, op>>].reply.status)
  BY <1>1, <1>2 DEF Waiting, Results
<1>4. call[<<v, op>>].reply \in Rows /\ Behind(call[<<v, op>>].reply)
  BY <1>1, CallOf DEF Answers
<1> QED BY <1>1, <1>2, <1>3, <1>4

LEMMA WaitingKept ==
  ASSUME TypeOK, Answers, PagesAreBehind, Results, Waiting, [Next]_vars
  PROVE  Waiting'
<1> DEFINE Quiet == /\ visit'["buyer"] = visit["buyer"]
                    /\ view'["buyer"] = view["buyer"]
                    /\ \A w \in Visits, q \in BuyerOps :
                         call'[<<w, q>>].at # "idle" => call[<<w, q>>].at # "idle"
<1>1. Quiet => Waiting'
  BY DEF Waiting
<1> HIDE DEF Quiet
<1>2. ASSUME NEW v \in Visits, NEW op \in Ops, Returns(v, op)  PROVE Waiting'
  <2>1. \A w \in Visits, q \in BuyerOps :
          call'[<<w, q>>].at # "idle" => call[<<w, q>>].at # "idle" /\ <<w, q>> # <<v, op>>
    BY <1>2 DEF Returns, TypeOK, Idle, Ops
  <2>2. CASE view'["buyer"] = view["buyer"]
    BY <1>1, <1>2, <2>1, <2>2 DEF Returns, Quiet
  <2>3. CASE view'["buyer"] # view["buyer"]
    <3>1. /\ v = visit["buyer"] /\ op \in BuyerOps /\ MayWait(op, view["buyer"])
          /\ view'["buyer"] \in Rows /\ view'["buyer"] # None
          /\ Behind(view'["buyer"]) /\ Result(op, view'["buyer"].status)
      BY <1>2, <2>3, ShownAnswer
    <3>2. visit' = visit
      BY <1>2 DEF Returns
    <3>3. /\ row \in Rows /\ view["buyer"] \in Rows \cup {None}
          /\ view["buyer"] # None => Behind(view["buyer"])
      BY DEF TypeOK, PagesAreBehind, Pages
    <3>4. ASSUME NEW w \in Visits, NEW q \in BuyerOps, w = visit'["buyer"],
                 call'[<<w, q>>].at # "idle"
          PROVE  MayWait(q, view'["buyer"])
      <4>1. q # op /\ MayWait(q, view["buyer"])
        BY <2>1, <3>1, <3>2, <3>4 DEF Waiting
      <4> QED BY <3>1, <3>3, <4>1, OthersWait
    <3>5. \A w \in Visits, q \in BuyerOps :
            w = visit'["buyer"] /\ call'[<<w, q>>].at # "idle" => MayWait(q, view'["buyer"])
      BY <3>4
    <3> QED BY <3>5 DEF Waiting, MayWait
  <2> QED BY <2>2, <2>3
<1>3. ASSUME NEW v \in Visits, NEW op \in Ops, Serve(v, op) \/ Lose(v, op)  PROVE Quiet
  BY <1>3, CallOf, ZenonT(40) DEF Serve, Lose, Quiet, TypeOK, Calls, Ops
<1>4. ASSUME Open("buyer")  PROVE Waiting'
  <2>1. visit'["buyer"] = visit["buyer"] + 1 /\ view'["buyer"] = None
    BY <1>4 DEF Open, TypeOK, Pages
  <2>2. ASSUME NEW q \in BuyerOps, NEW w \in Visits, w = visit'["buyer"], call'[<<w, q>>].at # "idle"
        PROVE  q = "bload"
    <3>1. SUFFICES ASSUME q # "bload"  PROVE FALSE
      OBVIOUS
    <3>2. call[<<w, q>>].at # "idle"
      BY <1>4, <2>2, <3>1 DEF Open, TypeOK, LoadOf, Ops
    <3>3. PageOf(q) = "buyer"
      BY DEF PageOf
    <3>4. w <= visit["buyer"] /\ visit["buyer"] \in Nat
      BY <3>2, <3>3 DEF TypeOK, Ops, Pages
    <3> QED BY <2>1, <2>2, <3>4
  <2>3. MayWait("bload", view'["buyer"])
    BY <2>1 DEF MayWait
  <2>4. \A w \in Visits, q \in BuyerOps :
          w = visit'["buyer"] /\ call'[<<w, q>>].at # "idle" => MayWait(q, view'["buyer"])
    BY <2>2, <2>3
  <2> QED BY <2>4 DEF Waiting, MayWait
<1>5. ASSUME Open("seller")  PROVE Quiet
  <2>1. LoadOf("seller") \notin BuyerOps
    BY DEF LoadOf, BuyerOps
  <2> QED BY <1>5, <2>1 DEF Open, Quiet, TypeOK, Pages, Ops
<1>6. ASSUME NEW op \in BuyerOps, Press(op)  PROVE Waiting'
  <2>1. PICK x : call' = [ call EXCEPT ![<<visit["buyer"], op>>] = x ]
    BY <1>6 DEF Press, PageOf
  <2>2. view["buyer"] # None /\ BuyerOffers(op, view["buyer"])
    BY <1>6 DEF Press, Offers, SellerOffers, PageOf, BuyerOps
  <2>3. MayWait(op, view["buyer"])
    BY <2>2 DEF BuyerOffers, MayWait
  <2>4. UNCHANGED <<visit, view>>
    BY <1>6 DEF Press
  <2>5. ASSUME NEW w \in Visits, NEW q \in BuyerOps, w = visit["buyer"], call'[<<w, q>>].at # "idle"
        PROVE  MayWait(q, view["buyer"])
    <3>1. CASE q = op
      BY <2>3, <3>1
    <3>2. CASE q # op
      <4>1. call'[<<w, q>>] = call[<<w, q>>]
        BY <2>1, <3>2 DEF TypeOK, Ops
      <4> QED BY <2>5, <4>1 DEF Waiting
    <3> QED BY <3>1, <3>2
  <2>6. \A w \in Visits, q \in BuyerOps :
          w = visit'["buyer"] /\ call'[<<w, q>>].at # "idle" => MayWait(q, view'["buyer"])
    BY <2>4, <2>5
  <2> QED BY <2>6 DEF Waiting, MayWait
<1>7. ASSUME NEW op \in SellerOps, Press(op)  PROVE Quiet
  <2>1. op \notin BuyerOps /\ PageOf(op) = "seller"
    BY DEF PageOf, BuyerOps, SellerOps
  <2> QED BY <1>7, <2>1 DEF Press, Quiet, TypeOK, Ops
<1>8. ASSUME DeadlinePasses \/ CloseExpired \/ Countdown \/ UNCHANGED vars
             \/ \E k \in Polls : BadgeStep(k)
      PROVE  Quiet
  <2>1. visit' = visit /\ view' = view /\ call' = call
    BY <1>8 DEF DeadlinePasses, CloseExpired, Countdown, BadgeStep, vars, pageVars
  <2> QED BY <2>1 DEF Quiet
<1>9. ASSUME NEW p \in Pages, Open(p)  PROVE Waiting'
  <2>1. CASE p = "buyer"
    BY <1>4, <1>9, <2>1
  <2>2. CASE p = "seller"
    BY <1>1, <1>5, <1>9, <2>2
  <2> QED BY <2>1, <2>2 DEF Pages
<1>10. \A op \in Ops : Press(op) => Waiting'
  BY <1>1, <1>6, <1>7 DEF Ops
<1>11. \A v \in Visits, op \in Ops : Serve(v, op) \/ Lose(v, op) => Waiting'
  BY <1>1, <1>3
<1>12. \A v \in Visits : BuyerAnswer(v) \/ SellerAnswer(v) => Waiting'
  BY <1>2 DEF BuyerAnswer, SellerAnswer, Ops
<1> QED BY <1>1, <1>8, <1>9, <1>10, <1>11, <1>12 DEF Next

LEMMA NeverBackStep ==
  ASSUME TypeOK, Answers, PagesAreBehind, Results, Waiting, [Next]_vars,
         visit'["buyer"] = visit["buyer"], view["buyer"] # None
  PROVE  view'["buyer"] # None /\ view'["buyer"].status \in Later(view["buyer"].status)
<1>0. row \in Rows /\ view["buyer"] \in Rows /\ Behind(view["buyer"])
  BY DEF TypeOK, PagesAreBehind, Pages
<1>1. CASE view'["buyer"] = view["buyer"]
  BY <1>0, <1>1, LaterSelf DEF Rows
<1>2. ASSUME NEW v \in Visits, NEW op \in Ops, Returns(v, op), view'["buyer"] # view["buyer"]
      PROVE  view'["buyer"] # None /\ view'["buyer"].status \in Later(view["buyer"].status)
  <2>1. /\ op \in BuyerOps /\ MayWait(op, view["buyer"])
        /\ view'["buyer"] \in Rows /\ view'["buyer"] # None
        /\ Behind(view'["buyer"]) /\ Result(op, view'["buyer"].status)
    BY <1>2, ShownAnswer
  <2> QED BY <1>0, <2>1, NoStepBack
<1>3. ASSUME NEW p \in Pages, Open(p)  PROVE view'["buyer"] = view["buyer"]
  BY <1>3 DEF Open, TypeOK, Pages
<1> QED
  BY <1>1, <1>2, <1>3
  DEF Next, vars, pageVars, DeadlinePasses, CloseExpired, Countdown, BuyerAnswer, SellerAnswer,
      BadgeStep, Press, Serve, Lose, Ops

(* While the buyer stays on the page it never goes back to an earlier      *)
(* state of the order: paying and cancelling may both be under way, be     *)
(* lost, and be answered in any order.                                     *)
THEOREM NeverBack == Spec => BuyerNeverGoesBack
<1> DEFINE I == TypeOK /\ Answers /\ PagesAreBehind /\ Results /\ Waiting
<1>1. Init => I
  <2> SUFFICES ASSUME Init  PROVE Answers /\ PagesAreBehind /\ Results /\ Waiting
    BY TypesHold
  <2>1. Answers /\ PagesAreBehind /\ Results
    BY DEF Init, Answers, Results, PagesAreBehind, Idle, Ops
  <2>2. Waiting
    BY DEF Init, Waiting, Idle, Ops
  <2> QED BY <2>1, <2>2
<1>2. I /\ [Next]_vars => I'
  BY TypesKept, AnswersKept, PagesKept, ResultsKept, WaitingKept
<1>3. I /\ [Next]_vars
        => [ visit'["buyer"] = visit["buyer"] /\ view["buyer"] # None
               => view'["buyer"] # None /\ view'["buyer"].status \in Later(view["buyer"].status) ]_vars
  BY NeverBackStep
<1> QED BY <1>1, <1>2, <1>3, PTL DEF Spec, BuyerNeverGoesBack
================================================================================
