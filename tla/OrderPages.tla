------------------------------- MODULE OrderPages -------------------------------
(***************************************************************************)
(* One order as its buyer and its seller see it: the buyer's order page    *)
(* (OrderPayPage), the seller's (OrderDetailPage, with its AftersaleForm)  *)
(* and the badge that counts the orders to pay (usePendingPayCount).       *)
(*                                                                         *)
(* A page keeps a copy of the order and replaces it by whatever a call     *)
(* answers.  Every button has a busy flag of its own, so that calls of one *)
(* page overlap; what a page left behind has under way goes on without it. *)
(* The API's handlers are single steps here: OrderLifecycle takes them     *)
(* apart.  Definitions that a comment calls mutants are plausible bugs of  *)
(* the ones they precede; nothing uses them.                               *)
(***************************************************************************)
EXTENDS Naturals, FiniteSets

CONSTANTS
  Addresses,   \* what a buyer may fill in
  MaxVisits,   \* bound: how often each page is opened
  MaxPolls,    \* bound: requests of the badge under way at once
  MaxPresses,  \* bound: buttons pressed
  MaxFaults,   \* bound: requests or answers that are lost
  None

ASSUME OrderPagesAssumption ==
  /\ MaxVisits \in [ {"buyer", "seller"} -> Nat ]
  /\ {MaxPolls, MaxPresses, MaxFaults} \subseteq Nat
  /\ None \notin Addresses

VARIABLES
  row,      \* the order in the database
  overdue,  \* has the payment deadline passed?
  visit,    \* visit[p]: which opening of page p is on screen; 0 is none yet
  view,     \* view[p]: the order page p shows, or None while it loads
  label,    \* does the buyer's page show the order as timed out?
  call,     \* call[<<v, op>>]: the request of button op of visit v
  badge,    \* the number the badge shows
  poll,     \* poll[k]: a request of the badge
  presses, faults   \* bounds: how many so far

pageVars  == <<visit, view, label, call, presses>>
badgeVars == <<badge, poll>>
vars == <<row, overdue, pageVars, badgeVars, faults>>

Statuses == { "pending_pay", "paid", "shipped", "completed", "cancelled", "closed", "refunded" }
Rows     == [ status : Statuses, address : Addresses \cup {None} ]

BuyerOps  == { "bload", "pay", "drop", "address", "receive" }
SellerOps == { "sload", "ship", "void", "refund" }
Ops       == BuyerOps \cup SellerOps
Pages     == { "buyer", "seller" }
PageOf(op) == IF op \in BuyerOps THEN "buyer" ELSE "seller"

(* The request a page opens with.                                          *)
LoadOf(p) == IF p = "buyer" THEN "bload" ELSE "sload"

Visits    == UNION { 1..MaxVisits[p] : p \in Pages }

(* A request is idle (there is none), sent, or done: answered with the     *)
(* order, or with None for an error.                                       *)
Calls == [ at : { "idle", "sent", "done" }, arg : Addresses \cup {None}, reply : Rows \cup {None} ]
Idle  == [ at |-> "idle", arg |-> None, reply |-> None ]
Sent(x) == [ Idle EXCEPT !.at = "sent", !.arg = x ]

Polls    == 1..MaxPolls
PollIdle == [ at |-> "idle", value |-> 0 ]

Fault == faults < MaxFaults /\ faults' = faults + 1

(* Pages are opened at any time in the life of an order.                   *)
Unpaid == { "pending_pay", "cancelled", "closed" }

Init ==
  /\ row \in Rows
  /\ row.status \in Unpaid => row.address = None
  /\ row.status \in { "shipped", "completed" } => row.address # None
  /\ overdue \in BOOLEAN
  /\ visit = [ p \in Pages |-> 0 ]
  /\ view = [ p \in Pages |-> None ]
  /\ label = FALSE
  /\ call = [ c \in Visits \X Ops |-> Idle ]
  /\ badge = 0
  /\ poll = [ k \in Polls |-> PollIdle ]
  /\ presses = 0 /\ faults = 0

--------------------------------------------------------------------------------
(* The API (OrderService)                                                  *)

(* (Mutant: the address is written whatever the status.)                   *)
AcceptsAnyAddress(op) ==
  CASE op \in {"bload", "sload", "address"} -> TRUE
    [] op \in {"pay", "drop"}    -> row.status = "pending_pay" /\ ~overdue
    [] op = "void"               -> row.status = "pending_pay"
    [] op = "ship"               -> row.status = "paid" /\ row.address # None
    [] op = "receive"            -> row.status = "shipped"
    [] op = "refund"             -> row.status \in {"paid", "shipped"}

Accepts(op) ==
  CASE op \in {"bload", "sload"} -> TRUE
    [] op \in {"pay", "drop"}    -> row.status = "pending_pay" /\ ~overdue
    [] op = "void"               -> row.status = "pending_pay"
    [] op = "address"            -> row.status = "paid"
    [] op = "ship"               -> row.status = "paid" /\ row.address # None
    [] op = "receive"            -> row.status = "shipped"
    [] op = "refund"             -> row.status \in {"paid", "shipped"}

Effect(op, x) ==
  CASE op \in {"bload", "sload"} -> row
    [] op = "pay"                -> [ row EXCEPT !.status = "paid" ]
    [] op \in {"drop", "void"}   -> [ row EXCEPT !.status = "cancelled" ]
    [] op = "address"            -> [ row EXCEPT !.address = x ]
    [] op = "ship"               -> [ row EXCEPT !.status = "shipped" ]
    [] op = "receive"            -> [ row EXCEPT !.status = "completed" ]
    [] op = "refund"             -> [ row EXCEPT !.status = "refunded" ]

Serve(v, op) ==
  /\ call[<<v, op>>].at = "sent"
  /\ \/ /\ Accepts(op)
        /\ row' = Effect(op, call[<<v, op>>].arg)
        /\ call' = [ call EXCEPT ![<<v, op>>].at = "done",
                                 ![<<v, op>>].reply = Effect(op, call[<<v, op>>].arg) ]
     \/ /\ ~Accepts(op)
        /\ call' = [ call EXCEPT ![<<v, op>>].at = "done" ]
        /\ UNCHANGED row
  /\ UNCHANGED <<overdue, visit, view, label, presses, badgeVars, faults>>

(* A request or its answer is lost: the page is told of an error.          *)
Lose(v, op) ==
  /\ call[<<v, op>>].at # "idle"
  /\ Fault
  /\ call' = [ call EXCEPT ![<<v, op>>].at = "done", ![<<v, op>>].reply = None ]
  /\ UNCHANGED <<row, overdue, visit, view, label, presses, badgeVars>>

DeadlinePasses ==
  /\ ~overdue
  /\ overdue' = TRUE
  /\ UNCHANGED <<row, pageVars, badgeVars, faults>>

CloseExpired ==
  /\ overdue
  /\ row.status = "pending_pay"
  /\ row' = [ row EXCEPT !.status = "closed" ]
  /\ UNCHANGED <<overdue, pageVars, badgeVars, faults>>

--------------------------------------------------------------------------------
(* The pages                                                               *)

(* A page is opened, perhaps again: it starts empty and asks for the order. *)
Open(p) ==
  /\ visit[p] < MaxVisits[p]
  /\ visit' = [ visit EXCEPT ![p] = @ + 1 ]
  /\ view' = [ view EXCEPT ![p] = None ]
  /\ label' = IF p = "buyer" THEN FALSE ELSE label
  /\ call' = [ call EXCEPT ![<<visit[p] + 1, LoadOf(p)>>] = Sent(None) ]
  /\ UNCHANGED <<row, overdue, presses, badgeVars, faults>>

(* The countdown of the buyer's page, once a second.                       *)
Expired == overdue

Countdown ==
  /\ view["buyer"] # None
  /\ view["buyer"].status = "pending_pay"
  /\ label # Expired
  /\ label' = Expired
  /\ UNCHANGED <<row, overdue, visit, view, call, presses, badgeVars, faults>>

(* Which buttons a page offers for the order it shows.                     *)
BuyerOffers(op, shown) ==
  \/ op \in {"pay", "drop"} /\ shown.status = "pending_pay" /\ ~label
  \/ op = "address" /\ shown.status = "paid"
  \/ op = "receive" /\ shown.status = "shipped"

HasAddress(order) == order.address # None

SellerOffers(op, shown) ==
  \/ op = "void"   /\ shown.status = "pending_pay"
  \/ op = "ship"   /\ shown.status = "paid" /\ HasAddress(shown)
  \/ op = "refund" /\ shown.status \in {"paid", "shipped"}

Offers(op) ==
  LET shown == view[PageOf(op)]
  IN  shown # None /\ (BuyerOffers(op, shown) \/ SellerOffers(op, shown))

(* A button is busy, and disabled, while its request is under way.         *)
Press(op) ==
  LET v == visit[PageOf(op)]
  IN  /\ presses < MaxPresses
      /\ Offers(op)
      /\ call[<<v, op>>].at = "idle"
      /\ \E x \in IF op = "address" THEN Addresses ELSE {None} :
           call' = [ call EXCEPT ![<<v, op>>] = Sent(x) ]
      /\ presses' = presses + 1
      /\ UNCHANGED <<row, overdue, visit, view, label, badgeVars, faults>>

(* (Mutant: a page shows the answers of an earlier visit, too.)            *)
OnScreenStill(v, op) == v <= visit[PageOf(op)]
OnScreen(v, op) == v = visit[PageOf(op)]

(* An answer replaces what the page shows; an error only shows an error.   *)
Returns(v, op) ==
  /\ call[<<v, op>>].at = "done"
  /\ call' = [ call EXCEPT ![<<v, op>>] = Idle ]
  /\ view' = IF OnScreen(v, op) /\ call[<<v, op>>].reply # None
             THEN [ view EXCEPT ![PageOf(op)] = call[<<v, op>>].reply ]
             ELSE view
  /\ UNCHANGED <<row, overdue, visit, label, presses, badgeVars, faults>>

BuyerAnswer(v)  == \E op \in BuyerOps : Returns(v, op)
SellerAnswer(v) == \E op \in SellerOps : Returns(v, op)

--------------------------------------------------------------------------------
(* The badge: asked for at once and every thirty seconds                   *)

ToPay == IF row.status = "pending_pay" THEN 1 ELSE 0

(* (Mutant: it is asked for once.)                                         *)
RefreshOnce(k) ==
  /\ k = 1 /\ badge = 0
  /\ poll[k].at = "idle"
  /\ poll' = [ poll EXCEPT ![k].at = "sent" ]
  /\ UNCHANGED badge

Refresh(k) ==
  /\ poll[k].at = "idle"
  /\ poll' = [ poll EXCEPT ![k].at = "sent" ]
  /\ UNCHANGED badge

ServeCount(k) ==
  /\ poll[k].at = "sent"
  /\ poll' = [ poll EXCEPT ![k] = [ at |-> "done", value |-> ToPay ] ]
  /\ UNCHANGED badge

(* An error counts as none.                                                *)
ShowCount(k) ==
  /\ poll[k].at = "done"
  /\ badge' = poll[k].value
  /\ poll' = [ poll EXCEPT ![k] = PollIdle ]

LoseCount(k) ==
  /\ poll[k].at # "idle"
  /\ Fault
  /\ poll' = [ poll EXCEPT ![k] = [ at |-> "done", value |-> 0 ] ]
  /\ UNCHANGED badge

BadgeStep(k) ==
  /\ \/ (Refresh(k) \/ ServeCount(k) \/ ShowCount(k)) /\ UNCHANGED faults
     \/ LoseCount(k)
  /\ UNCHANGED <<row, overdue, pageVars>>

--------------------------------------------------------------------------------
Next ==
  \/ DeadlinePasses \/ CloseExpired \/ Countdown
  \/ \E p \in Pages : Open(p)
  \/ \E op \in Ops : Press(op)
  \/ \E v \in Visits, op \in Ops : Serve(v, op) \/ Lose(v, op)
  \/ \E v \in Visits : BuyerAnswer(v) \/ SellerAnswer(v)
  \/ \E k \in Polls : BadgeStep(k)

Spec == Init /\ [][Next]_vars

(* The badge's timer goes on, the API serves it, answers arrive.           *)
BadgeFairness ==
  \A k \in Polls :
    /\ WF_vars(Refresh(k) /\ UNCHANGED <<row, overdue, pageVars, faults>>)
    /\ WF_vars(ServeCount(k) /\ UNCHANGED <<row, overdue, pageVars, faults>>)
    /\ WF_vars(ShowCount(k) /\ UNCHANGED <<row, overdue, pageVars, faults>>)

FairSpec == Spec /\ BadgeFairness

--------------------------------------------------------------------------------
(* Types; and nothing is under way for a visit that has not begun.         *)
TypeOK ==
  /\ row \in Rows
  /\ overdue \in BOOLEAN /\ label \in BOOLEAN
  /\ visit \in [ Pages -> Nat ]
  /\ view \in [ Pages -> Rows \cup {None} ]
  /\ call \in [ Visits \X Ops -> Calls ]
  /\ badge \in Nat
  /\ poll \in [ Polls -> [ at : { "idle", "sent", "done" }, value : Nat ] ]
  /\ presses \in Nat /\ faults \in Nat
  /\ \A v \in Visits, op \in Ops : call[<<v, op>>].at # "idle" => v <= visit[PageOf(op)]

(* How an order goes on.                                                   *)
Later(s) ==
  CASE s = "pending_pay" -> Statuses
    [] s = "paid"        -> { "paid", "shipped", "completed", "refunded" }
    [] s = "shipped"     -> { "shipped", "completed", "refunded" }
    [] OTHER             -> {s}

(* What a page shows is what the order was; and the address on the page of *)
(* a parcel that is on its way is where it went, however old the page is   *)
(* and however the buyer's corrections crossed the shipment.               *)
Sending == { "shipped", "completed" }
Behind(r) ==
  /\ row.status \in Later(r.status)
  /\ r.status \in Sending => r.address = row.address

PagesAreBehind == \A p \in Pages : view[p] # None => Behind(view[p])

(* While the buyer stays on the page, it never goes back to an earlier     *)
(* state of the order, though payment and cancellation may both be under   *)
(* way and answers come in any order.                                      *)
BuyerNeverGoesBack ==
  [][ visit'["buyer"] = visit["buyer"] /\ view["buyer"] # None
        => view'["buyer"] # None /\ view'["buyer"].status \in Later(view["buyer"].status) ]_vars

(* The badge gets to the true number for good: no answer that is late or   *)
(* lost leaves it wrong for ever.                                          *)
BadgeCatchesUp == <>[](badge = ToPay)
================================================================================
