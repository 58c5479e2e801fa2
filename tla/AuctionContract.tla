---------------------------- MODULE AuctionContract ----------------------------
(***************************************************************************)
(* What one auction promises to its bidders and to its anchor, with no     *)
(* database, lock, transaction or process in sight: offers climb, the      *)
(* hammer falls once and not before the end, the leading offer is what is  *)
(* sold, and the sale is invoiced as it was made.                          *)
(***************************************************************************)
EXTENDS AuctionRules, Sequences

CONSTANTS Users, Amounts, RuleChoices, None

VARIABLES
  rules,     \* the rules in force
  offers,    \* the accepted offers, in order
  open,      \* may offers still be made?
  endAt,     \* when the hammer may fall, NoTime before the first offer
  now,       \* the time
  sale,      \* the offer that bought the item, or None
  invoice    \* what the buyer is asked to pay for, or None

vars == <<rules, offers, open, endAt, now, sale, invoice>>

Init ==
  /\ rules \in RuleChoices
  /\ offers = <<>> /\ open = TRUE
  /\ endAt = NoTime /\ now = 0
  /\ sale = None /\ invoice = None

Leading == offers[Len(offers)]
Floor   == IF offers = <<>> THEN rules.start ELSE Leading.amount + rules.increment

(* The anchor may change the rules until somebody has bid.                 *)
Edit(r) ==
  /\ open /\ offers = <<>>
  /\ rules' = r
  /\ UNCHANGED <<offers, open, endAt, now, sale, invoice>>

(* An offer below the cap; it may move the end, but only further away.     *)
Offer(u) ==
  /\ open
  /\ \E amount \in Amounts :
        /\ amount >= Floor
        /\ rules.cap # NoCap => amount < rules.cap
        /\ offers' = Append(offers, [buyer |-> u, amount |-> amount])
  /\ endAt' # NoTime /\ endAt' >= endAt
  /\ UNCHANGED <<rules, open, now, sale, invoice>>

(* An offer at the cap buys the item on the spot.                          *)
BuyOut(u) ==
  LET o == [buyer |-> u, amount |-> rules.cap]
  IN  /\ open
      /\ rules.cap # NoCap /\ rules.cap >= Floor
      /\ offers' = Append(offers, o)
      /\ open' = FALSE /\ sale' = o /\ invoice' = o
      /\ UNCHANGED <<rules, endAt, now>>

(* The hammer: the end has come, the leading offer buys the item.          *)
Sell ==
  /\ open /\ offers # <<>>
  /\ endAt <= now
  /\ open' = FALSE /\ sale' = Leading
  /\ UNCHANGED <<rules, offers, endAt, now, invoice>>

Withdraw ==
  /\ open /\ open' = FALSE
  /\ UNCHANGED <<rules, offers, endAt, now, sale, invoice>>

Invoice ==
  /\ sale # None /\ invoice = None
  /\ invoice' = sale
  /\ UNCHANGED <<rules, offers, open, endAt, now, sale>>

Wait ==
  /\ now' > now
  /\ UNCHANGED <<rules, offers, open, endAt, sale, invoice>>

Next ==
  \/ \E r \in RuleChoices : Edit(r)
  \/ \E u \in Users : Offer(u) \/ BuyOut(u)
  \/ Sell \/ Withdraw \/ Invoice \/ Wait

Spec == Init /\ [][Next]_vars
===============================================================================
