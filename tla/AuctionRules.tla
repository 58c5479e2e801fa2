----------------------------- MODULE AuctionRules -----------------------------
(***************************************************************************)
(* The rule engine of one auction session, without state: what             *)
(* domain/auction_rules.go, domain/session_status.go and                   *)
(* engine/auction_engine.go compute from a session row, an amount and the  *)
(* time.  Money is in cents and time in seconds, as in the code; both are  *)
(* natural numbers here.                                                   *)
(***************************************************************************)
EXTENDS Integers

NoCap  == -1          \* CapPrice == nil: the auction has no ceiling
NoTime == -1          \* EndAt == nil: the session has not been started

Statuses == {"pending", "running", "settled", "cancelled", "failed"}

Terminal == {"settled", "cancelled", "failed"}     \* IsTerminal

(* CanCancelByAnchor.  (Mutant: a settled session may be cancelled.)       *)
CancellableSettled == {"pending", "running", "settled"}
Cancellable == {"pending", "running"}

Rules == [ start : Nat, increment : Nat, cap : Nat \cup {NoCap},
           duration : Nat, threshold : Nat, extend : Nat ]

(* AuctionRules.Validate: the rules a publish or an edit lets through.     *)
Validate(r) ==
  /\ r.start >= 0
  /\ r.increment > 0
  /\ r.cap # NoCap => r.cap >= r.start
  /\ r.duration > 0
  /\ r.threshold > 0
  /\ r.extend \in 10..30

ValidRules == { r \in Rules : Validate(r) }

(* (Mutant: a bid may equal the current price.)                            *)
MinNextBidWithoutStep(r, price, hasBids) == IF hasBids THEN price ELSE r.start

MinNextBid(r, price, hasBids) == IF hasBids THEN price + r.increment ELSE r.start

IsCapReached(r, price) == r.cap # NoCap /\ price >= r.cap

(* MaybeExtendEnd: a bid inside the last `threshold` seconds moves the end.*)
MaybeExtendEnd(r, endAt, now) ==
  IF endAt - now > 0 /\ endAt - now <= r.threshold THEN endAt + r.extend ELSE endAt

(* The four refusals of EvaluateBid, as the condition under which it       *)
(* reaches its second half.                                                *)
BidAcceptable(s, amount, now) ==
  /\ s.status \in {"pending", "running"}
  /\ s.status = "running" /\ s.endAt # NoTime => now < s.endAt
  /\ s.rules.cap # NoCap => amount <= s.rules.cap
  /\ amount >= MinNextBid(s.rules, s.price, s.bidCount > 0)

(* The end after an accepted bid: the first one starts the countdown, a    *)
(* capped one leaves it alone.                                             *)
EndAfterBid(s, capped, now) ==
  IF s.status = "pending" THEN now + s.rules.duration
  ELSE IF capped \/ s.endAt = NoTime THEN s.endAt
  ELSE MaybeExtendEnd(s.rules, s.endAt, now)

(* What EvaluateBid returns for an amount it accepts.                      *)
BidOutcome(s, amount, now) ==
  LET capped == IsCapReached(s.rules, amount)
  IN  [ accepted |-> IF capped THEN s.rules.cap ELSE amount,
        settled  |-> capped,
        status   |-> IF capped THEN "settled" ELSE "running",
        endAt    |-> EndAfterBid(s, capped, now) ]
===============================================================================
