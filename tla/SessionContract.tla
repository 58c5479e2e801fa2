---------------------------- MODULE SessionContract ----------------------------
(***************************************************************************)
(* AuctionSession implements AuctionContract: the bids table is the list   *)
(* of offers, a settled row is the sale, the orders table the invoice.     *)
(***************************************************************************)
EXTENDS AuctionSession

ASSUME NoneIsNoSale == None \notin [buyer : Users, amount : Nat]

Offers(rows) ==
  [i \in DOMAIN rows |-> [buyer |-> rows[i].user, amount |-> rows[i].amount]]

Sale ==
  IF session.status = "settled" THEN [buyer |-> session.winner, amount |-> session.price]
  ELSE None

Contract == INSTANCE AuctionContract WITH
  rules <- session.rules, offers <- Offers(bids), open <- session.status \notin Terminal,
  endAt <- session.endAt, sale <- Sale,
  invoice <- IF orders = {} THEN None ELSE CHOOSE o \in orders : TRUE

(* With a lock that works and without EndCurrentAndSwitch, the bid path,   *)
(* the settlement worker, cancellation and rule edits together are an      *)
(* auction, whatever handlers are aborted and instances die: the hammer    *)
(* falls on the leading offer, at its amount, not before the end, and the  *)
(* order is for that sale.                                                 *)
KeepsPromises == Contract!Spec
===============================================================================
