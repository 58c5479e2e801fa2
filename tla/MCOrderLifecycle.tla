--------------------------- MODULE MCOrderLifecycle ---------------------------
(***************************************************************************)
(* OrderLifecycle on small instances: two buyers' tabs and two sellers'    *)
(* tabs that send the same requests, within and after the deadline.        *)
(***************************************************************************)
EXTENDS OrderLifecycle

CONSTANTS pay1, pay2, drop, address1, address2, confirm, void, ship1, ship2, refund1, refund2,
          home, office

MCOp ==
  [c \in Calls |-> CASE c \in {pay1, pay2} -> "pay"
                     [] c = drop -> "buyerCancel"
                     [] c \in {address1, address2} -> "address"
                     [] c = confirm -> "confirm"
                     [] c = void -> "sellerCancel"
                     [] c \in {ship1, ship2} -> "ship"
                     [] c \in {refund1, refund2} -> "refund"]
===============================================================================
