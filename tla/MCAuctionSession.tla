--------------------------- MODULE MCAuctionSession ---------------------------
(***************************************************************************)
(* AuctionSession on small instances.  Times are in seconds: the clock     *)
(* moves by 5, an auction lasts 10 or 15, and a bid in its last 5 seconds  *)
(* extends it by 10.                                                       *)
(***************************************************************************)
EXTENDS SessionContract, TLC

CONSTANTS c1, c2, c3, w1, x1, s1, ann, bob, req1, req2, req3

(* c1 and c3 are ann, c2 is bob; with MCRetry, c3 is ann repeating c1.     *)
MCUserOf    == [c \in Calls |-> IF c = c2 THEN bob ELSE ann]
MCRequestOf == [c \in Calls |-> IF c = c1 THEN req1 ELSE IF c = c2 THEN req2 ELSE req3]
MCRetry     == [c \in Calls |-> IF c = c2 THEN req2 ELSE req1]

RuleSet(start, cap, duration) ==
  [ start |-> start, increment |-> 1, cap |-> cap,
    duration |-> duration, threshold |-> 5, extend |-> 10 ]

(* A zero-yuan start with a cap two or three increments up, and no cap.    *)
MCRules      == { RuleSet(0, 2, 10), RuleSet(1, NoCap, 10) }
MCWiderRules == { RuleSet(0, 3, 15), RuleSet(1, NoCap, 10) }
===============================================================================
