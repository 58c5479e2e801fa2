----------------------------- MODULE MCOrderPages -----------------------------
(***************************************************************************)
(* OrderPages on a small instance: the addresses and the bounds of the     *)
(* configurations.                                                         *)
(***************************************************************************)
EXTENDS OrderPages

CONSTANTS home, office

MCVisits == [ buyer |-> 2, seller |-> 1 ]
===============================================================================
