------------------------------ MODULE MCRoomFeed ------------------------------
(***************************************************************************)
(* RoomFeed on small instances: the sets of the configurations.            *)
(***************************************************************************)
EXTENDS RoomFeed, TLC

CONSTANTS p1, p2

(* Publishers differ in nothing but their name (safety only).              *)
Alike == Permutations(Publishers)
===============================================================================
