------------------------------ MODULE MCConsole ------------------------------
(***************************************************************************)
(* Console on a small instance: the products of the configuration.         *)
(***************************************************************************)
EXTENDS Console

CONSTANTS mug, vase, cup, lamp

MCShelf == << mug, vase, cup >>
==============================================================================
