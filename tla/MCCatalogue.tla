------------------------------ MODULE MCCatalogue ------------------------------
(***************************************************************************)
(* Catalogue on a small instance: two filters besides none at all.         *)
(***************************************************************************)
EXTENDS Catalogue

CONSTANTS front, back, short, long, k1, k2

MCFilters == { Anything,
               [ Anything EXCEPT !.status = "listed" ],
               [ Anything EXCEPT !.progress = "running" ] }
================================================================================
