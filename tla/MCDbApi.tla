------------------------------- MODULE MCDbApi -------------------------------
(* Small instances of DbApi: two contracts, the first of which has a table. *)
EXTENDS DbApi, TLC

CONSTANTS a, b, pa

MCCode == pa :> a
=============================================================================
