---------------------------- MODULE MCSecondaryApi ----------------------------
(* Small instances of SecondaryApi: two contracts, the first of which has a *)
(* table.                                                                  *)
EXTENDS SecondaryApi, TLC

CONSTANTS alice, bob, pa

MCCode == pa :> alice
=============================================================================
