----------------------------- MODULE MCBlockchain -----------------------------
(* Small instances of Blockchain.                                          *)
EXTENDS Blockchain

CONSTANTS alice, bob, t1, t2
=============================================================================
