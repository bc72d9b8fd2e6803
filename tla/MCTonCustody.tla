---------------------------- MODULE MCTonCustody ----------------------------
(***************************************************************************)
(* Two TON withdrawals of one amount, for the run in which the indexer     *)
(* shows transfers that left after the watcher had read the wallet's seqno.*)
(***************************************************************************)
EXTENDS TonCustody, TLC

CONSTANTS x1, x2, y1

SameNet == x1 :> 1 @@ x2 :> 1
=============================================================================
