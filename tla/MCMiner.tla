------------------------------- MODULE MCMiner -------------------------------
(* Two workers; mining is started and stopped until two sessions overlap. *)
EXTENDS Miner

CONSTANTS w1, w2

MCWorker == {w1, w2}
=============================================================================
