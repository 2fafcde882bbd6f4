----------------------------- MODULE MCTtiClock -----------------------------
(* TtiClock with three workers (two UEs and the eNB) and three TTIs.       *)
EXTENDS TtiClock

CONSTANTS ue1, ue2, enb, clock

MCWorkers == {ue1, ue2, enb}
=============================================================================
