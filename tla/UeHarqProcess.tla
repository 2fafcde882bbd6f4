--------------------------- MODULE UeHarqProcess ---------------------------
(***************************************************************************)
(* The state machine of one UE uplink HARQ process (class ul_harq_process, *)
(* src/ue_ul_harq_manager.cpp) as operators on a process record: the UE    *)
(* drives it with a grant (new_grant_ul) and with a PHICH feedback         *)
(* (apply_phich_feedback).  The size of a transport block stands for its   *)
(* identity: cur_tbs_ is the TB the process holds, NoTb when it is zero.   *)
(***************************************************************************)
EXTENDS Integers, Sequences

CONSTANTS
  NoTb,              \* tbs = 0
  MaxHarqTx,         \* ul_harq_config::max_harq_tx
  MaxMsg3Tx,         \* ul_harq_config::max_harq_msg3_tx
  EarlyTermination   \* early_termination_enabled_

\* rv = -1: the redundancy version comes from the IRV counter.
NoRv == -1

RvOfIrv(irv) == <<0, 2, 3, 1>>[(irv % 4) + 1]
IrvOfRv(rv)  == <<0, 3, 1, 2>>[(rv % 4) + 1]

\* reset_unlocked: the state of a process that holds no grant.
IdleProcess ==
  [txNb |-> 0, irv |-> 0, configured |-> FALSE, acked |-> FALSE,
   received |-> FALSE, tb |-> NoTb, rv |-> NoRv, ndi |-> FALSE,
   nacks |-> 0, maxTx |-> MaxHarqTx]

\* consecutive_nack_ is only ever compared with 3, where this count stops.
NackLimit == 3

\* get_state, and the same rule in fill_process_info.
StateOf(p) ==
  IF ~p.configured \/ p.acked THEN "INACTIVE"
  ELSE IF p.received THEN "RETX_PENDING" ELSE "WAITING_FB"

NoAction == [kind |-> "none", tb |-> NoTb, rv |-> NoRv, nb |-> 0]
-----------------------------------------------------------------------------
(* apply_phich_feedback                                                    *)

InFlight(p) == p.configured /\ ~p.acked

\* Mutant of ApplyAck: an ACK is noted, the process is not released.
ApplyAckUnreleased(p) ==
  [proc   |-> IF InFlight(p) THEN [p EXCEPT !.nacks = 0, !.received = TRUE] ELSE p,
   action |-> NoAction]

ApplyAck(p) ==
  [proc   |-> IF InFlight(p)
              THEN [p EXCEPT !.nacks = 0, !.acked = TRUE, !.received = TRUE]
              ELSE p,
   action |-> NoAction]

Exhausted(p) ==
  \/ p.txNb >= p.maxTx
  \/ EarlyTermination /\ p.txNb >= 2 /\ p.nacks >= NackLimit

\* The consecutive count moves before the guard that ignores a late NACK.
ApplyNack(p) ==
  LET counted == [p EXCEPT !.nacks = IF @ < NackLimit THEN @ + 1 ELSE @]
      marked  == [counted EXCEPT !.received = TRUE]
  IN  IF ~InFlight(p) THEN [proc |-> counted, action |-> NoAction]
      ELSE IF Exhausted(counted)
      THEN [proc   |-> [IdleProcess EXCEPT !.maxTx = p.maxTx],
            action |-> [NoAction EXCEPT !.kind = "discard", !.tb = p.tb]]
      ELSE [proc |-> marked, action |-> NoAction]

ApplyPhich(p, ack) == IF ack THEN ApplyAck(p) ELSE ApplyNack(p)
-----------------------------------------------------------------------------
(* new_grant_ul                                                            *)

\* generate_tx: count the transmission, use the given RV once or the sequence.
GenerateTx(p, kind) ==
  [proc   |-> [p EXCEPT !.txNb = @ + 1, !.rv = NoRv, !.irv = (@ + 1) % 4],
   action |-> [kind |-> kind, tb |-> p.tb, nb |-> p.txNb + 1,
               rv |-> IF p.rv >= 0 THEN p.rv ELSE RvOfIrv(p.irv)]]

\* Mutant of GenerateNewTx: current_tx_nb_ is not reset for the new TB.
GenerateNewTxKeepingCount(p, g) ==
  GenerateTx([p EXCEPT !.ndi = g.ndi, !.tb = g.tb, !.rv = g.rv,
                       !.acked = FALSE, !.received = FALSE,
                       !.configured = TRUE, !.irv = 0], "new")

\* generate_new_tx
GenerateNewTx(p, g) ==
  GenerateTx([p EXCEPT !.ndi = g.ndi, !.tb = g.tb, !.rv = g.rv,
                       !.acked = FALSE, !.received = FALSE,
                       !.configured = TRUE, !.txNb = 0, !.irv = 0], "new")

\* Mutant of GenerateRetx: the feedback of the last attempt is not cleared.
GenerateRetxAnswered(p, g) ==
  GenerateTx(
    IF g.ndiPresent
    THEN [p EXCEPT !.irv = IF g.rv >= 0 THEN IrvOfRv(g.rv) ELSE @,
                   !.tb = g.tb, !.rv = g.rv]
    ELSE p, "retx")

\* Mutant of GenerateRetx: an RV that is given does not move the counter.
GenerateRetxKeepingIrv(p, g) ==
  GenerateTx(
    IF g.ndiPresent
    THEN [p EXCEPT !.tb = g.tb, !.rv = g.rv, !.acked = FALSE, !.received = FALSE]
    ELSE p, "retx")

\* generate_retx: only a grant with an NDI (an adaptive one) updates the TB.
GenerateRetx(p, g) ==
  GenerateTx(
    IF g.ndiPresent
    THEN [p EXCEPT !.irv = IF g.rv >= 0 THEN IrvOfRv(g.rv) ELSE @,
                   !.tb = g.tb, !.rv = g.rv,
                   !.acked = FALSE, !.received = FALSE]
    ELSE p, "retx")

IsNewTx(p, g, tempRnti) ==
  \/ ~tempRnti /\ g.ndi # p.ndi
  \/ ~p.configured /\ ~tempRnti
  \/ g.isRar

\* Mutant of WithLimit: only a process without a TB takes over the limit.
WithFirstLimit(p, tempRnti) ==
  IF p.configured THEN p
  ELSE [p EXCEPT !.maxTx = IF tempRnti THEN MaxMsg3Tx ELSE MaxHarqTx]

\* The limit in force is kept for the feedback that will come.
WithLimit(p, tempRnti) ==
  [p EXCEPT !.maxTx = IF tempRnti THEN MaxMsg3Tx ELSE MaxHarqTx]

NewGrantUl(p, g, tempRnti) ==
  LET q == WithLimit(p, tempRnti)
      nothing == [proc |-> q, action |-> NoAction]
  IN  IF g.ndiPresent
      THEN IF g.tb = NoTb THEN nothing
           ELSE IF IsNewTx(q, g, tempRnti) THEN GenerateNewTx(q, g)
           ELSE IF q.configured THEN GenerateRetx(q, g)
           ELSE nothing
      ELSE IF q.configured /\ q.received /\ ~q.acked
           THEN GenerateRetx(q, g)
           ELSE nothing
=============================================================================
