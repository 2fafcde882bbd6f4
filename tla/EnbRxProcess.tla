---------------------------- MODULE EnbRxProcess ----------------------------
(***************************************************************************)
(* One receiving HARQ process of the eNB (enb_rx_process and receive_tb,   *)
(* src/enb_ul_harq_manager.cpp) as operators on a record.  The decoder is  *)
(* an SNR threshold in the code; here the CRC outcome is an argument that  *)
(* the caller leaves open.  soft is the set of TBs whose transmissions     *)
(* have been combined since the process last started on a new TB: the code *)
(* only counts them (combined_count).                                      *)
(***************************************************************************)
EXTENDS Integers

CONSTANTS
  NoTb,        \* tbs = 0
  MaxHarqTx    \* max_harq_tx_ ("max_harq_tx=4, the same as the UE")

\* release_process_unlocked: cur_ndi keeps its value, ndi_known forgets it.
Released(p) ==
  [p EXCEPT !.state = "INACTIVE", !.ndiKnown = FALSE, !.txCount = 0,
            !.tb = NoTb, !.soft = {}]

IdleRx ==
  [state |-> "INACTIVE", ndiKnown |-> FALSE, ndi |-> FALSE, txCount |-> 0,
   tb |-> NoTb, soft |-> {}]

\* Step 1 of receive_tb.
IsNewTb(p, g) ==
  IF g.ndiPresent THEN ~p.ndiKnown \/ g.ndi # p.ndi
                  ELSE p.state = "INACTIVE"

\* Step 2: the soft buffer starts over for a new TB, else it accumulates.
Combine(p, g, sentTb) ==
  IF IsNewTb(p, g)
  THEN [p EXCEPT !.ndiKnown = TRUE, !.ndi = g.ndi, !.tb = g.tb,
                 !.txCount = 1, !.soft = {sentTb}]
  ELSE [p EXCEPT !.txCount = @ + 1, !.soft = @ \union {sentTb}]

\* Mutant of GivesUp: one transmission fewer than the limit.
GivesUpEarly(p) == p.txCount >= MaxHarqTx - 1

\* Mutant of GivesUp: one transmission more than the limit.
GivesUpLate(p) == p.txCount > MaxHarqTx

GivesUp(p) == p.txCount >= MaxHarqTx

\* receive_tb: release on ACK, discard at the limit, else wait for the retx.
ReceiveTb(p, g, sentTb, crcOk) ==
  LET q == Combine(p, g, sentTb)
      discarded == ~crcOk /\ GivesUp(q)
  IN  [rx   |-> IF crcOk \/ discarded THEN Released(q)
                ELSE [q EXCEPT !.state = "RETX_PENDING"],
       crcOk |-> crcOk, discarded |-> discarded,
       tb |-> q.tb, txCount |-> q.txCount]
=============================================================================
