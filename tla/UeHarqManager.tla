---------------------------- MODULE UeHarqManager ----------------------------
(***************************************************************************)
(* The UE's HARQ entity (ul_harq_manager, src/ue_ul_harq_manager.cpp) under *)
(* every call its interface allows, as the tests make them: grants with    *)
(* and without an NDI, for Msg3 and of size 0, feedback that is late or    *)
(* repeated, and a configuration that changes while TBs are in flight.     *)
(* (HarqLoop drives the same processes with what the scheduler sends.)     *)
(***************************************************************************)
EXTENDS Integers

CONSTANTS
  NofProcesses,   \* MAX_HARQ_PROCESSES
  MaxTxs,         \* bound: what max_harq_tx and max_harq_msg3_tx may be
  Tbs,            \* bound: the sizes of TBs
  MaxSent         \* bound: transmissions of a TB; larger than those of MaxTxs

ASSUME ManagerAssumption ==
  /\ NofProcesses \in Nat \ {0} /\ MaxSent \in Nat
  /\ MaxTxs \subseteq 1 .. MaxSent /\ MaxTxs # {}
  /\ Tbs \subseteq Nat \ {0}

Pids == 0 .. NofProcesses - 1

NoTb == 0

VARIABLES
  config,      \* harq_cfg_: the two limits
  early,       \* early_termination_enabled_ of all processes
  proc,        \* processes_
  open,        \* the processes whose latest transmission is not answered by
               \* an ACK, a discard or a reset
  sent,        \* transmissions of the TB since its first
  lastRv,      \* the redundancy version of the latest one
  limit,       \* transmissions allowed when the latest grant came
  dropped      \* the process whose TB the latest call discarded, or NoPid

vars == <<config, early, proc, open, sent, lastRv, limit, dropped>>

ghostVars == <<open, sent, lastRv, limit, dropped>>

NoPid == -1

\* A process sees the configuration of the manager and the switch.
Process == INSTANCE UeHarqProcess WITH
  MaxHarqTx <- config.tx, MaxMsg3Tx <- config.msg3, EarlyTermination <- early

Init ==
  /\ config \in [tx : MaxTxs, msg3 : MaxTxs]
  /\ early = FALSE
  /\ proc = [p \in Pids |-> Process!IdleProcess]
  /\ open = {} /\ dropped = NoPid
  /\ sent = [p \in Pids |-> 0] /\ lastRv = [p \in Pids |-> 0]
  /\ limit = [p \in Pids |-> config.tx]
-----------------------------------------------------------------------------
(* Grants with a TB and an RV or none (for a new TB: the first or none),   *)
(* and the two that carry no TB: of size 0, and without an NDI.            *)

Grants ==
  LET some == [pid : Pids, ndiPresent : {TRUE}, ndi : BOOLEAN, isRar : BOOLEAN,
               tb : Tbs, rv : {-1, 0, 3}]
      bare == [pid : Pids, ndiPresent : BOOLEAN, ndi : {FALSE},
               isRar : {FALSE}, tb : {NoTb}, rv : {-1}]
  IN  some \union bare

NewGrantUl(g, tempRnti) ==
  LET p == g.pid
      r == Process!NewGrantUl(proc[p], g, tempRnti)
      a == r.action
  IN  /\ sent[p] < MaxSent
      /\ a.kind = "new" => g.rv \in {-1, 0}
      /\ proc' = [proc EXCEPT ![p] = r.proc]
      /\ limit' = [limit EXCEPT ![p] = IF tempRnti THEN config.msg3
                                       ELSE config.tx]
      /\ IF a.kind = "none" THEN UNCHANGED <<open, sent, lastRv>>
         ELSE /\ open' = open \union {p}
              /\ sent' = [sent EXCEPT ![p] = IF a.kind = "new" THEN 1 ELSE @ + 1]
              /\ lastRv' = [lastRv EXCEPT ![p] = a.rv]
      /\ dropped' = NoPid
      /\ UNCHANGED <<config, early>>

\* handle_harq_feedback, at any time.
HandleHarqFeedback(p, ack) ==
  LET r == Process!ApplyPhich(proc[p], ack)
      discarded == r.action.kind = "discard"
  IN  /\ proc' = [proc EXCEPT ![p] = r.proc]
      /\ open' = IF ack \/ discarded THEN open \ {p} ELSE open
      /\ sent' = IF discarded THEN [sent EXCEPT ![p] = 0] ELSE sent
      /\ dropped' = IF discarded THEN p ELSE NoPid
      /\ UNCHANGED <<config, early, lastRv, limit>>

\* Mutant of Reset: the limits go back to the configuration.
ResetWithLimits ==
  /\ proc' = [p \in Pids |-> Process!IdleProcess]
  /\ open' = {} /\ dropped' = NoPid
  /\ sent' = [p \in Pids |-> 0]
  /\ UNCHANGED <<config, early, lastRv, limit>>

\* reset of all processes; limits and the switch stay as they are.
Reset ==
  /\ proc' = [p \in Pids |->
                [Process!IdleProcess EXCEPT !.maxTx = proc[p].maxTx]]
  /\ open' = {} /\ dropped' = NoPid
  /\ sent' = [p \in Pids |-> 0]
  /\ UNCHANGED <<config, early, lastRv, limit>>

SetConfig ==
  /\ config' \in [tx : MaxTxs, msg3 : MaxTxs]
  /\ dropped' = NoPid
  /\ UNCHANGED <<early, proc, open, sent, lastRv, limit>>

SetEarlyTermination ==
  /\ early' = ~early
  /\ dropped' = NoPid
  /\ UNCHANGED <<config, proc, open, sent, lastRv, limit>>

Next ==
  \/ \E g \in Grants, tempRnti \in BOOLEAN : NewGrantUl(g, tempRnti)
  \/ \E p \in Pids, ack \in BOOLEAN : HandleHarqFeedback(p, ack)
  \/ Reset \/ SetConfig \/ SetEarlyTermination

Spec == Init /\ [][Next]_vars
-----------------------------------------------------------------------------
(* Properties                                                              *)

TypeOK ==
  /\ config \in [tx : MaxTxs, msg3 : MaxTxs] /\ early \in BOOLEAN
  /\ open \subseteq Pids /\ dropped \in Pids \union {NoPid}
  /\ sent \in [Pids -> 0 .. MaxSent] /\ lastRv \in [Pids -> 0 .. 3]
  /\ limit \in [Pids -> MaxTxs]
  /\ \A p \in Pids :
       /\ proc[p].txNb = sent[p] /\ proc[p].tb \in Tbs \union {NoTb}
       /\ proc[p].irv \in 0 .. 3 /\ proc[p].rv = -1
       /\ proc[p].nacks \in 0 .. Process!NackLimit

\* has_pending_transmission
HasPendingTransmission ==
  \E p \in Pids : Process!StateOf(proc[p]) \in {"WAITING_FB", "RETX_PENDING"}

\* A grant counts as pending exactly while a transmission has been made that
\* is neither acknowledged nor given up, whatever grants and feedback came in
\* between (an ACK that never released the process once blocked the SR).
PendingIffOpen == HasPendingTransmission <=> open # {}

\* The redundancy version after rv in the sequence.
Following(rv) ==
  CASE rv = 0 -> 2 [] rv = 2 -> 3 [] rv = 3 -> 1 [] rv = 1 -> 0

\* The redundancy versions of a TB follow 0, 2, 3, 1 from the latest one sent,
\* whether that came from the sequence or from an adaptive grant.
RvContinues ==
  \A p \in open : Process!RvOfIrv(proc[p].irv) = Following(lastRv[p])

\* A TB is given up at most once, never after its ACK, and only when it has had
\* the transmissions that were allowed when its latest grant came, or a second
\* one with early termination on: a limit that changes meanwhile counts from
\* the next grant.
DiscardJustified ==
  [][\A p \in Pids : dropped' = p =>
       p \in open /\ (sent[p] >= limit[p] \/ (early /\ sent[p] >= 2))]_vars
-----------------------------------------------------------------------------
(* The inductive invariant: what the history says of a process is what the *)
(* record of the process says.                                             *)

\* A process between two calls: the RV of a grant has been used up.
ProcessType ==
  [txNb : 0 .. MaxSent, irv : 0 .. 3, configured : BOOLEAN, acked : BOOLEAN,
   received : BOOLEAN, tb : Tbs \union {NoTb}, rv : {Process!NoRv},
   ndi : BOOLEAN, nacks : 0 .. Process!NackLimit, maxTx : MaxTxs]

HistoryOK ==
  /\ config \in [tx : MaxTxs, msg3 : MaxTxs] /\ early \in BOOLEAN
  /\ open \subseteq Pids /\ dropped \in Pids \union {NoPid}
  /\ sent \in [Pids -> 0 .. MaxSent] /\ lastRv \in [Pids -> 0 .. 3]
  /\ limit \in [Pids -> MaxTxs]

\* The process has in flight what is open, and counts what was sent.
Remembered(p) ==
  /\ p \in open <=> Process!InFlight(proc[p])
  /\ sent[p] = proc[p].txNb
  /\ limit[p] = proc[p].maxTx
  /\ p \in open => Process!RvOfIrv(proc[p].irv) = Following(lastRv[p])

\* The record of every process and the history of its grants and feedback
\* agree, in whatever order grants, feedback, resets and new limits came.
ManagerInv ==
  /\ HistoryOK
  /\ proc \in [Pids -> ProcessType]
  /\ \A p \in Pids : Remembered(p)
=============================================================================
