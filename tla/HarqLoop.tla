------------------------------ MODULE HarqLoop ------------------------------
(***************************************************************************)
(* The uplink HARQ loop between one UE and the eNB, TTI by TTI: scheduler  *)
(* -> grant (PDCCH) -> UE process -> PUSCH -> receiver -> PHICH -> UE, as  *)
(* the worker bodies of src/main.cpp run it.  The two bodies of a TTI run  *)
(* in parallel; their steps interleave here, one step per message taken    *)
(* from a channel, and TtiClock is why no body starts the next TTI before  *)
(* the other has ended this one.                                           *)
(*                                                                         *)
(* A TB is a number: the order in which the scheduler created it.  Demand  *)
(* (SR, BSR, buffer sizes) is left open: the scheduler may grant a new TB  *)
(* whenever a process is free.                                             *)
(***************************************************************************)
EXTENDS Integers, Sequences, FiniteSets

CONSTANTS
  NofProcesses,     \* MAX_HARQ_PROCESSES
  MaxHarqTx,        \* transmissions of a TB, equal at the UE and the eNB
  MaxTb,            \* bound: how many TBs the scheduler ever creates
  Delay,            \* CHANNEL_PROPAGATION_TTI
  PrbContention,    \* whether other UEs may take the PRBs a grant needs
  EarlyTermination  \* early_termination_enabled_ of the UE's processes

ASSUME LoopAssumption ==
  /\ NofProcesses \in Nat \ {0}
  /\ MaxHarqTx \in Nat \ {0}
  /\ MaxTb \in Nat
  /\ Delay \in Nat \ {0}
  /\ {PrbContention, EarlyTermination} \subseteq BOOLEAN

Pids  == 0 .. NofProcesses - 1
NoTb  == 0
NoPdu == 0
Tbs   == 1 .. MaxTb

Ue == INSTANCE UeHarqProcess WITH MaxMsg3Tx <- MaxHarqTx
Enb == INSTANCE EnbRxProcess
Channel == INSTANCE TimedChannel

VARIABLES
  uePc,         \* where the UE body is: "phich", "grant", "done"
  proc,         \* the UE's HARQ processes
  lastPdu,      \* last_pdu_: the TB for which the UE last packed a PDU
  enbPc,        \* where the eNB body is: "schedule", "pusch", "done"
  busy,         \* harq_pid_busy
  pendingRetx,  \* pending_retx
  ndi,          \* ndi[] of the scheduler
  harqTb,       \* harq_tb: the TB a retransmission repeats, NoTb if invalid
  rx,           \* the eNB's receiving processes
  grantCh, puschCh, phichCh,   \* the three channels of the loop
  created,      \* how many TBs the scheduler has created
  sender, receiver             \* the verdicts of HarqTransfer

ueVars      == <<uePc, proc, lastPdu>>
schedVars   == <<busy, pendingRetx, ndi, harqTb, created>>
enbVars     == <<enbPc, rx>>
channelVars == <<grantCh, puschCh, phichCh>>
verdictVars == <<sender, receiver>>
vars == <<ueVars, schedVars, enbVars, channelVars, verdictVars>>

Init ==
  /\ uePc = "phich"
  /\ proc = [p \in Pids |-> Ue!IdleProcess]
  /\ lastPdu = NoPdu
  /\ enbPc = "schedule"
  /\ busy = {}
  /\ pendingRetx = {}
  /\ ndi = [p \in Pids |-> FALSE]
  /\ harqTb = [p \in Pids |-> NoTb]
  /\ rx = [p \in Pids |-> Enb!IdleRx]
  /\ grantCh = <<>> /\ puschCh = <<>> /\ phichCh = <<>>
  /\ created = 0
  /\ sender = [t \in Tbs |-> "unsent"]
  /\ receiver = [t \in Tbs |-> "open"]
-----------------------------------------------------------------------------
(* The UE body of a TTI                                                    *)

UeVerdict(p, m, action) ==
  IF action.kind = "discard" THEN [sender EXCEPT ![action.tb] = "discarded"]
  ELSE IF m.ack /\ Ue!InFlight(p) THEN [sender EXCEPT ![p.tb] = "acked"]
  ELSE sender

\* PHICH feedback: handle_harq_feedback of the context, manager and process.
UeFeedback ==
  /\ uePc = "phich"
  /\ Channel!Visible(phichCh)
  /\ LET m == Head(phichCh).item
         r == Ue!ApplyPhich(proc[m.pid], m.ack)
     IN  /\ proc' = [proc EXCEPT ![m.pid] = r.proc]
         /\ sender' = UeVerdict(proc[m.pid], m, r.action)
  /\ phichCh' = Tail(phichCh)
  /\ UNCHANGED <<uePc, lastPdu, schedVars, enbVars, grantCh, puschCh, receiver>>

UeFeedbackDone ==
  /\ uePc = "phich"
  /\ ~Channel!Visible(phichCh)
  /\ uePc' = "grant"
  /\ UNCHANGED <<proc, lastPdu, schedVars, enbVars, channelVars, verdictVars>>

\* last_pdu_: a new TB clears it and packs its BSR if it has one.
NewPdu(action, hasBsr) ==
  IF action.kind = "new" THEN IF hasBsr THEN action.tb ELSE NoPdu
  ELSE lastPdu

\* The grants of this loop are for the C-RNTI, never a temporary one.
TakeGrant(p, g) == Ue!NewGrantUl(p, g, FALSE)

\* process_ul_grant, and the PUSCH message the body then sends.
UeGrant ==
  /\ uePc = "grant"
  /\ Channel!Visible(grantCh)
  /\ \E hasBsr \in BOOLEAN :
       LET g == Head(grantCh).item
           r == TakeGrant(proc[g.pid], g)
       IN  /\ proc' = [proc EXCEPT ![g.pid] = r.proc]
           /\ lastPdu' = NewPdu(r.action, hasBsr)
           /\ puschCh' = Channel!Send(puschCh,
                           [grant |-> g, pdu |-> lastPdu',
                            tb |-> r.action.tb, nb |-> r.action.nb])
           /\ sender' = IF r.action.kind = "new"
                        THEN [sender EXCEPT ![r.action.tb] = "sent"]
                        ELSE sender
  /\ grantCh' = Tail(grantCh)
  /\ UNCHANGED <<uePc, schedVars, enbVars, phichCh, receiver>>

UeGrantDone ==
  /\ uePc = "grant"
  /\ ~Channel!Visible(grantCh)
  /\ uePc' = "done"
  /\ UNCHANGED <<proc, lastPdu, schedVars, enbVars, channelVars, verdictVars>>
-----------------------------------------------------------------------------
(* The eNB body of a TTI                                                   *)

Lowest(pids) == CHOOSE p \in pids : \A q \in pids : p <= q

\* pending_retx whose TB record is missing: dropped instead of granted.
Orphans == {p \in pendingRetx : harqTb[p] = NoTb}

Free == Pids \ busy

SendGrant(g) == grantCh' = Channel!Send(grantCh, g)

\* schedule_retx_first: the first pending process whose PRBs are available.
EnbGrantRetx(p) ==
  LET dropped == {q \in Orphans : q < p}
  IN  /\ enbPc = "schedule"
      /\ p \in pendingRetx \ Orphans
      /\ PrbContention \/ p = Lowest(pendingRetx \ Orphans)
      /\ pendingRetx' = pendingRetx \ (dropped \union {p})
      /\ busy' = busy \ dropped
      /\ SendGrant([pid |-> p, ndiPresent |-> TRUE, ndi |-> ndi[p],
                    rv |-> Ue!NoRv, tb |-> harqTb[p], isRar |-> FALSE])
      /\ enbPc' = "pusch"
      /\ UNCHANGED <<ueVars, ndi, harqTb, created, rx, puschCh, phichCh,
                     verdictVars>>

\* No retransmission was granted: none is pending, or the PRBs are taken.
RetxNotGranted ==
  /\ enbPc = "schedule"
  /\ PrbContention \/ pendingRetx \subseteq Orphans
  /\ pendingRetx' = pendingRetx \ Orphans

\* Mutant of Toggled: a new TB leaves the NDI of its process as it was.
NotToggled(p) == ndi

Toggled(p) == [ndi EXCEPT ![p] = ~@]

\* Mutant of FreePid: any process may be granted, busy or not.
AnyPid == Lowest(Pids)

\* alloc_free_pid
FreePid == Lowest(Free \union (busy \intersect Orphans))

\* generate_ul_grant for a new TB, and commit_new_grant.
EnbGrantNew ==
  /\ RetxNotGranted
  /\ created < MaxTb
  /\ Free \union (busy \intersect Orphans) # {}
  /\ LET p == FreePid
     IN  /\ ndi' = Toggled(p)
         /\ harqTb' = [harqTb EXCEPT ![p] = created + 1]
         /\ busy' = (busy \ Orphans) \union {p}
         /\ SendGrant([pid |-> p, ndiPresent |-> TRUE, ndi |-> ndi'[p],
                       rv |-> 0, tb |-> created + 1, isRar |-> FALSE])
  /\ created' = created + 1
  /\ enbPc' = "pusch"
  /\ UNCHANGED <<ueVars, rx, puschCh, phichCh, verdictVars>>

\* No demand, no free process, or no PRB left.
EnbGrantNothing ==
  /\ RetxNotGranted
  /\ busy' = busy \ Orphans
  /\ enbPc' = "pusch"
  /\ UNCHANGED <<ueVars, ndi, harqTb, created, rx, channelVars, verdictVars>>

\* Mutant of Settled: a discarded TB is reported to the scheduler as a NACK.
SettledOnAckOnly(r) == r.crcOk

\* handle_ul_crc is told of success for a discarded TB too.
Settled(r) == r.crcOk \/ r.discarded

\* Mutant of HandleUlCrc: success leaves the process occupied.
HandleUlCrcBusy(p, ok) ==
  /\ pendingRetx' = IF ok THEN pendingRetx \ {p} ELSE pendingRetx \union {p}
  /\ busy' = busy \union {p}
  /\ harqTb' = IF ok THEN [harqTb EXCEPT ![p] = NoTb] ELSE harqTb

HandleUlCrc(p, ok) ==
  IF ok
  THEN /\ pendingRetx' = pendingRetx \ {p}
       /\ busy' = busy \ {p}
       /\ harqTb' = [harqTb EXCEPT ![p] = NoTb]
  ELSE /\ pendingRetx' = pendingRetx \union {p}
       /\ busy' = busy \union {p}
       /\ UNCHANGED harqTb

EnbVerdict(r) ==
  IF r.crcOk THEN [receiver EXCEPT ![r.tb] = "delivered"]
  ELSE IF r.discarded THEN [receiver EXCEPT ![r.tb] = "dropped"]
  ELSE receiver

\* A visible PUSCH message: receive_tb, the PHICH answer, handle_ul_crc.
EnbReceive ==
  /\ enbPc = "pusch"
  /\ Channel!Visible(puschCh)
  /\ \E crcOk \in BOOLEAN :
       LET m == Head(puschCh).item
           p == m.grant.pid
           r == Enb!ReceiveTb(rx[p], m.grant, m.tb, crcOk)
       IN  /\ rx' = [rx EXCEPT ![p] = r.rx]
           /\ phichCh' = Channel!Send(phichCh, [pid |-> p, ack |-> r.crcOk])
           /\ HandleUlCrc(p, Settled(r))
           /\ receiver' = EnbVerdict(r)
  /\ puschCh' = Tail(puschCh)
  /\ UNCHANGED <<ueVars, enbPc, ndi, created, grantCh, sender>>

EnbReceiveDone ==
  /\ enbPc = "pusch"
  /\ ~Channel!Visible(puschCh)
  /\ enbPc' = "done"
  /\ UNCHANGED <<ueVars, schedVars, rx, channelVars, verdictVars>>
-----------------------------------------------------------------------------
\* Both bodies have called mark_tti_done: the clock announces the next TTI.
NextTti ==
  /\ uePc = "done" /\ enbPc = "done"
  /\ uePc' = "phich" /\ enbPc' = "schedule"
  /\ grantCh' = Channel!Advance(grantCh)
  /\ puschCh' = Channel!Advance(puschCh)
  /\ phichCh' = Channel!Advance(phichCh)
  /\ UNCHANGED <<proc, lastPdu, schedVars, rx, verdictVars>>

UeNext  == UeFeedback \/ UeFeedbackDone \/ UeGrant \/ UeGrantDone
EnbNext == \/ \E p \in Pids : EnbGrantRetx(p)
           \/ EnbGrantNew
           \/ EnbGrantNothing
           \/ EnbReceive
           \/ EnbReceiveDone

Next == UeNext \/ EnbNext \/ NextTti

Spec == Init /\ [][Next]_vars

\* Worker threads that the operating system keeps running.
FairSpec ==
  Spec /\ WF_vars(UeNext) /\ WF_vars(EnbNext) /\ WF_vars(NextTti)
-----------------------------------------------------------------------------
(* Properties                                                              *)

Pdus == Channel!Items(puschCh)

TypeOK ==
  /\ uePc \in {"phich", "grant", "done"}
  /\ enbPc \in {"schedule", "pusch", "done"}
  /\ lastPdu \in Tbs \union {NoPdu}
  /\ busy \subseteq Pids /\ pendingRetx \subseteq Pids
  /\ ndi \in [Pids -> BOOLEAN]
  /\ harqTb \in [Pids -> Tbs \union {NoTb}]
  /\ created \in 0 .. MaxTb
  /\ \A p \in Pids :
       /\ proc[p].txNb \in 0 .. MaxHarqTx /\ proc[p].irv \in 0 .. 3
       /\ proc[p].tb \in Tbs \union {NoTb}
       /\ rx[p].txCount \in 0 .. MaxHarqTx - 1
       /\ rx[p].tb \in Tbs \union {NoTb} /\ rx[p].soft \subseteq Tbs
  /\ \A ch \in {grantCh, puschCh, phichCh} :
       \A i \in DOMAIN ch : ch[i].left \in 0 .. Delay

\* How many messages of process p are on their way, plus the pending retx.
Outstanding(p) ==
  Cardinality({i \in DOMAIN grantCh : grantCh[i].item.pid = p})
  + Cardinality({i \in DOMAIN puschCh : puschCh[i].item.grant.pid = p})
  + (IF p \in pendingRetx THEN 1 ELSE 0)

\* Stop and wait: a busy process of the scheduler has exactly one grant, PUSCH
\* transmission or pending retransmission under way, a free one has none.
StopAndWait ==
  \A p \in Pids : Outstanding(p) = IF p \in busy THEN 1 ELSE 0

\* Every TB the UE has sent and not yet settled is still held by one of its
\* processes: no grant overwrites a TB whose fate the UE does not know.
SentIsHeld ==
  \A t \in Tbs : sender[t] = "sent" =>
    \E p \in Pids : proc[p].tb = t /\ Ue!InFlight(proc[p])

\* The UE reads every grant as the scheduler meant it when it sent it: a
\* retransmission repeats the TB the process holds, a new TB toggles its NDI
\* or finds the process idle.
GrantReadAsMeant ==
  (uePc = "grant" /\ Channel!Visible(grantCh)) =>
    LET g == Head(grantCh).item
    IN  /\ ~Ue!IsNewTx(proc[g.pid], g, FALSE) <=> g.rv = Ue!NoRv
        /\ g.rv = Ue!NoRv => /\ proc[g.pid].tb = g.tb
                             /\ Ue!StateOf(proc[g.pid]) = "RETX_PENDING"
        /\ g.rv # Ue!NoRv => Ue!StateOf(proc[g.pid]) = "INACTIVE"

\* A feedback that the UE takes from the PHICH answers the transmission its
\* process is waiting for; it never meets an idle or an answered process.
FeedbackIsAwaited ==
  (uePc = "phich" /\ Channel!Visible(phichCh)) =>
    Ue!StateOf(proc[Head(phichCh).item.pid]) = "WAITING_FB"

\* The soft buffer of a receiving process only ever combines transmissions of
\* the TB it is decoding, and both sides count the same transmissions.
SoftBufferPure ==
  /\ \A p \in Pids : rx[p].soft \subseteq {rx[p].tb}
  /\ \A m \in Pdus :
       LET p == m.grant.pid
       IN  m.nb = 1 + (IF rx[p].ndiKnown THEN rx[p].txCount ELSE 0)

\* UE and eNB agree on the fate of every TB and the UE never knows it first.
Transfer == INSTANCE HarqTransfer
ImplementsTransfer == Transfer!TransferSpec

\* The PDU that goes with a transmission was packed for the TB transmitted.
PduOfTb == \A m \in Pdus : m.pdu \in {m.tb, NoPdu}

\* Every TB that the UE has put on the air is settled in the end.
EveryTbSettled ==
  \A t \in Tbs : sender[t] = "sent" ~> sender[t] \in {"acked", "discarded"}

\* Every process the scheduler occupies becomes free again.
EveryPidFreed == \A p \in Pids : p \in busy ~> p \notin busy

ImplementsFairTransfer == Transfer!FairTransferSpec
-----------------------------------------------------------------------------
(* The inductive invariant: where the one message of each process is, and  *)
(* what that says of the two ends.  It holds as long as early termination  *)
(* cannot act before the limit.                                            *)

\* Three NACKs never come before the last transmission.
NeverEarly == EarlyTermination => MaxHarqTx <= 3

GrantItems == [pid : Pids, ndiPresent : {TRUE}, ndi : BOOLEAN,
               rv : {Ue!NoRv, 0}, tb : Tbs, isRar : {FALSE}]
PuschItems == [grant : GrantItems, pdu : Tbs \union {NoPdu}, tb : Tbs,
               nb : 1 .. MaxHarqTx]
PhichItems == [pid : Pids, ack : BOOLEAN]

\* What a channel may hold for process p, and holds.
GrantItemsOf(p) == {g \in GrantItems : g.pid = p}
PuschItemsOf(p) == {t \in PuschItems : t.grant.pid = p}
PhichItemsOf(p) == {f \in PhichItems : f.pid = p}
GrantsOf(p) == Channel!Of(grantCh, GrantItemsOf(p))
PuschOf(p)  == Channel!Of(puschCh, PuschItemsOf(p))
PhichOf(p)  == Channel!Of(phichCh, PhichItemsOf(p))

UeProcesses ==
  [txNb : 0 .. MaxHarqTx, irv : 0 .. 3, configured : BOOLEAN, acked : BOOLEAN,
   received : BOOLEAN, tb : Tbs \union {NoTb}, rv : {Ue!NoRv}, ndi : BOOLEAN,
   nacks : 0 .. Ue!NackLimit, maxTx : {MaxHarqTx}]

RxProcesses ==
  [state : {"INACTIVE", "RETX_PENDING"}, ndiKnown : BOOLEAN, ndi : BOOLEAN,
   txCount : 0 .. MaxHarqTx - 1, tb : Tbs \union {NoTb}, soft : SUBSET Tbs]

StateTypes ==
  /\ uePc \in {"phich", "grant", "done"}
  /\ enbPc \in {"schedule", "pusch", "done"}
  /\ proc \in [Pids -> UeProcesses] /\ rx \in [Pids -> RxProcesses]
  /\ lastPdu \in Tbs \union {NoPdu}
  /\ busy \subseteq Pids /\ pendingRetx \subseteq Pids
  /\ ndi \in [Pids -> BOOLEAN] /\ harqTb \in [Pids -> Tbs \union {NoTb}]
  /\ created \in 0 .. MaxTb
  /\ sender \in [Tbs -> {"unsent", "sent", "acked", "discarded"}]
  /\ receiver \in [Tbs -> {"open", "delivered", "dropped"}]

\* Every channel delivers in order, and holds one message of a process at most.
GrantChOK ==
  /\ grantCh \in Seq(Channel!Messages(GrantItems)) /\ Channel!Sorted(grantCh)
  /\ \A p \in Pids : Channel!AtMostOne(grantCh, GrantItemsOf(p))
PuschChOK ==
  /\ puschCh \in Seq(Channel!Messages(PuschItems)) /\ Channel!Sorted(puschCh)
  /\ \A p \in Pids : Channel!AtMostOne(puschCh, PuschItemsOf(p))
PhichChOK ==
  /\ phichCh \in Seq(Channel!Messages(PhichItems)) /\ Channel!Sorted(phichCh)
  /\ \A p \in Pids : Channel!AtMostOne(phichCh, PhichItemsOf(p))

ChannelsOK == GrantChOK /\ PuschChOK /\ PhichChOK

\* What the step of a body says of the age of the messages.
AgesOK ==
  /\ uePc # "phich" => \A m \in Channel!OnWay(phichCh) : m.left > 0
  /\ uePc = "done" => \A m \in Channel!OnWay(grantCh) : m.left > 0
  /\ enbPc = "done" => \A m \in Channel!OnWay(puschCh) : m.left > 0
  /\ enbPc = "schedule" => \A m \in Channel!OnWay(phichCh) : m.left < Delay

UeState(p) == Ue!StateOf(proc[p])

\* Consecutive NACKs are those of the TB in flight.
NacksCounted(p) ==
  proc[p].nacks <= CASE UeState(p) = "INACTIVE" -> 0
                     [] UeState(p) = "WAITING_FB" -> proc[p].txNb - 1
                     [] UeState(p) = "RETX_PENDING" -> proc[p].txNb

\* The TB of the latest transmission is decided; the UE knows or will be told.
Decided(p) ==
  \/ PhichOf(p) = {} /\ UeState(p) = "INACTIVE"
  \/ /\ UeState(p) = "WAITING_FB"
     /\ \E m \in PhichOf(p) :
          /\ PhichOf(p) = {m}
          /\ receiver[proc[p].tb] =
               IF m.item.ack THEN "delivered" ELSE "dropped"
          /\ m.item.ack \/ proc[p].txNb = MaxHarqTx

\* The latest transmission has failed; the UE knows or will be told.
Failed(p) ==
  \/ PhichOf(p) = {} /\ UeState(p) = "RETX_PENDING"
  \/ /\ UeState(p) = "WAITING_FB"
     /\ \E m \in PhichOf(p) : PhichOf(p) = {m} /\ ~m.item.ack

\* Both ends, or the UE alone, are at the TB of the scheduler.
UeHolds(p) ==
  /\ Ue!InFlight(proc[p]) /\ proc[p].tb = harqTb[p] /\ proc[p].ndi = ndi[p]
  /\ receiver[harqTb[p]] = "open"
EnbHolds(p) ==
  /\ rx[p].ndiKnown /\ rx[p].ndi = ndi[p]
  /\ rx[p].tb = harqTb[p] /\ rx[p].soft = {harqTb[p]}
EnbIdle(p) ==
  ~rx[p].ndiKnown /\ rx[p].txCount = 0 /\ rx[p].soft = {}

NothingOnAir(p) == GrantsOf(p) = {} /\ PuschOf(p) = {}

IsFree(p) ==
  /\ p \notin busy /\ p \notin pendingRetx /\ NothingOnAir(p) /\ EnbIdle(p)
  /\ Decided(p)
  /\ proc[p].configured => proc[p].ndi = ndi[p]

\* The message is the only one of p, and newer than the feedback that is due.
Granted(p, rv) ==
  /\ PuschOf(p) = {}
  /\ \E m \in GrantsOf(p) :
       /\ GrantsOf(p) = {m}
       /\ m.item.ndi = ndi[p] /\ m.item.tb = harqTb[p] /\ m.item.rv = rv
       /\ \A f \in PhichOf(p) : f.left < m.left

IsGranted(p) ==
  /\ p \in busy /\ p \notin pendingRetx /\ Granted(p, 0) /\ EnbIdle(p)
  /\ Decided(p)
  /\ proc[p].configured => proc[p].ndi # ndi[p]
  /\ harqTb[p] \in Tbs
  /\ sender[harqTb[p]] = "unsent" /\ receiver[harqTb[p]] = "open"

IsOnAir(p) ==
  /\ p \in busy /\ p \notin pendingRetx
  /\ GrantsOf(p) = {} /\ PhichOf(p) = {}
  /\ \E m \in PuschOf(p) :
       /\ PuschOf(p) = {m}
       /\ m.item.grant.ndi = ndi[p] /\ m.item.grant.tb = harqTb[p]
       /\ m.item.tb = harqTb[p] /\ m.item.nb = rx[p].txCount + 1
  /\ UeHolds(p) /\ UeState(p) = "WAITING_FB"
  /\ proc[p].txNb = rx[p].txCount + 1
  /\ EnbHolds(p) \/ EnbIdle(p)

IsDue(p) ==
  /\ p \in busy /\ p \in pendingRetx /\ NothingOnAir(p)
  /\ UeHolds(p) /\ EnbHolds(p) /\ Failed(p) /\ proc[p].txNb = rx[p].txCount

IsRepeated(p) ==
  /\ p \in busy /\ p \notin pendingRetx /\ Granted(p, Ue!NoRv)
  /\ UeHolds(p) /\ EnbHolds(p) /\ Failed(p) /\ proc[p].txNb = rx[p].txCount

Stage(p) ==
  IsFree(p) \/ IsGranted(p) \/ IsOnAir(p) \/ IsDue(p) \/ IsRepeated(p)

\* No two processes have the same TB, at either end.
TbsApart ==
  \A p, q \in Pids : p # q =>
    /\ p \in busy /\ q \in busy => harqTb[p] # harqTb[q]
    /\ Ue!InFlight(proc[p]) /\ Ue!InFlight(proc[q]) => proc[p].tb # proc[q].tb

TbsOK ==
  /\ \A t \in Tbs : t > created => sender[t] = "unsent" /\ receiver[t] = "open"
  /\ \A p \in busy : harqTb[p] \in 1 .. created
  /\ \A p \in Pids : Ue!InFlight(proc[p]) =>
       proc[p].tb \in Tbs /\ sender[proc[p].tb] = "sent"
  /\ TbsApart
  /\ SentIsHeld

\* One place holds what is under way for a process, and both ends agree on it:
\* the NDI, the TB, the number of its transmissions and its fate.
LoopInv ==
  /\ StateTypes /\ ChannelsOK /\ AgesOK /\ TbsOK
  /\ \A p \in Pids : NacksCounted(p) /\ Stage(p)
=============================================================================
