----------------------------- MODULE UplinkData -----------------------------
(***************************************************************************)
(* How the data of one UE gets through: buffers, BSR and SR of the UE      *)
(* (ue_context), the eNB's view of the buffers, the scheduler's demand and *)
(* the HARQ loop, composed as the scenario bodies of src/main.cpp do.      *)
(*                                                                         *)
(* The two bodies of a TTI meet only in channels that deliver at least one *)
(* TTI later, so their order inside a TTI does not matter; here the UE     *)
(* goes first.  (HarqLoop runs them in both orders and step by step.)      *)
(* A TB is identified with its size, cur_tbs_ of the code.                 *)
(***************************************************************************)
EXTENDS Integers, Sequences, FiniteSets

CONSTANTS
  NofChannels, NofLcgs, LcgOf, Pbr, BucketSize,
  NofProcesses, MaxHarqTx, Delay,
  SrEnabled, DsrTransMax, SrPeriod, SrProhibit,
  MinSrPeriod, MaxSrPeriod,
  NewSrPeriods,   \* periods the traffic may ask for, {} without adaptation
  PeriodicTimer, RetxTimer,
  TotalPrb,
  Cqis,           \* bound: the CQIs that may be reported
  ArrivalSizes,   \* bound: the sizes of the packets that may arrive
  MaxArrivals,    \* bound: how many packets arrive
  MaxCrcErrors    \* bound: how many transmissions fail

ASSUME DataAssumption ==
  /\ {NofLcgs, NofProcesses, MaxHarqTx, Delay, SrPeriod} \subseteq Nat \ {0}
  /\ {MinSrPeriod, MaxSrPeriod, NofChannels} \subseteq Nat \ {0}
  /\ MinSrPeriod <= MaxSrPeriod /\ NewSrPeriods \subseteq Nat
  /\ LcgOf \in [0 .. NofChannels - 1 -> 0 .. NofLcgs - 1]
  /\ {Pbr, BucketSize} \subseteq [0 .. NofChannels - 1 -> Nat]
  /\ {DsrTransMax, SrProhibit, PeriodicTimer, RetxTimer} \subseteq Nat
  /\ TotalPrb \in Nat \ {0}
  /\ SrEnabled \in BOOLEAN
  /\ Cqis \subseteq 0 .. 15
  /\ ArrivalSizes \subseteq Nat \ {0}
  /\ {MaxArrivals, MaxCrcErrors} \subseteq Nat

Channels == 0 .. NofChannels - 1
Lcgs == 0 .. NofLcgs - 1
Pids == 0 .. NofProcesses - 1
NoTb == 0

Channel == INSTANCE TimedChannel
Ue      == INSTANCE UeHarqProcess WITH
             MaxMsg3Tx <- MaxHarqTx, EarlyTermination <- FALSE
Rx      == INSTANCE EnbRxProcess
Buffer  == INSTANCE LcgBuffer
Sr      == INSTANCE SrManager
Bsr     == INSTANCE BsrManager
Table   == INSTANCE BsrTable
Sched   == INSTANCE UeSchedContext WITH MaxSamples <- 0
Pdu     == INSTANCE MacPdu

VARIABLES
  pc,             \* the step of the TTI
  buf, sr, bsr,   \* the UE's buffers, SR and BSR procedures
  proc,           \* its HARQ processes
  lastPdu,        \* last_pdu_: the bytes packed for the latest new TB
  ctx,            \* the scheduler's context of the UE
  view,           \* the eNB BSR decoder's view of the buffers
  rx,             \* the eNB's receiving processes
  srCh, grantCh, puschCh, phichCh,
  arrivals, crcErrors,   \* how many are still to come
  owed,           \* bytes that arrived, less the bytes the eNB has decoded
  payload,        \* bytes in the TB of a process, not decoded yet
  invented        \* bytes that discarded TBs gave back beyond their payload

ueVars      == <<buf, sr, bsr, proc, lastPdu>>
enbVars     == <<ctx, view, rx>>
channelVars == <<srCh, grantCh, puschCh, phichCh>>
boundVars   == <<arrivals, crcErrors>>
ghostVars   == <<owed, payload, invented>>
vars == <<pc, ueVars, enbVars, channelVars, boundVars, ghostVars>>

Init ==
  /\ pc = "phich"
  /\ buf = Buffer!Empty /\ sr = Sr!IdleSr /\ bsr = Bsr!IdleBsr
  /\ proc = [p \in Pids |-> Ue!IdleProcess]
  /\ lastPdu = <<>>
  /\ ctx = Sched!NewContext
  /\ view = [l \in Lcgs |-> 0]
  /\ rx = [p \in Pids |-> Rx!IdleRx]
  /\ srCh = <<>> /\ grantCh = <<>> /\ puschCh = <<>> /\ phichCh = <<>>
  /\ arrivals = MaxArrivals /\ crcErrors = MaxCrcErrors
  /\ owed = 0 /\ payload = [p \in Pids |-> 0] /\ invented = 0
-----------------------------------------------------------------------------
(* The UE body                                                             *)

\* handle_harq_feedback: a discarded TB goes back into the buffer.
UeFeedback ==
  /\ pc = "phich" /\ Channel!Visible(phichCh)
  /\ LET m == Head(phichCh).item
         r == Ue!ApplyPhich(proc[m.pid], m.ack)
         discarded == r.action.kind = "discard"
     IN  /\ proc' = [proc EXCEPT ![m.pid] = r.proc]
         /\ buf' = IF discarded THEN Buffer!Restore(buf, r.action.tb) ELSE buf
         /\ payload' = IF discarded THEN [payload EXCEPT ![m.pid] = 0]
                       ELSE payload
         /\ invented' = IF discarded
                        THEN invented + r.action.tb - payload[m.pid]
                        ELSE invented
  /\ phichCh' = Tail(phichCh)
  /\ UNCHANGED <<pc, sr, bsr, lastPdu, enbVars, srCh, grantCh, puschCh,
                 boundVars, owed>>

\* begin_tti_snapshot
UeSnapshot ==
  /\ pc = "phich" /\ ~Channel!Visible(phichCh)
  /\ buf' = Buffer!UpdateOld(buf)
  /\ pc' = "arrivals"
  /\ UNCHANGED <<sr, bsr, proc, lastPdu, enbVars, channelVars, boundVars,
                 ghostVars>>

\* data_arrived
UeDataArrived ==
  /\ pc = "arrivals" /\ arrivals > 0
  /\ \E c \in Channels, bytes \in ArrivalSizes :
       /\ buf' = Buffer!Arrived(buf, c, bytes)
       /\ owed' = owed + bytes
  /\ arrivals' = arrivals - 1
  /\ UNCHANGED <<pc, sr, bsr, proc, lastPdu, enbVars, channelVars, crcErrors,
                 payload, invented>>

\* adjust_sr_period, where the scenario calls it; the traffic is smoothed, so
\* what it asks for does not depend on the arrivals of this TTI alone.
AdjustedSr ==
  IF NewSrPeriods = {} THEN {sr}
  ELSE {Sr!Adjusted(sr, period) : period \in NewSrPeriods}

\* check_ul_grant, run_tti and the SR on the PUCCH.
UeRunTti ==
  /\ pc = "arrivals"
  /\ \E adjusted \in AdjustedSr :
       LET b == Bsr!Step(bsr, buf, Channel!Visible(grantCh))
           s == Sr!Step(IF b.startSr THEN Sr!Start(adjusted) ELSE adjusted)
       IN  /\ bsr' = b.bsr
           /\ sr' = s.sr
           /\ srCh' = IF s.sent THEN Channel!Send(srCh, Buffer!LcgSizes(buf))
                      ELSE srCh
  /\ buf' = Buffer!TokensAdded(buf)
  /\ pc' = "grant"
  /\ UNCHANGED <<proc, lastPdu, enbVars, grantCh, puschCh, phichCh, boundVars,
                 ghostVars>>

\* The report, and what it leaves of the BSR, when a grant is processed.
Report(size) ==
  LET total == Buffer!UpperBound(buf)
      r == Bsr!OnGrant(bsr, buf, size)
  IN  IF ~Bsr!HasReport(r.ce) /\ total > 0 /\ size > total
      THEN Bsr!GeneratePadding(r.bsr, buf, size - total)
      ELSE r

\* process_ul_grant, and the PUSCH message the body then sends.
UeGrant ==
  /\ pc = "grant" /\ Channel!Visible(grantCh)
  /\ LET g == Head(grantCh).item
         r == Report(g.tb)
         h == Ue!NewGrantUl(proc[g.pid], g, FALSE)
         isNew == h.action.kind = "new"
     IN  /\ sr' = Sr!GrantReceived(sr)
         /\ bsr' = Bsr!TtiEnd(r.bsr, r.ce)
         /\ proc' = [proc EXCEPT ![g.pid] = h.proc]
         /\ lastPdu' = IF isNew THEN Pdu!PackReport(h.action.tb, r.ce)
                       ELSE lastPdu
         /\ buf' = IF isNew THEN Buffer!Consume(buf, h.action.tb) ELSE buf
         /\ payload' = IF isNew THEN [payload EXCEPT ![g.pid] =
                                        Buffer!Total(buf) - Buffer!Total(buf')]
                       ELSE payload
         /\ puschCh' = Channel!Send(puschCh,
                         [grant |-> g, pdu |-> lastPdu', tb |-> h.action.tb])
  /\ grantCh' = Tail(grantCh)
  /\ UNCHANGED <<pc, enbVars, srCh, phichCh, boundVars, owed,
                 invented>>

UeGrantDone ==
  /\ pc = "grant" /\ ~Channel!Visible(grantCh)
  /\ pc' = "sr"
  /\ UNCHANGED <<ueVars, enbVars, channelVars, boundVars, ghostVars>>
-----------------------------------------------------------------------------
(* The eNB body                                                            *)

EnbSr ==
  /\ pc = "sr" /\ Channel!Visible(srCh)
  /\ ctx' = Sched!HandleSr(ctx, Head(srCh).item)
  /\ srCh' = Tail(srCh)
  /\ UNCHANGED <<pc, ueVars, view, rx, grantCh, puschCh, phichCh, boundVars,
                 ghostVars>>

\* A CQI is reported (handle_cqi).
EnbCqi ==
  /\ pc = "sr"
  /\ \E cqi \in Cqis : ctx' = Sched!HandleCqi(ctx, cqi)
  /\ UNCHANGED <<pc, ueVars, view, rx, channelVars, boundVars, ghostVars>>

EnbSrDone ==
  /\ pc = "sr" /\ ~Channel!Visible(srCh)
  /\ pc' = "schedule"
  /\ UNCHANGED <<ueVars, enbVars, channelVars, boundVars, ghostVars>>

\* What the PDCCH carries of a grant.
Dci(g) == [pid |-> g.pid, ndiPresent |-> TRUE, ndi |-> g.ndi, rv |-> g.rv,
           tb |-> g.tb, isRar |-> FALSE]

\* schedule_pf with one UE: a retransmission goes before a new TB.
EnbSchedule ==
  /\ pc = "schedule"
  /\ LET retx == Sched!GrantRetx(ctx, {})
         r == IF retx.grants = <<>> THEN Sched!GrantNew(retx.ctx, {}) ELSE retx
     IN  /\ ctx' = r.ctx
         /\ grantCh' = IF r.grants = <<>> THEN grantCh
                       ELSE Channel!Send(grantCh, Dci(r.grants[1]))
  /\ pc' = "pusch"
  /\ UNCHANGED <<ueVars, view, rx, srCh, puschCh, phichCh, boundVars,
                 ghostVars>>

\* receive_bsr: a long report leaves nothing of the view.
ViewAfter(ce) ==
  [l \in Lcgs |->
     IF l \in DOMAIN ce.reports THEN Table!IndexToBytes(ce.reports[l])
     ELSE IF ce.format = "LONG" THEN 0 ELSE view[l]]

\* enb_handle_bsr_pdu: every LCG with bytes in the view, reported or not.
Forwarded(c, v) ==
  [c EXCEPT !.ulBuffer = [l \in Lcgs |->
     IF v[l] > 0 THEN Table!IndexToBytes(Table!BytesToIndex(v[l])) ELSE @[l]]]

\* A PUSCH message: its BSR first, then receive_tb, PHICH and handle_ul_crc.
EnbReceive(crcOk) ==
  /\ pc = "pusch" /\ Channel!Visible(puschCh)
  /\ crcOk \/ crcErrors > 0
  /\ LET m == Head(puschCh).item
         p == m.grant.pid
         ce == Pdu!Unpack(m.pdu).bsr
         v == IF Bsr!HasReport(ce) THEN ViewAfter(ce) ELSE view
         r == Rx!ReceiveTb(rx[p], m.grant, m.tb, crcOk)
     IN  /\ view' = v
         /\ rx' = [rx EXCEPT ![p] = r.rx]
         /\ phichCh' = Channel!Send(phichCh, [pid |-> p, ack |-> r.crcOk])
         /\ ctx' = Sched!HandleUlCrc(
                     IF Bsr!HasReport(ce) THEN Forwarded(ctx, v) ELSE ctx,
                     p, r.crcOk \/ r.discarded)
         /\ owed' = IF crcOk THEN owed - payload[p] ELSE owed
         /\ payload' = IF crcOk THEN [payload EXCEPT ![p] = 0] ELSE payload
  /\ crcErrors' = IF crcOk THEN crcErrors ELSE crcErrors - 1
  /\ puschCh' = Tail(puschCh)
  /\ UNCHANGED <<pc, ueVars, srCh, grantCh, arrivals, invented>>

\* Both bodies have reported the TTI; the clock announces the next one.
NextTti ==
  /\ pc = "pusch" /\ ~Channel!Visible(puschCh)
  /\ pc' = "phich"
  /\ sr' = Sr!Aged(sr)
  /\ srCh' = Channel!Advance(srCh)
  /\ grantCh' = Channel!Advance(grantCh)
  /\ puschCh' = Channel!Advance(puschCh)
  /\ phichCh' = Channel!Advance(phichCh)
  /\ UNCHANGED <<buf, bsr, proc, lastPdu, enbVars, boundVars, ghostVars>>

Next ==
  \/ UeFeedback \/ UeSnapshot \/ UeDataArrived \/ UeRunTti
  \/ UeGrant \/ UeGrantDone
  \/ EnbSr \/ EnbCqi \/ EnbSrDone \/ EnbSchedule
  \/ \E crcOk \in BOOLEAN : EnbReceive(crcOk)
  \/ NextTti

Spec == Init /\ [][Next]_vars

Steps == {"phich", "arrivals", "grant", "sr", "schedule", "pusch"}

\* Worker threads that the operating system keeps running: they stay in no
\* step of the TTI forever.
FairSpec == Spec /\ WF_pc(pc' \in Steps \ {pc})
-----------------------------------------------------------------------------
(* Properties                                                              *)

OfChannels == [Channels -> Nat]
OfLcgs     == [Lcgs -> Nat]

SrProcedures ==
  [state : {"IDLE", "PENDING"}, counter : 0 .. DsrTransMax,
   prohibit : 0 .. SrProhibit, age : 0 .. Sr!Longest,
   period : {SrPeriod} \union (MinSrPeriod .. MaxSrPeriod)]

BsrProcedures ==
  [trigger : {"NONE", "REGULAR", "PERIODIC", "PADDING"},
   periodicOn : BOOLEAN, periodic : 0 .. PeriodicTimer,
   retxOn : BOOLEAN, retx : 0 .. RetxTimer]

UeProcesses ==
  [txNb : Nat, irv : 0 .. 3, configured : BOOLEAN, acked : BOOLEAN,
   received : BOOLEAN, tb : Nat, rv : {Ue!NoRv}, ndi : BOOLEAN,
   nacks : 0 .. Ue!NackLimit, maxTx : {MaxHarqTx}]

RxProcesses ==
  [state : {"INACTIVE", "RETX_PENDING"}, ndiKnown : BOOLEAN, ndi : BOOLEAN,
   txCount : 0 .. MaxHarqTx - 1, tb : Nat, soft : SUBSET Nat]

TbRecords == {Sched!NoTb} \union [tbs : Nat \ {0}, nPrb : 1 .. TotalPrb]

Contexts ==
  [mcs : 0 .. 28, srPending : BOOLEAN, ulBuffer : OfLcgs,
   busy : SUBSET Pids, pendingRetx : SUBSET Pids, ndi : [Pids -> BOOLEAN],
   harqTb : [Pids -> TbRecords], samples : {0}, granted : {0}]

StateTypes ==
  /\ pc \in Steps
  /\ buf \in [old : OfChannels, new : OfChannels, tokens : OfChannels]
  /\ \A c \in Channels : buf.tokens[c] <= BucketSize[c]
  /\ sr \in SrProcedures /\ bsr \in BsrProcedures
  /\ proc \in [Pids -> UeProcesses] /\ rx \in [Pids -> RxProcesses]
  /\ lastPdu \in Seq(Nat)
  /\ ctx \in Contexts /\ view \in OfLcgs
  /\ payload \in [Pids -> Nat] /\ owed \in Int /\ invented \in Int
  /\ arrivals \in 0 .. MaxArrivals /\ crcErrors \in 0 .. MaxCrcErrors

TypeOK ==
  /\ StateTypes
  /\ ctx.pendingRetx \subseteq ctx.busy /\ invented \in Nat

Accounted == Buffer!Total(buf) + Buffer!Sum(payload)

\* The bytes balance: what arrived and was not decoded is in a buffer of the UE
\* or in a TB that one of its processes will still send or give back, and all
\* that is there beyond it is the padding that discarded TBs gave back with
\* their data (handle_harq_feedback restores the size of the TB).
BytesBalance == owed + invented = Accounted

\* Logical channel prioritisation, whenever a TB takes bytes from the buffers:
\* no channel gets more than its tokens while one of higher priority waits or
\* any other lacks what its tokens entitle it to, every byte that a token lets
\* through is charged, and only an empty buffer leaves room in the TB.
\* (A channel without a bit rate has no tokens, as lcg_buffer.h:249 has it. For
\* one beside channels with a rate line 225 says the opposite; the run has none.)
LcpHonoured ==
  [][\A p \in Pids : payload'[p] > payload[p] =>
       LET took(c)     == buf.new[c] - buf'.new[c]
           entitled(c) == Buffer!Lower(buf.tokens[c], buf.new[c])
           beyond      == {c \in Channels : took(c) > entitled(c)}
       IN  /\ \A c \in Channels : buf.tokens[c] - buf'.tokens[c] =
                                    Buffer!Lower(took(c), buf.tokens[c])
           /\ beyond # {} => \A c \in Channels : took(c) >= entitled(c)
           /\ \A c \in beyond, d \in Channels : d < c => buf'.new[d] = 0
           /\ payload'[p] <= proc'[p].tb
           /\ payload'[p] < proc'[p].tb => Buffer!WithData(buf') = {}
    ]_vars

\* A Regular trigger that no SR asks for.
Unasked == bsr.trigger = "REGULAR" /\ sr.state = "IDLE"

\* An SR cannot be sent (again).
NoAttemptLeft == ~SrEnabled \/ DsrTransMax = 0 \/ sr.counter = DsrTransMax

\* SR and Regular BSR go together.  No SR outlives its trigger; a trigger loses
\* its SR, or gets none, only if the SR has no attempt left or a grant is there
\* to carry the report; and a grant with room for the report ends the trigger.
SrGoesWithRegular ==
  [][/\ sr'.state = "PENDING" => bsr'.trigger = "REGULAR"
     /\ Unasked' => \/ Unasked \/ pc = "grant"
                    \/ pc = "arrivals" /\ NoAttemptLeft
                    \/ pc = "arrivals" /\ Channel!Visible(grantCh)
     /\ (pc = "grant" /\ grantCh' # grantCh /\ bsr'.trigger = "REGULAR") =>
          Head(grantCh).item.tb < Bsr!LongSize
    ]_vars

\* The scheduler never grants in the dark: a UE whose SR is pending has a
\* known demand, so the small grant that probes for a BSR is never sent.
NoProbe == ctx.srPending => Sched!TotalUlBuffer(ctx) > 0

\* A retransmission repeats the TB that the UE's process holds, in its size,
\* whatever CQI has come since ("TBS/MCS/PRB locked").
TbIsLocked ==
  (pc = "grant" /\ Channel!Visible(grantCh)) =>
    LET g == Head(grantCh).item
    IN  ~Ue!IsNewTx(proc[g.pid], g, FALSE) => g.tb = proc[g.pid].tb

\* A new TB holds all that the UE was known to have, or takes the whole band:
\* the PRBs, counted by what one of them carries, agree with the size, which is
\* computed from the bits of all.
GrantHoldsDemand ==
  [][\A p \in ctx'.busy \ ctx.busy :
       \/ ctx'.harqTb[p].tbs >= Sched!TotalUlBuffer(ctx)
       \/ ctx'.harqTb[p].nPrb = TotalPrb]_vars

\* A report grants the UE's demand and little more, as common_types.h:366-369 and
\* the test of the index (test_main.cpp:896-908) have it: encoded by the UE,
\* decoded into the view, encoded and decoded again for the scheduler, the bytes
\* of an LCG end as the lowest level that holds them (up to the last level).
ReportCovers ==
  (pc = "grant" /\ Channel!Visible(grantCh)) =>
    LET ce     == Report(Head(grantCh).item.tb).ce
        demand == Forwarded(Sched!NewContext, ViewAfter(ce)).ulBuffer
    IN  \A l \in DOMAIN ce.reports :
          LET bytes == Buffer!LcgSizes(buf)[l]
          IN  /\ demand[l] >= Buffer!Lower(bytes, Table!IndexToBytes(63))
              /\ \A i \in 0 .. 63 : Table!IndexToBytes(i) < demand[l] =>
                                     Table!IndexToBytes(i) < bytes

\* The eNB never takes the UE to have more than it has ("a lower bound, never an
\* overestimate", enb_bsr_manager.cpp:57-58; "what the eNB sees is at most the
\* UE's real buffer", ENB_UE_DUALITY.md:48): what it makes of a report is at most
\* what is in the buffers when the report is made.
ReportIsLowerBound ==
  (pc = "grant" /\ Channel!Visible(grantCh)) =>
    LET ce == Report(Head(grantCh).item.tb).ce
    IN  \A l \in DOMAIN ce.reports : ViewAfter(ce)[l] <= Buffer!LcgSizes(buf)[l]

\* What the UE packs is what the eNB unpacks, with data of any size behind the
\* report: the report, with 0 for the LCGs a long one leaves out, the SDUs up to
\* the first that had to be cut, and a last sub-header that says it is the last.
PduRoundTrip ==
  (pc = "grant" /\ Channel!Visible(grantCh)) =>
    LET size == Head(grantCh).item.tb
        ce   == Report(size).ce
    IN  \A n \in 1 .. size :
          LET sdus == <<[lcid |-> 1, size |-> n], [lcid |-> 2, size |-> size]>>
              pdu  == Pdu!Pack(size, ce, sdus)
              got  == Pdu!Unpack(pdu)
          IN  /\ Len(pdu) = size /\ ~got.more
              /\ Bsr!HasReport(ce) =>
                   /\ got.bsr.format = ce.format
                   /\ \A l \in DOMAIN got.bsr.reports : got.bsr.reports[l] =
                        IF l \in DOMAIN ce.reports THEN ce.reports[l] ELSE 0
              /\ \A i \in DOMAIN got.sdus :
                   /\ got.sdus[i].lcid = sdus[i].lcid
                   /\ got.sdus[i].size = sdus[i].size \/ i = Len(got.sdus)

Quiet ==
  /\ Buffer!WithData(buf) = {}
  /\ ctx.busy = {} /\ Sched!TotalUlBuffer(ctx) = 0
  /\ grantCh = <<>> /\ puschCh = <<>> /\ srCh = <<>>

\* Once a report has started the retxBSR-Timer, the traffic drains in spite
\* of failed SRs, cancelled reports and discarded TBs, and the overestimates
\* of the scheduler drain too: in the end nothing is buffered or granted.
EventuallyDrained == (<>bsr.retxOn) => <>[]Quiet

\* Data that waits is served in the end, wherever it came from.  (A discarded
\* TB is said to trigger a Regular BSR "and go through the whole procedure".)
DataIsServed == Buffer!WithData(buf) # {} ~> Buffer!WithData(buf) = {}
-----------------------------------------------------------------------------
(* The inductive invariant, in three parts: what there is, what an SR      *)
(* says of the data, and where the one message of each process is.         *)

SrItems    == {x \in OfLcgs : \E l \in Lcgs : x[l] > 0}
GrantItems == [pid : Pids, ndiPresent : {TRUE}, ndi : BOOLEAN,
               rv : {Ue!NoRv, 0}, tb : Nat \ {0}, isRar : {FALSE}]
PuschItems == [grant : GrantItems, pdu : Seq(Nat), tb : Nat]
PhichItems == [pid : Pids, ack : BOOLEAN]

\* Every channel carries its items and delivers them in order.
ChannelTypes ==
  /\ srCh \in Seq(Channel!Messages(SrItems)) /\ Channel!Sorted(srCh)
  /\ grantCh \in Seq(Channel!Messages(GrantItems)) /\ Channel!Sorted(grantCh)
  /\ puschCh \in Seq(Channel!Messages(PuschItems)) /\ Channel!Sorted(puschCh)
  /\ phichCh \in Seq(Channel!Messages(PhichItems)) /\ Channel!Sorted(phichCh)

\* A UE that asks for a grant has data, and so its context at the eNB.
SrHasData ==
  /\ sr.state = "PENDING" => \E c \in Channels : buf.new[c] > 0
  /\ ctx.srPending => \E l \in Lcgs : ctx.ulBuffer[l] > 0

\* What holds of the data apart from the HARQ loop.
DataTypes == StateTypes /\ ChannelTypes /\ SrHasData

\* What a channel may hold for process p, and holds.
GrantItemsOf(p) == {g \in GrantItems : g.pid = p}
PuschItemsOf(p) == {t \in PuschItems : t.grant.pid = p}
PhichItemsOf(p) == {f \in PhichItems : f.pid = p}
GrantsOf(p) == Channel!Of(grantCh, GrantItemsOf(p))
PuschOf(p)  == Channel!Of(puschCh, PuschItemsOf(p))
PhichOf(p)  == Channel!Of(phichCh, PhichItemsOf(p))

\* Every channel holds one message of a process at most.
OneMessage ==
  \A p \in Pids : /\ Channel!AtMostOne(grantCh, GrantItemsOf(p))
                  /\ Channel!AtMostOne(puschCh, PuschItemsOf(p))
                  /\ Channel!AtMostOne(phichCh, PhichItemsOf(p))

\* What the step of the TTI says of the age of the messages.
AgesOK ==
  /\ pc # "phich" => \A m \in Channel!OnWay(phichCh) : m.left > 0
  /\ pc \in {"sr", "schedule", "pusch"} =>
       \A m \in Channel!OnWay(grantCh) : m.left > 0
  /\ pc \in {"schedule", "pusch"} => \A m \in Channel!OnWay(srCh) : m.left > 0
  /\ pc # "pusch" => \A m \in Channel!OnWay(phichCh) : m.left < Delay

UeState(p) == Ue!StateOf(proc[p])

\* The latest TB is decided; the UE knows or will be told.
Decided(p) ==
  \/ PhichOf(p) = {} /\ UeState(p) = "INACTIVE" /\ payload[p] = 0
  \/ /\ UeState(p) = "WAITING_FB"
     /\ \E m \in PhichOf(p) :
          /\ PhichOf(p) = {m}
          /\ IF m.item.ack THEN payload[p] = 0 ELSE proc[p].txNb = MaxHarqTx

\* The latest transmission has failed; the UE knows or will be told.
Failed(p) ==
  \/ PhichOf(p) = {} /\ UeState(p) = "RETX_PENDING"
  \/ /\ UeState(p) = "WAITING_FB"
     /\ \E m \in PhichOf(p) : PhichOf(p) = {m} /\ ~m.item.ack

\* Both ends, or the UE alone, are at the TB of the scheduler.
UeHolds(p) ==
  /\ Ue!InFlight(proc[p]) /\ proc[p].ndi = ctx.ndi[p]
  /\ proc[p].tb = ctx.harqTb[p].tbs
EnbHolds(p) == rx[p].ndiKnown /\ rx[p].ndi = ctx.ndi[p]
EnbIdle(p)  == ~rx[p].ndiKnown /\ rx[p].txCount = 0

\* The scheduler remembers a TB, in bytes and PRBs.
TbKnown(p) == ctx.harqTb[p] # Sched!NoTb

NothingOnAir(p) == GrantsOf(p) = {} /\ PuschOf(p) = {}

IsFree(p) ==
  /\ p \notin ctx.busy /\ p \notin ctx.pendingRetx
  /\ NothingOnAir(p) /\ EnbIdle(p) /\ Decided(p)
  /\ proc[p].configured => proc[p].ndi = ctx.ndi[p]

\* The message is the only one of p, and newer than the feedback that is due.
OnPdcch(p) ==
  /\ p \in ctx.busy /\ p \notin ctx.pendingRetx /\ TbKnown(p)
  /\ PuschOf(p) = {}
  /\ \E m \in GrantsOf(p) :
       /\ GrantsOf(p) = {m}
       /\ m.item.ndi = ctx.ndi[p] /\ m.item.tb = ctx.harqTb[p].tbs
       /\ \A f \in PhichOf(p) : f.left < m.left

IsGranted(p) ==
  /\ OnPdcch(p) /\ EnbIdle(p) /\ Decided(p)
  /\ proc[p].configured => proc[p].ndi # ctx.ndi[p]

IsOnAir(p) ==
  /\ p \in ctx.busy /\ p \notin ctx.pendingRetx /\ TbKnown(p)
  /\ GrantsOf(p) = {} /\ PhichOf(p) = {}
  /\ \E m \in PuschOf(p) : PuschOf(p) = {m} /\ m.item.grant.ndi = ctx.ndi[p]
  /\ UeHolds(p) /\ UeState(p) = "WAITING_FB"
  /\ proc[p].txNb = rx[p].txCount + 1
  /\ EnbHolds(p) \/ EnbIdle(p)

IsDue(p) ==
  /\ p \in ctx.busy /\ p \in ctx.pendingRetx /\ TbKnown(p) /\ NothingOnAir(p)
  /\ UeHolds(p) /\ EnbHolds(p) /\ Failed(p) /\ proc[p].txNb = rx[p].txCount

IsRepeated(p) ==
  /\ OnPdcch(p)
  /\ UeHolds(p) /\ EnbHolds(p) /\ Failed(p) /\ proc[p].txNb = rx[p].txCount

Stage(p) ==
  IsFree(p) \/ IsGranted(p) \/ IsOnAir(p) \/ IsDue(p) \/ IsRepeated(p)

\* One place holds what is under way for a process, and both ends agree on it.
LoopInv == OneMessage /\ AgesOK /\ \A p \in Pids : Stage(p)

\* No TB carries more bytes than it has.
PayloadFits == \A p \in Pids : payload[p] <= proc[p].tb

DataInv ==
  DataTypes /\ LoopInv /\ PayloadFits /\ invented \in Nat /\ BytesBalance
=============================================================================
