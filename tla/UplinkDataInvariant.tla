----------------------- MODULE UplinkDataInvariant ------------------------
(***************************************************************************)
(* The steps of UplinkData keep its inductive invariant, DataInv, part by  *)
(* part: DataTypes, what there is; LoopInv, where each HARQ process is in  *)
(* the loop; and BytesInv, what the buffers, the TBs and the eNB have of   *)
(* each other's bytes. One lemma per action and part.                      *)
(***************************************************************************)
EXTENDS UplinkDataLemmas
-----------------------------------------------------------------------------
(* What there is, step by step                                             *)

\* The state before a step, as its lemmas look at it.
LEMMA TypesBefore ==
  DataTypes =>
    /\ buf \in Buffers /\ BucketsFit(buf)
    /\ proc \in [Pids -> UeProcesses] /\ rx \in [Pids -> RxProcesses]
    /\ ctx \in Contexts /\ payload \in [Pids -> Nat]
BY DEF DataTypes, StateTypes, Buffers, BucketsFit

\* Feedback leaves everything what it is.
LEMMA UeFeedbackTypes == DataTypes /\ UeFeedback => DataTypes'
<1> SUFFICES ASSUME DataTypes, UeFeedback PROVE DataTypes'
  OBVIOUS
<1> DEFINE m == Head(phichCh).item
           r == Ue!ApplyPhich(proc[m.pid], m.ack)
           discarded == r.action.kind = "discard"
<1>1. /\ pc = "phich" /\ Channel!Visible(phichCh)
      /\ proc' = [proc EXCEPT ![m.pid] = r.proc]
      /\ buf' = IF discarded THEN Buffer!Restore(buf, r.action.tb) ELSE buf
      /\ payload' = IF discarded THEN [payload EXCEPT ![m.pid] = 0] ELSE payload
      /\ invented' = IF discarded THEN invented + r.action.tb - payload[m.pid]
                     ELSE invented
      /\ phichCh' = Tail(phichCh)
      /\ UNCHANGED <<pc, sr, bsr, lastPdu, ctx, view, rx, srCh, grantCh, puschCh,
                     arrivals, crcErrors, owed>>
  BY DEF UeFeedback, enbVars, boundVars
<1>2. /\ m \in PhichItems
      /\ phichCh' \in Seq(Channel!Messages(PhichItems)) /\ Channel!Sorted(phichCh')
  BY <1>1, TakenItem DEF DataTypes, ChannelTypes
<1>3. m.pid \in Pids /\ m.ack \in BOOLEAN
  BY <1>2 DEF PhichItems
<1> HIDE DEF m
<1>4. /\ proc[m.pid] \in UeProcesses /\ r.proc \in UeProcesses
      /\ discarded => r.action.tb \in Nat
  <2>1. proc[m.pid] \in UeProcesses
    BY <1>3, TypesBefore
  <2>2. proc[m.pid].tb \in Nat
    BY <2>1, UeFields
  <2>3. QED
    BY <1>3, <2>1, <2>2, PhichProcess
<1> HIDE DEF r
<1>5. proc' \in [Pids -> UeProcesses]
  BY <1>1, <1>3, <1>4, TypesBefore
<1>6. /\ payload' \in [Pids -> Nat] /\ payload[m.pid] \in Nat
  BY <1>1, <1>3, TypesBefore
<1>7. invented' \in Int
  BY <1>1, <1>4, <1>6 DEF DataTypes, StateTypes
<1>8. /\ buf' \in Buffers /\ BucketsFit(buf')
      /\ (\E c \in Channels : buf.new[c] > 0) => \E c \in Channels : buf'.new[c] > 0
  <2>1. CASE discarded
    <3>1. /\ buf' \in Buffers /\ BucketsFit(buf')
          /\ buf'.new = [buf.new EXCEPT ![Buffer!First(Channels)] = @ + r.action.tb]
      BY <1>1, <1>4, <2>1, TypesBefore, BufferGrows
    <3>2. PICK c, n : c = Buffer!First(Channels) /\ n = r.action.tb
      OBVIOUS
    <3>3. c \in Channels /\ n \in Nat /\ buf'.new = [buf.new EXCEPT ![c] = @ + n]
      BY <1>4, <2>1, <3>1, <3>2, FirstChannel
    <3>4. buf \in Buffers /\ buf' \in Buffers
      BY <3>1, TypesBefore
    <3>5. (\E e \in Channels : buf.new[e] > 0) => \E e \in Channels : buf'.new[e] > 0
      BY <3>3, <3>4, TotalRaised
    <3>6. QED
      BY <3>1, <3>5
  <2>2. CASE ~discarded
    BY <1>1, <2>2, TypesBefore
  <2>3. QED
    BY <2>1, <2>2
<1>9. StateTypes'
  BY <1>1, <1>5, <1>6, <1>7, <1>8 DEF DataTypes, StateTypes, Buffers, BucketsFit
<1>10. ChannelTypes'
  BY <1>1, <1>2 DEF DataTypes, ChannelTypes
<1>11. SrHasData'
  BY <1>1, <1>8 DEF DataTypes, SrHasData
<1>12. QED
  BY <1>9, <1>10, <1>11 DEF DataTypes

\* So does the snapshot of the buffers,
LEMMA UeSnapshotTypes == DataTypes /\ UeSnapshot => DataTypes'
<1> SUFFICES ASSUME DataTypes, UeSnapshot PROVE DataTypes'
  OBVIOUS
<1>1. /\ buf' = Buffer!UpdateOld(buf) /\ pc' = "arrivals"
      /\ UNCHANGED <<sr, bsr, proc, lastPdu, ctx, view, rx, srCh, grantCh, puschCh,
                     phichCh, arrivals, crcErrors, owed, payload, invented>>
  BY DEF UeSnapshot, enbVars, channelVars, boundVars, ghostVars
<1>2. buf' \in Buffers /\ BucketsFit(buf') /\ buf'.new = buf.new
  BY <1>1, TypesBefore, BufferGrows
<1>3. StateTypes'
  BY <1>1, <1>2 DEF DataTypes, StateTypes, Buffers, BucketsFit, Steps
<1>4. ChannelTypes' /\ SrHasData'
  BY <1>1, <1>2 DEF DataTypes, ChannelTypes, SrHasData
<1>5. QED
  BY <1>3, <1>4 DEF DataTypes

\* and the arrival of a packet.
LEMMA UeDataArrivedTypes == DataTypes /\ UeDataArrived => DataTypes'
<1> SUFFICES ASSUME DataTypes, UeDataArrived PROVE DataTypes'
  OBVIOUS
<1>1. /\ arrivals > 0 /\ arrivals' = arrivals - 1
      /\ UNCHANGED <<pc, sr, bsr, proc, lastPdu, ctx, view, rx, srCh, grantCh, puschCh,
                     phichCh, crcErrors, payload, invented>>
  BY DEF UeDataArrived, enbVars, channelVars
<1>2. PICK c \in Channels, bytes \in ArrivalSizes :
        buf' = Buffer!Arrived(buf, c, bytes) /\ owed' = owed + bytes
  BY DEF UeDataArrived
<1>3. bytes \in Nat
  BY DataAssumption
<1>4. /\ buf' \in Buffers /\ BucketsFit(buf')
      /\ buf'.new = [buf.new EXCEPT ![c] = @ + bytes]
  BY <1>2, <1>3, TypesBefore, BufferGrows
<1>5. (\E e \in Channels : buf.new[e] > 0) => \E e \in Channels : buf'.new[e] > 0
  BY <1>3, <1>4, TypesBefore, TotalRaised
<1>6. owed' \in Int /\ arrivals' \in 0 .. MaxArrivals
  <2>1. owed \in Int /\ arrivals \in 0 .. MaxArrivals /\ MaxArrivals \in Nat
    BY DataAssumption DEF DataTypes, StateTypes
  <2>2. QED
    BY <1>1, <1>2, <1>3, <2>1
<1>7. StateTypes'
  BY <1>1, <1>4, <1>6 DEF DataTypes, StateTypes, Buffers, BucketsFit
<1>8. ChannelTypes' /\ SrHasData'
  BY <1>1, <1>5 DEF DataTypes, ChannelTypes, SrHasData
<1>9. QED
  BY <1>7, <1>8 DEF DataTypes

\* An SR that the procedures start or send has data behind it.
LEMMA UeRunTtiTypes == DataTypes /\ UeRunTti => DataTypes'
<1> SUFFICES ASSUME DataTypes, UeRunTti PROVE DataTypes'
  OBVIOUS
<1>1. /\ buf' = Buffer!TokensAdded(buf) /\ pc' = "grant"
      /\ UNCHANGED <<proc, lastPdu, ctx, view, rx, grantCh, puschCh, phichCh,
                     arrivals, crcErrors, owed, payload, invented>>
  BY DEF UeRunTti, enbVars, boundVars, ghostVars
<1>2. PICK adjusted \in AdjustedSr :
        LET b == Bsr!Step(bsr, buf, Channel!Visible(grantCh))
            s == Sr!Step(IF b.startSr THEN Sr!Start(adjusted) ELSE adjusted)
        IN  /\ bsr' = b.bsr /\ sr' = s.sr
            /\ srCh' = IF s.sent THEN Channel!Send(srCh, Buffer!LcgSizes(buf)) ELSE srCh
  BY DEF UeRunTti
<1> DEFINE b == Bsr!Step(bsr, buf, Channel!Visible(grantCh))
           t == IF b.startSr THEN Sr!Start(adjusted) ELSE adjusted
           s == Sr!Step(t)
<1>3. /\ bsr' = b.bsr /\ sr' = s.sr
      /\ srCh' = IF s.sent THEN Channel!Send(srCh, Buffer!LcgSizes(buf)) ELSE srCh
  BY <1>2
<1>4. adjusted \in SrProcedures /\ adjusted.state = sr.state
  <2>1. sr \in SrProcedures
    BY DEF DataTypes, StateTypes
  <2>2. \A period \in NewSrPeriods : period \in Nat
    BY DataAssumption
  <2>3. QED
    BY <2>1, <2>2, SrSteps DEF AdjustedSr
<1>5. /\ b.bsr \in BsrProcedures
      /\ b.startSr => \E c \in Channels : buf.new[c] > 0
  <2>1. bsr \in BsrProcedures /\ Channel!Visible(grantCh) \in BOOLEAN
    BY DEF DataTypes, StateTypes, Channel!Visible
  <2>2. QED
    BY <2>1, TypesBefore, BsrStep
<1> HIDE DEF b
<1>6. /\ t \in SrProcedures
      /\ t.state = "PENDING" => \E c \in Channels : buf.new[c] > 0
  BY <1>4, <1>5, SrSteps DEF DataTypes, SrHasData
<1> HIDE DEF t
<1>7. /\ s.sr \in SrProcedures
      /\ s.sr.state = "PENDING" => \E c \in Channels : buf.new[c] > 0
      /\ s.sent => \E c \in Channels : buf.new[c] > 0
  BY <1>6, SrSteps
<1> HIDE DEF s
<1>8. buf' \in Buffers /\ BucketsFit(buf') /\ buf'.new = buf.new
  BY <1>1, TypesBefore, BufferGrows
<1>9. srCh' \in Seq(Channel!Messages(SrItems)) /\ Channel!Sorted(srCh')
  <2>1. srCh \in Seq(Channel!Messages(SrItems)) /\ Channel!Sorted(srCh)
    BY DEF DataTypes, ChannelTypes
  <2>2. CASE s.sent
    <3>1. Buffer!LcgSizes(buf) \in SrItems
      BY <1>7, <2>2, TypesBefore, BufferTotals
    <3>2. QED
      BY <1>3, <2>1, <2>2, <3>1, SendStep
  <2>3. CASE ~s.sent
    BY <1>3, <2>1, <2>3
  <2>4. QED
    BY <2>2, <2>3
<1>10. StateTypes'
  BY <1>1, <1>3, <1>5, <1>7, <1>8 DEF DataTypes, StateTypes, Buffers, BucketsFit, Steps
<1>11. ChannelTypes'
  BY <1>1, <1>9 DEF DataTypes, ChannelTypes
<1>12. SrHasData'
  BY <1>1, <1>3, <1>7, <1>8 DEF DataTypes, SrHasData
<1>13. QED
  BY <1>10, <1>11, <1>12 DEF DataTypes

\* The grant of the UE is used, its report packed with the data it takes,
LEMMA UeGrantTypes == DataTypes /\ UeGrant => DataTypes'
<1> SUFFICES ASSUME DataTypes, UeGrant PROVE DataTypes'
  OBVIOUS
<1> DEFINE g == Head(grantCh).item
           r == Report(g.tb)
           h == Ue!NewGrantUl(proc[g.pid], g, FALSE)
           isNew == h.action.kind = "new"
<1>1. /\ pc = "grant" /\ Channel!Visible(grantCh)
      /\ sr' = Sr!GrantReceived(sr)
      /\ bsr' = Bsr!TtiEnd(r.bsr, r.ce)
      /\ proc' = [proc EXCEPT ![g.pid] = h.proc]
      /\ lastPdu' = IF isNew THEN Pdu!PackReport(h.action.tb, r.ce) ELSE lastPdu
      /\ buf' = IF isNew THEN Buffer!Consume(buf, h.action.tb) ELSE buf
      /\ payload' = IF isNew THEN [payload EXCEPT ![g.pid] =
                                     Buffer!Total(buf) - Buffer!Total(buf')]
                    ELSE payload
      /\ puschCh' = Channel!Send(puschCh,
                      [grant |-> g, pdu |-> lastPdu', tb |-> h.action.tb])
      /\ grantCh' = Tail(grantCh)
  BY DEF UeGrant
<1>2. UNCHANGED <<pc, ctx, view, rx, srCh, phichCh, arrivals, crcErrors, owed, invented>>
  BY DEF UeGrant, enbVars, boundVars
<1>3. /\ g \in GrantItems
      /\ grantCh' \in Seq(Channel!Messages(GrantItems)) /\ Channel!Sorted(grantCh')
  BY <1>1, TakenItem DEF DataTypes, ChannelTypes
<1> HIDE DEF g
<1>4. g.pid \in Pids /\ g.tb \in Nat
  BY <1>3, GrantFields
<1>5. r.bsr \in BsrProcedures /\ IsReport(r.ce) /\ Bsr!TtiEnd(r.bsr, r.ce) \in BsrProcedures
  <2>1. bsr \in BsrProcedures /\ buf \in Buffers
    BY TypesBefore DEF DataTypes, StateTypes
  <2>2. QED
    BY <2>1, ReportTyped
<1> HIDE DEF r
<1>6. h.proc \in UeProcesses /\ h.action.tb = g.tb
  <2>1. proc[g.pid] \in UeProcesses
    BY <1>4, TypesBefore
  <2>2. QED
    BY <1>3, <2>1, GrantProcess
<1> HIDE DEF h
<1>7. lastPdu' \in Seq(Nat)
  <2>1. lastPdu \in Seq(Nat)
    BY DEF DataTypes, StateTypes
  <2>2. Pdu!PackReport(g.tb, r.ce) \in Seq(Nat)
    BY <1>4, <1>5, PackedReport
  <2>3. QED
    BY <1>1, <1>6, <2>1, <2>2
<1>8. buf' \in Buffers /\ BucketsFit(buf') /\ payload' \in [Pids -> Nat]
  <2>1. buf \in Buffers /\ BucketsFit(buf) /\ payload \in [Pids -> Nat]
    BY TypesBefore
  <2>2. CASE isNew
    <3>1. /\ buf' \in Buffers /\ BucketsFit(buf')
          /\ Buffer!Total(buf) - Buffer!Total(buf') = Buffer!Lower(g.tb, Buffer!Total(buf))
      BY <1>1, <1>4, <1>6, <2>1, <2>2, ConsumeTotal
    <3>2. Buffer!Lower(g.tb, Buffer!Total(buf)) \in Nat
      BY <1>4, <2>1, BufferTotals DEF Buffer!Lower
    <3>3. PICK n \in Nat : n = Buffer!Total(buf) - Buffer!Total(buf')
      BY <3>1, <3>2
    <3>4. payload' = [payload EXCEPT ![g.pid] = n]
      BY <1>1, <2>2, <3>3
    <3>5. QED
      BY <2>1, <3>1, <3>4
  <2>3. CASE ~isNew
    BY <1>1, <2>1, <2>3
  <2>4. QED
    BY <2>2, <2>3
<1>9. sr' \in SrProcedures /\ sr'.state = "IDLE"
  <2>1. sr \in SrProcedures
    BY DEF DataTypes, StateTypes
  <2>2. QED
    BY <1>1, <2>1, SrSteps
<1>10. proc' \in [Pids -> UeProcesses]
  BY <1>1, <1>4, <1>6, TypesBefore
<1>11. StateTypes'
  BY <1>1, <1>2, <1>5, <1>7, <1>8, <1>9, <1>10
     DEF DataTypes, StateTypes, Buffers, BucketsFit
<1>12. puschCh' \in Seq(Channel!Messages(PuschItems)) /\ Channel!Sorted(puschCh')
  <2>1. puschCh \in Seq(Channel!Messages(PuschItems)) /\ Channel!Sorted(puschCh)
    BY DEF DataTypes, ChannelTypes
  <2>2. PICK t : t = [grant |-> g, pdu |-> lastPdu', tb |-> h.action.tb]
    OBVIOUS
  <2>3. t \in PuschItems
    BY <1>3, <1>4, <1>6, <1>7, <2>2 DEF PuschItems
  <2>4. puschCh' = Channel!Send(puschCh, t)
    BY <1>1, <2>2
  <2>5. QED
    BY <2>1, <2>3, <2>4, SendStep
<1>13. ChannelTypes'
  BY <1>2, <1>3, <1>12 DEF DataTypes, ChannelTypes
<1>14. SrHasData'
  BY <1>2, <1>9 DEF DataTypes, SrHasData
<1>15. QED
  BY <1>11, <1>13, <1>14 DEF DataTypes

\* and the steps that end a part of the TTI change nothing else.
LEMMA DoneTypes == DataTypes /\ (UeGrantDone \/ EnbSrDone) => DataTypes'
<1> SUFFICES ASSUME DataTypes, UeGrantDone \/ EnbSrDone PROVE DataTypes'
  OBVIOUS
<1>1. /\ pc' \in Steps
      /\ UNCHANGED <<buf, sr, bsr, proc, lastPdu, ctx, view, rx, srCh, grantCh, puschCh,
                     phichCh, arrivals, crcErrors, owed, payload, invented>>
  BY DEF UeGrantDone, EnbSrDone, ueVars, enbVars, channelVars, boundVars, ghostVars, Steps
<1>2. StateTypes'
  BY <1>1 DEF DataTypes, StateTypes
<1>3. ChannelTypes' /\ SrHasData'
  BY <1>1 DEF DataTypes, ChannelTypes, SrHasData
<1>4. QED
  BY <1>2, <1>3 DEF DataTypes

\* An SR says that there is demand,
LEMMA EnbSrTypes == DataTypes /\ EnbSr => DataTypes'
<1> SUFFICES ASSUME DataTypes, EnbSr PROVE DataTypes'
  OBVIOUS
<1>1. /\ Channel!Visible(srCh)
      /\ ctx' = Sched!HandleSr(ctx, Head(srCh).item) /\ srCh' = Tail(srCh)
      /\ UNCHANGED <<pc, buf, sr, bsr, proc, lastPdu, view, rx, grantCh, puschCh,
                     phichCh, arrivals, crcErrors, owed, payload, invented>>
  BY DEF EnbSr, ueVars, boundVars, ghostVars
<1>2. /\ Head(srCh).item \in SrItems
      /\ srCh' \in Seq(Channel!Messages(SrItems)) /\ Channel!Sorted(srCh')
  BY <1>1, TakenItem DEF DataTypes, ChannelTypes
<1>3. ctx' \in Contexts /\ \E l \in Lcgs : ctx'.ulBuffer[l] > 0
  BY <1>1, <1>2, TypesBefore, SrHandled
<1>4. StateTypes'
  BY <1>1, <1>3 DEF DataTypes, StateTypes
<1>5. ChannelTypes'
  BY <1>1, <1>2 DEF DataTypes, ChannelTypes
<1>6. SrHasData'
  BY <1>1, <1>3 DEF DataTypes, SrHasData
<1>7. QED
  BY <1>4, <1>5, <1>6 DEF DataTypes

\* a CQI moves the MCS alone,
LEMMA EnbCqiTypes == DataTypes /\ EnbCqi => DataTypes'
<1> SUFFICES ASSUME DataTypes, EnbCqi PROVE DataTypes'
  OBVIOUS
<1>1. UNCHANGED <<pc, buf, sr, bsr, proc, lastPdu, view, rx, srCh, grantCh, puschCh,
                  phichCh, arrivals, crcErrors, owed, payload, invented>>
  BY DEF EnbCqi, ueVars, channelVars, boundVars, ghostVars
<1>2. PICK cqi \in 0 .. 15 : ctx' = Sched!HandleCqi(ctx, cqi)
  BY DataAssumption DEF EnbCqi
<1>3. ctx' \in Contexts /\ ctx'.ulBuffer = ctx.ulBuffer /\ ctx'.srPending = ctx.srPending
  BY <1>2, TypesBefore, CqiHandled
<1>4. StateTypes'
  BY <1>1, <1>3 DEF DataTypes, StateTypes
<1>5. ChannelTypes' /\ SrHasData'
  BY <1>1, <1>3 DEF DataTypes, ChannelTypes, SrHasData
<1>6. QED
  BY <1>4, <1>5 DEF DataTypes

\* and the TTI ends with every message one TTI older.
LEMMA NextTtiTypes == DataTypes /\ NextTti => DataTypes'
<1> SUFFICES ASSUME DataTypes, NextTti PROVE DataTypes'
  OBVIOUS
<1>1. /\ pc' = "phich" /\ sr' = Sr!Aged(sr)
      /\ srCh' = Channel!Advance(srCh) /\ grantCh' = Channel!Advance(grantCh)
      /\ puschCh' = Channel!Advance(puschCh) /\ phichCh' = Channel!Advance(phichCh)
      /\ UNCHANGED <<buf, bsr, proc, lastPdu, ctx, view, rx, arrivals, crcErrors, owed,
                     payload, invented>>
  BY DEF NextTti, enbVars, boundVars, ghostVars
<1>2. sr' \in SrProcedures /\ sr'.state = sr.state
  <2>1. sr \in SrProcedures
    BY DEF DataTypes, StateTypes
  <2>2. QED
    BY <1>1, <2>1, SrSteps
<1>3. StateTypes'
  BY <1>1, <1>2 DEF DataTypes, StateTypes, Steps
<1>4. ChannelTypes'
  BY <1>1, AdvanceTyped DEF DataTypes, ChannelTypes
<1>5. SrHasData'
  BY <1>1, <1>2 DEF DataTypes, SrHasData
<1>6. QED
  BY <1>3, <1>4, <1>5 DEF DataTypes

\* Without a retransmission, records that are missing are forgotten at most.
LEMMA NoRetxGranted ==
  ASSUME NEW c \in Contexts, Sched!GrantRetx(c, {}).grants = <<>>
  PROVE  LET d == Sched!GrantRetx(c, {}).ctx
         IN  /\ d \in Contexts /\ d.srPending = c.srPending
             /\ d.ulBuffer = c.ulBuffer /\ d.ndi = c.ndi /\ d.harqTb = c.harqTb
             /\ Sched!Orphans(c) = {} => d = c
<1> DEFINE orphans == Sched!Orphans(c)
           fits == {p \in c.pendingRetx \ orphans :
                      Sched!FirstFit({}, c.harqTb[p].nPrb) # Sched!NoPrb}
           p == Sched!Lowest(fits)
           seen == {q \in orphans : q < p}
           d == [Sched!Without(c, seen) EXCEPT !.pendingRetx = @ \ {p}]
           w == Sched!Without(c, orphans)
           r == Sched!GrantRetx(c, {})
<1>1. r = IF fits = {} THEN Sched!NoGrant(w, {}) ELSE Sched!Granted(d, {}, p, -1)
  BY DEF Sched!GrantRetx
<1>2. r.grants = <<>>
  OBVIOUS
<1> HIDE DEF fits, d, r, p, w
<1>3. r.ctx = w
  BY <1>1, <1>2, GrantedFields, NothingGranted
<1>4. /\ c.busy \in SUBSET Pids /\ c.pendingRetx \in SUBSET Pids
  BY ContextFields
<1> HIDE DEF orphans
<1>5. PICK x, y : x = c.pendingRetx \ orphans /\ y = c.busy \ orphans
  OBVIOUS
<1>6. w = [[c EXCEPT !.pendingRetx = x] EXCEPT !.busy = y]
  BY <1>5 DEF w, Sched!Without, Contexts
<1>7. x \in SUBSET Pids /\ y \in SUBSET Pids
  BY <1>4, <1>5
<1>8. w \in Contexts
  BY <1>6, <1>7, ContextFields
<1>9. /\ w.srPending = c.srPending /\ w.ulBuffer = c.ulBuffer /\ w.ndi = c.ndi
      /\ w.harqTb = c.harqTb
  BY <1>6 DEF Contexts
<1>10. orphans = {} => w = c
  <2>1. orphans = {} => x = c.pendingRetx /\ y = c.busy
    BY <1>5
  <2>2. [[c EXCEPT !.pendingRetx = c.pendingRetx] EXCEPT !.busy = c.busy] = c
    BY DEF Contexts
  <2>3. QED
    BY <1>6, <2>1, <2>2
<1>11. QED
  BY <1>3, <1>8, <1>9, <1>10 DEF r, orphans

\* The one grant of a TTI is for a TB that has a size,
LEMMA EnbScheduleTypes == DataTypes /\ EnbSchedule => DataTypes'
<1> SUFFICES ASSUME DataTypes, EnbSchedule PROVE DataTypes'
  OBVIOUS
<1> DEFINE retx == Sched!GrantRetx(ctx, {})
           r == IF retx.grants = <<>> THEN Sched!GrantNew(retx.ctx, {}) ELSE retx
<1>1. /\ ctx' = r.ctx /\ pc' \in Steps
      /\ grantCh' = IF r.grants = <<>> THEN grantCh
                    ELSE Channel!Send(grantCh, Dci(r.grants[1]))
      /\ UNCHANGED <<buf, sr, bsr, proc, lastPdu, view, rx, srCh, puschCh, phichCh,
                     arrivals, crcErrors, owed, payload, invented>>
  BY DEF EnbSchedule, ueVars, boundVars, ghostVars, Steps
<1>2. ctx \in Contexts
  BY TypesBefore
<1>3. /\ r.ctx \in Contexts
      /\ r.ctx.srPending => /\ ctx.srPending /\ r.ctx.ulBuffer = ctx.ulBuffer
      /\ r.grants # <<>> => Dci(r.grants[1]) \in GrantItems
  <2>1. \A gr : /\ gr.pid \in Pids /\ gr.ndi \in BOOLEAN
                /\ gr.rv \in {Ue!NoRv, 0} /\ gr.tb \in Nat \ {0}
                => Dci(gr) \in GrantItems
    BY DEF Dci, GrantItems
  <2>2. /\ ctx.pendingRetx \in SUBSET Pids /\ ctx.ndi \in [Pids -> BOOLEAN]
        /\ ctx.harqTb \in [Pids -> TbRecords]
    BY <1>2, ContextFields
  <2>3. CASE retx.grants # <<>>
    <3>1. /\ retx.ctx \in Contexts /\ retx.ctx.srPending = ctx.srPending
          /\ retx.ctx.ulBuffer = ctx.ulBuffer
      BY <1>2, <2>3, RetxGranted
    <3>2. PICK p \in ctx.pendingRetx :
            /\ retx.grants[1].pid = p /\ retx.grants[1].ndi = ctx.ndi[p]
            /\ retx.grants[1].rv = Ue!NoRv
            /\ retx.grants[1].tb = ctx.harqTb[p].tbs /\ ctx.harqTb[p] # Sched!NoTb
      BY <1>2, <2>3, RetxGranted
    <3>3. ctx.harqTb[p].tbs \in Nat \ {0}
      BY <2>2, <3>2 DEF TbRecords
    <3> HIDE DEF retx
    <3>4. Dci(retx.grants[1]) \in GrantItems
      <4>1. PICK gr : gr = retx.grants[1]
        OBVIOUS
      <4>2. QED
        BY <2>1, <2>2, <3>2, <3>3, <4>1
    <3>5. r = retx
      BY <2>3
    <3>6. QED
      BY <3>1, <3>4, <3>5
  <2>4. CASE retx.grants = <<>>
    <3>1. /\ retx.ctx \in Contexts /\ retx.ctx.srPending = ctx.srPending
          /\ retx.ctx.ulBuffer = ctx.ulBuffer /\ retx.ctx.ndi = ctx.ndi
      BY <1>2, <2>4, NoRetxGranted
    <3>2. PICK d \in Contexts : d = retx.ctx
      BY <3>1
    <3>3. r = Sched!GrantNew(d, {})
      BY <2>4, <3>2
    <3> HIDE DEF retx, r
    <3>4. CASE r.grants = <<>> /\ r.ctx = d
      BY <3>1, <3>2, <3>4
    <3>5. CASE /\ r.grants # <<>>
               /\ r.ctx \in Contexts /\ r.ctx.srPending = FALSE
               /\ \E p \in Pids \ d.busy, tbs \in Nat \ {0} :
                    /\ r.grants[1].pid = p /\ r.grants[1].ndi = ~d.ndi[p]
                    /\ r.grants[1].rv = 0 /\ r.grants[1].tb = tbs
      <4>1. PICK gr : gr = r.grants[1]
        OBVIOUS
      <4>2. Dci(gr) \in GrantItems
        BY <2>1, <3>5, <4>1
      <4>3. QED
        BY <3>5, <4>1, <4>2
    <3>6. QED
      BY <3>2, <3>3, <3>4, <3>5, NewGranted, ZenonT(60)
  <2>5. QED
    BY <2>3, <2>4
<1> HIDE DEF r
<1>4. grantCh' \in Seq(Channel!Messages(GrantItems)) /\ Channel!Sorted(grantCh')
  <2>1. grantCh \in Seq(Channel!Messages(GrantItems)) /\ Channel!Sorted(grantCh)
    BY DEF DataTypes, ChannelTypes
  <2>2. CASE r.grants = <<>>
    BY <1>1, <2>1, <2>2
  <2>3. CASE r.grants # <<>>
    <3>1. PICK d \in GrantItems : d = Dci(r.grants[1])
      BY <1>3, <2>3
    <3>2. QED
      BY <1>1, <2>1, <2>3, <3>1, SendStep
  <2>4. QED
    BY <2>2, <2>3
<1>5. StateTypes'
  BY <1>1, <1>3 DEF DataTypes, StateTypes
<1>6. ChannelTypes'
  BY <1>1, <1>4 DEF DataTypes, ChannelTypes
<1>7. SrHasData'
  BY <1>1, <1>3 DEF DataTypes, SrHasData
<1>8. QED
  BY <1>5, <1>6, <1>7 DEF DataTypes

\* and what the eNB receives leaves the view and the demand what they are.
LEMMA EnbReceiveTypes ==
  ASSUME NEW crcOk \in BOOLEAN
  PROVE  DataTypes /\ EnbReceive(crcOk) => DataTypes'
<1> SUFFICES ASSUME DataTypes, EnbReceive(crcOk) PROVE DataTypes'
  OBVIOUS
<1> DEFINE m == Head(puschCh).item
           p == m.grant.pid
           ce == Pdu!Unpack(m.pdu).bsr
           v == IF Bsr!HasReport(ce) THEN ViewAfter(ce) ELSE view
           r == Rx!ReceiveTb(rx[p], m.grant, m.tb, crcOk)
           c == IF Bsr!HasReport(ce) THEN Forwarded(ctx, v) ELSE ctx
<1>1. /\ Channel!Visible(puschCh) /\ (crcOk \/ crcErrors > 0)
      /\ view' = v /\ rx' = [rx EXCEPT ![p] = r.rx]
      /\ phichCh' = Channel!Send(phichCh, [pid |-> p, ack |-> r.crcOk])
      /\ ctx' = Sched!HandleUlCrc(c, p, r.crcOk \/ r.discarded)
      /\ owed' = IF crcOk THEN owed - payload[p] ELSE owed
      /\ payload' = IF crcOk THEN [payload EXCEPT ![p] = 0] ELSE payload
      /\ crcErrors' = IF crcOk THEN crcErrors ELSE crcErrors - 1
      /\ puschCh' = Tail(puschCh)
  BY DEF EnbReceive
<1>2. UNCHANGED <<pc, buf, sr, bsr, proc, lastPdu, srCh, grantCh, arrivals, invented>>
  BY DEF EnbReceive, ueVars
<1>3. /\ m \in PuschItems
      /\ puschCh' \in Seq(Channel!Messages(PuschItems)) /\ Channel!Sorted(puschCh')
  BY <1>1, TakenItem DEF DataTypes, ChannelTypes
<1> HIDE DEF m
<1>4. /\ m.grant \in GrantItems /\ m.pdu \in Seq(Nat) /\ m.tb \in Nat /\ p \in Pids
  <2>1. m.grant \in GrantItems /\ m.pdu \in Seq(Nat) /\ m.tb \in Nat
    BY <1>3 DEF PuschItems
  <2>2. QED
    BY <2>1, GrantFields
<1> HIDE DEF p
<1>5. v \in OfLcgs
  <2>1. view \in OfLcgs
    BY DEF DataTypes, StateTypes
  <2>2. IsReport(ce)
    BY <1>4, UnpackedReport
  <2> HIDE DEF ce
  <2>3. QED
    BY <2>1, <2>2, ViewTyped
<1> HIDE DEF v
<1>6. /\ c \in Contexts /\ c.srPending = ctx.srPending
      /\ (\E l \in Lcgs : ctx.ulBuffer[l] > 0) => \E l \in Lcgs : c.ulBuffer[l] > 0
  BY <1>5, TypesBefore, ForwardedTyped
<1> HIDE DEF c
<1>7. r.rx \in RxProcesses /\ r.crcOk = crcOk /\ r.discarded \in BOOLEAN
  <2>1. rx[p] \in RxProcesses
    BY <1>4, TypesBefore
  <2>2. PICK n : n = IF rx[p].ndiKnown /\ rx[p].ndi = m.grant.ndi
                     THEN rx[p].txCount + 1 ELSE 1
    OBVIOUS
  <2>3. r.rx \in RxProcesses /\ r.crcOk = crcOk
    BY <1>4, <2>1, <2>2, ReceivedProcess
  <2>4. r.discarded \in BOOLEAN
    BY DEF Rx!ReceiveTb
  <2>5. QED
    BY <2>3, <2>4
<1> HIDE DEF r
<1>8. /\ ctx' \in Contexts /\ ctx'.srPending = ctx.srPending
      /\ (\E l \in Lcgs : ctx.ulBuffer[l] > 0) => \E l \in Lcgs : ctx'.ulBuffer[l] > 0
  <2>1. PICK done \in BOOLEAN : done = (r.crcOk \/ r.discarded)
    BY <1>7
  <2>2. PICK d \in Contexts, q \in Pids : d = c /\ q = p
    BY <1>4, <1>6
  <2>3. PICK e : e = Sched!HandleUlCrc(d, q, done)
    OBVIOUS
  <2>4. e \in Contexts /\ e.srPending = d.srPending /\ e.ulBuffer = d.ulBuffer
    BY <2>3, CrcHandled, ZenonT(40)
  <2>5. ctx' = e
    BY <1>1, <2>1, <2>2, <2>3
  <2>6. QED
    BY <1>6, <2>2, <2>4, <2>5
<1>9. /\ rx' \in [Pids -> RxProcesses] /\ payload' \in [Pids -> Nat] /\ owed' \in Int
      /\ crcErrors' \in 0 .. MaxCrcErrors
  <2>1. rx \in [Pids -> RxProcesses] /\ payload \in [Pids -> Nat]
    BY TypesBefore
  <2>2. owed \in Int /\ crcErrors \in 0 .. MaxCrcErrors /\ MaxCrcErrors \in Nat
    BY DataAssumption DEF DataTypes, StateTypes
  <2>3. rx' \in [Pids -> RxProcesses] /\ payload' \in [Pids -> Nat]
    BY <1>1, <1>4, <1>7, <2>1
  <2>4. payload[p] \in Nat
    BY <1>4, <2>1
  <2>5. owed' \in Int /\ crcErrors' \in 0 .. MaxCrcErrors
    BY <1>1, <2>2, <2>4
  <2>6. QED
    BY <2>3, <2>5
<1>10. StateTypes'
  BY <1>1, <1>2, <1>5, <1>8, <1>9 DEF DataTypes, StateTypes
<1>11. phichCh' \in Seq(Channel!Messages(PhichItems)) /\ Channel!Sorted(phichCh')
  <2>1. phichCh \in Seq(Channel!Messages(PhichItems)) /\ Channel!Sorted(phichCh)
    BY DEF DataTypes, ChannelTypes
  <2>2. PICK f : f = [pid |-> p, ack |-> r.crcOk]
    OBVIOUS
  <2>3. f \in PhichItems
    BY <1>4, <1>7, <2>2 DEF PhichItems
  <2>4. phichCh' = Channel!Send(phichCh, f)
    BY <1>1, <2>2
  <2>5. QED
    BY <2>1, <2>3, <2>4, SendStep
<1>12. ChannelTypes'
  BY <1>2, <1>3, <1>11 DEF DataTypes, ChannelTypes
<1>13. SrHasData'
  BY <1>2, <1>8 DEF DataTypes, SrHasData
<1>14. QED
  BY <1>10, <1>12, <1>13 DEF DataTypes

\* The initial state is typed,
LEMMA InitTypes == Init => DataTypes
<1> SUFFICES ASSUME Init PROVE DataTypes
  OBVIOUS
<1>1. /\ pc = "phich" /\ buf = Buffer!Empty /\ sr = Sr!IdleSr /\ bsr = Bsr!IdleBsr
      /\ proc = [p \in Pids |-> Ue!IdleProcess] /\ lastPdu = <<>>
      /\ ctx = Sched!NewContext /\ view = [l \in Lcgs |-> 0]
      /\ rx = [p \in Pids |-> Rx!IdleRx]
      /\ srCh = <<>> /\ grantCh = <<>> /\ puschCh = <<>> /\ phichCh = <<>>
      /\ arrivals = MaxArrivals /\ crcErrors = MaxCrcErrors
      /\ owed = 0 /\ payload = [p \in Pids |-> 0] /\ invented = 0
  BY DEF Init
<1>2. /\ buf \in [old : OfChannels, new : OfChannels, tokens : OfChannels]
      /\ \A c \in Channels : buf.tokens[c] <= BucketSize[c]
  <2>1. \A c \in Channels : BucketSize[c] \in Nat
    BY DataAssumption DEF Channels
  <2>2. QED
    BY <1>1, <2>1 DEF Buffer!Empty, OfChannels
<1>3. sr \in SrProcedures /\ sr.state = "IDLE"
  BY <1>1, SrBounds
<1>4. bsr \in BsrProcedures
  <2>1. {PeriodicTimer, RetxTimer} \subseteq Nat
    BY DataAssumption
  <2>2. QED
    BY <1>1, <2>1 DEF Bsr!IdleBsr, BsrProcedures
<1>5. ctx \in Contexts /\ ctx.srPending = FALSE
  <2>1. Sched!McsOfSnr(200) \in 0 .. 28
    BY McsChosen
  <2>2. ctx = [mcs |-> Sched!McsOfSnr(200), srPending |-> FALSE,
               ulBuffer |-> [l \in Lcgs |-> 0], busy |-> {}, pendingRetx |-> {},
               ndi |-> [p \in Pids |-> FALSE], harqTb |-> [p \in Pids |-> Sched!NoTb],
               samples |-> 0, granted |-> 0]
    BY <1>1 DEF Sched!NewContext, Sched!UlSnr, Sched!Pids, Pids
  <2>3. QED
    BY <2>1, <2>2 DEF Contexts, OfLcgs, TbRecords
<1>6. rx \in [Pids -> RxProcesses]
  <2>1. MaxHarqTx \in Nat \ {0}
    BY DataAssumption
  <2>2. Rx!IdleRx \in RxProcesses
    BY <2>1 DEF Rx!IdleRx, RxProcesses, NoTb
  <2>3. QED
    BY <1>1, <2>2
<1>7. proc \in [Pids -> UeProcesses]
  BY <1>1, IdleProcess
<1>8. /\ arrivals \in 0 .. MaxArrivals /\ crcErrors \in 0 .. MaxCrcErrors
  <2>1. {MaxArrivals, MaxCrcErrors} \subseteq Nat
    BY DataAssumption
  <2>2. QED
    BY <1>1, <2>1
<1>9. StateTypes
  BY <1>1, <1>2, <1>3, <1>4, <1>5, <1>6, <1>7, <1>8 DEF StateTypes, Steps, OfLcgs
<1>10. ChannelTypes
  BY <1>1 DEF ChannelTypes, Channel!Sorted
<1>11. SrHasData
  BY <1>3, <1>5 DEF SrHasData
<1>12. QED
  BY <1>9, <1>10, <1>11 DEF DataTypes

\* and so is every state after it.
LEMMA TypesPreserved == DataTypes /\ [Next]_vars => DataTypes'
<1> SUFFICES ASSUME DataTypes, [Next]_vars PROVE DataTypes'
  OBVIOUS
<1>1. CASE UNCHANGED vars
  <2>1. UNCHANGED <<pc, buf, sr, bsr, proc, lastPdu, ctx, view, rx, srCh, grantCh,
                    puschCh, phichCh, arrivals, crcErrors, owed, payload, invented>>
    BY <1>1 DEF vars, ueVars, enbVars, channelVars, boundVars, ghostVars
  <2>2. StateTypes' /\ ChannelTypes' /\ SrHasData'
    BY <2>1 DEF DataTypes, StateTypes, ChannelTypes, SrHasData
  <2>3. QED
    BY <2>2 DEF DataTypes
<1>2. CASE UeFeedback \/ UeSnapshot \/ UeDataArrived \/ UeRunTti
  BY <1>2, UeFeedbackTypes, UeSnapshotTypes, UeDataArrivedTypes, UeRunTtiTypes
<1>3. CASE UeGrant \/ UeGrantDone \/ EnbSr \/ EnbCqi \/ EnbSrDone
  BY <1>3, UeGrantTypes, DoneTypes, EnbSrTypes, EnbCqiTypes
<1>4. CASE EnbSchedule \/ (\E crcOk \in BOOLEAN : EnbReceive(crcOk)) \/ NextTti
  BY <1>4, EnbScheduleTypes, EnbReceiveTypes, NextTtiTypes
<1>5. QED
  BY <1>1, <1>2, <1>3, <1>4 DEF Next

-----------------------------------------------------------------------------
(* The messages of a process                                               *)

\* What the messages of a channel are.
LEMMA OnWayTyped ==
  ASSUME NEW S, NEW ch \in Seq(Channel!Messages(S)), NEW m \in Channel!OnWay(ch)
  PROVE  m.left \in 0 .. Delay /\ m.item \in S
<1>1. PICK i \in DOMAIN ch : m = ch[i]
  BY DEF Channel!OnWay
<1>2. m \in Channel!Messages(S)
  BY <1>1
<1>3. QED
  BY <1>2 DEF Channel!Messages

\* The grant taken is the only message of its process.
LEMMA GrantTaken ==
  ASSUME DataTypes, LoopInv, grantCh # <<>>, grantCh' = Tail(grantCh),
         NEW m, m = Head(grantCh), NEW p, p = m.item.pid
  PROVE  /\ m \in Channel!OnWay(grantCh) /\ Channel!OnWay(grantCh') \subseteq Channel!OnWay(grantCh)
         /\ m.item \in GrantItems /\ m.left \in 0 .. Delay /\ p \in Pids
         /\ GrantsOf(p) = {m} /\ GrantsOf(p)' = {}
         /\ \A o \in Pids : o # p => GrantsOf(o)' = GrantsOf(o)
         /\ \A o \in Pids : Channel!AtMostOne(grantCh', GrantItemsOf(o))
<1>1. /\ m \in Channel!Messages(GrantItems) /\ m \in Channel!OnWay(grantCh)
      /\ Channel!OnWay(grantCh') \subseteq Channel!OnWay(grantCh)
      /\ \A I : Channel!AtMostOne(grantCh, I) =>
           /\ Channel!AtMostOne(grantCh', I)
           /\ m.item \in I => Channel!Of(grantCh, I) = {m} /\ Channel!Of(grantCh', I) = {}
           /\ m.item \notin I => Channel!Of(grantCh', I) = Channel!Of(grantCh, I)
  BY TakeStep DEF DataTypes, ChannelTypes
<1>2. m.item \in GrantItems /\ m.left \in 0 .. Delay
  BY <1>1 DEF Channel!Messages
<1>3. p \in Pids
  BY <1>2 DEF GrantItems
<1>4. m.item \in GrantItemsOf(p) /\ \A o \in Pids : o # p => m.item \notin GrantItemsOf(o)
  BY <1>2, <1>3 DEF GrantItemsOf
<1>5. \A o \in Pids : Channel!AtMostOne(grantCh, GrantItemsOf(o))
  BY DEF LoopInv, OneMessage
<1>6. \A o \in Pids : GrantsOf(o)' = Channel!Of(grantCh', GrantItemsOf(o))
  BY DEF GrantsOf, GrantItemsOf
<1>7. GrantsOf(p) = {m} /\ GrantsOf(p)' = {}
  BY <1>1, <1>3, <1>4, <1>5, <1>6 DEF GrantsOf
<1>8. \A o \in Pids : o # p => GrantsOf(o)' = GrantsOf(o)
  BY <1>1, <1>4, <1>5, <1>6 DEF GrantsOf
<1>9. QED
  BY <1>1, <1>2, <1>3, <1>5, <1>7, <1>8

\* The grant sent becomes the only message of its process.
LEMMA GrantSent ==
  ASSUME DataTypes, LoopInv, NEW x \in GrantItems, grantCh' = Channel!Send(grantCh, x),
         NEW p, p = x.pid, GrantsOf(p) = {},
         NEW m, m = [left |-> Delay, item |-> x]
  PROVE  /\ Channel!OnWay(grantCh') = Channel!OnWay(grantCh) \union {m}
         /\ p \in Pids /\ GrantsOf(p)' = {m} /\ m.left = Delay /\ m.item = x
         /\ \A o \in Pids : o # p => GrantsOf(o)' = GrantsOf(o)
         /\ \A o \in Pids : Channel!AtMostOne(grantCh', GrantItemsOf(o))
<1>1. /\ Channel!OnWay(grantCh') = Channel!OnWay(grantCh) \union {m}
      /\ \A I : /\ x \in I => Channel!Of(grantCh', I) = Channel!Of(grantCh, I) \union {m}
                /\ x \notin I => Channel!Of(grantCh', I) = Channel!Of(grantCh, I)
                /\ Channel!AtMostOne(grantCh, I) /\ (x \in I => Channel!Of(grantCh, I) = {})
                     => Channel!AtMostOne(grantCh', I)
  BY SendStep DEF DataTypes, ChannelTypes
<1>2. p \in Pids
  BY DEF GrantItems
<1>3. x \in GrantItemsOf(p) /\ \A o \in Pids : o # p => x \notin GrantItemsOf(o)
  BY DEF GrantItemsOf
<1>4. \A o \in Pids : GrantsOf(o)' = Channel!Of(grantCh', GrantItemsOf(o))
  BY DEF GrantsOf, GrantItemsOf
<1>5. GrantsOf(p)' = {m}
  BY <1>1, <1>2, <1>3, <1>4 DEF GrantsOf
<1>6. \A o \in Pids : o # p => GrantsOf(o)' = GrantsOf(o)
  BY <1>1, <1>3, <1>4 DEF GrantsOf
<1>7. \A o \in Pids : Channel!AtMostOne(grantCh', GrantItemsOf(o))
  BY <1>1, <1>3 DEF LoopInv, OneMessage, GrantsOf
<1>8. QED
  BY <1>1, <1>2, <1>5, <1>6, <1>7

\* The transmission taken is the only message of its process.
LEMMA PuschTaken ==
  ASSUME DataTypes, LoopInv, puschCh # <<>>, puschCh' = Tail(puschCh),
         NEW m, m = Head(puschCh), NEW p, p = m.item.grant.pid
  PROVE  /\ m \in Channel!OnWay(puschCh) /\ Channel!OnWay(puschCh') \subseteq Channel!OnWay(puschCh)
         /\ m.item \in PuschItems /\ m.left \in 0 .. Delay /\ p \in Pids
         /\ PuschOf(p) = {m} /\ PuschOf(p)' = {}
         /\ \A o \in Pids : o # p => PuschOf(o)' = PuschOf(o)
         /\ \A o \in Pids : Channel!AtMostOne(puschCh', PuschItemsOf(o))
<1>1. /\ m \in Channel!Messages(PuschItems) /\ m \in Channel!OnWay(puschCh)
      /\ Channel!OnWay(puschCh') \subseteq Channel!OnWay(puschCh)
      /\ \A I : Channel!AtMostOne(puschCh, I) =>
           /\ Channel!AtMostOne(puschCh', I)
           /\ m.item \in I => Channel!Of(puschCh, I) = {m} /\ Channel!Of(puschCh', I) = {}
           /\ m.item \notin I => Channel!Of(puschCh', I) = Channel!Of(puschCh, I)
  BY TakeStep DEF DataTypes, ChannelTypes
<1>2. m.item \in PuschItems /\ m.left \in 0 .. Delay
  BY <1>1 DEF Channel!Messages
<1>3. p \in Pids
  BY <1>2 DEF PuschItems, GrantItems
<1>4. m.item \in PuschItemsOf(p) /\ \A o \in Pids : o # p => m.item \notin PuschItemsOf(o)
  BY <1>2, <1>3 DEF PuschItemsOf
<1>5. \A o \in Pids : Channel!AtMostOne(puschCh, PuschItemsOf(o))
  BY DEF LoopInv, OneMessage
<1>6. \A o \in Pids : PuschOf(o)' = Channel!Of(puschCh', PuschItemsOf(o))
  BY DEF PuschOf, PuschItemsOf
<1>7. PuschOf(p) = {m} /\ PuschOf(p)' = {}
  BY <1>1, <1>3, <1>4, <1>5, <1>6 DEF PuschOf
<1>8. \A o \in Pids : o # p => PuschOf(o)' = PuschOf(o)
  BY <1>1, <1>4, <1>5, <1>6 DEF PuschOf
<1>9. QED
  BY <1>1, <1>2, <1>3, <1>5, <1>7, <1>8

\* The transmission sent becomes the only message of its process.
LEMMA PuschSent ==
  ASSUME DataTypes, LoopInv, NEW x \in PuschItems, puschCh' = Channel!Send(puschCh, x),
         NEW p, p = x.grant.pid, PuschOf(p) = {},
         NEW m, m = [left |-> Delay, item |-> x]
  PROVE  /\ Channel!OnWay(puschCh') = Channel!OnWay(puschCh) \union {m}
         /\ p \in Pids /\ PuschOf(p)' = {m} /\ m.left = Delay /\ m.item = x
         /\ \A o \in Pids : o # p => PuschOf(o)' = PuschOf(o)
         /\ \A o \in Pids : Channel!AtMostOne(puschCh', PuschItemsOf(o))
<1>1. /\ Channel!OnWay(puschCh') = Channel!OnWay(puschCh) \union {m}
      /\ \A I : /\ x \in I => Channel!Of(puschCh', I) = Channel!Of(puschCh, I) \union {m}
                /\ x \notin I => Channel!Of(puschCh', I) = Channel!Of(puschCh, I)
                /\ Channel!AtMostOne(puschCh, I) /\ (x \in I => Channel!Of(puschCh, I) = {})
                     => Channel!AtMostOne(puschCh', I)
  BY SendStep DEF DataTypes, ChannelTypes
<1>2. p \in Pids
  BY DEF PuschItems, GrantItems
<1>3. x \in PuschItemsOf(p) /\ \A o \in Pids : o # p => x \notin PuschItemsOf(o)
  BY DEF PuschItemsOf
<1>4. \A o \in Pids : PuschOf(o)' = Channel!Of(puschCh', PuschItemsOf(o))
  BY DEF PuschOf, PuschItemsOf
<1>5. PuschOf(p)' = {m}
  BY <1>1, <1>2, <1>3, <1>4 DEF PuschOf
<1>6. \A o \in Pids : o # p => PuschOf(o)' = PuschOf(o)
  BY <1>1, <1>3, <1>4 DEF PuschOf
<1>7. \A o \in Pids : Channel!AtMostOne(puschCh', PuschItemsOf(o))
  BY <1>1, <1>3 DEF LoopInv, OneMessage, PuschOf
<1>8. QED
  BY <1>1, <1>2, <1>5, <1>6, <1>7

\* The feedback taken is the only message of its process.
LEMMA PhichTaken ==
  ASSUME DataTypes, LoopInv, phichCh # <<>>, phichCh' = Tail(phichCh),
         NEW m, m = Head(phichCh), NEW p, p = m.item.pid
  PROVE  /\ m \in Channel!OnWay(phichCh) /\ Channel!OnWay(phichCh') \subseteq Channel!OnWay(phichCh)
         /\ m.item \in PhichItems /\ m.left \in 0 .. Delay /\ p \in Pids
         /\ PhichOf(p) = {m} /\ PhichOf(p)' = {}
         /\ \A o \in Pids : o # p => PhichOf(o)' = PhichOf(o)
         /\ \A o \in Pids : Channel!AtMostOne(phichCh', PhichItemsOf(o))
<1>1. /\ m \in Channel!Messages(PhichItems) /\ m \in Channel!OnWay(phichCh)
      /\ Channel!OnWay(phichCh') \subseteq Channel!OnWay(phichCh)
      /\ \A I : Channel!AtMostOne(phichCh, I) =>
           /\ Channel!AtMostOne(phichCh', I)
           /\ m.item \in I => Channel!Of(phichCh, I) = {m} /\ Channel!Of(phichCh', I) = {}
           /\ m.item \notin I => Channel!Of(phichCh', I) = Channel!Of(phichCh, I)
  BY TakeStep DEF DataTypes, ChannelTypes
<1>2. m.item \in PhichItems /\ m.left \in 0 .. Delay
  BY <1>1 DEF Channel!Messages
<1>3. p \in Pids
  BY <1>2 DEF PhichItems
<1>4. m.item \in PhichItemsOf(p) /\ \A o \in Pids : o # p => m.item \notin PhichItemsOf(o)
  BY <1>2, <1>3 DEF PhichItemsOf
<1>5. \A o \in Pids : Channel!AtMostOne(phichCh, PhichItemsOf(o))
  BY DEF LoopInv, OneMessage
<1>6. \A o \in Pids : PhichOf(o)' = Channel!Of(phichCh', PhichItemsOf(o))
  BY DEF PhichOf, PhichItemsOf
<1>7. PhichOf(p) = {m} /\ PhichOf(p)' = {}
  BY <1>1, <1>3, <1>4, <1>5, <1>6 DEF PhichOf
<1>8. \A o \in Pids : o # p => PhichOf(o)' = PhichOf(o)
  BY <1>1, <1>4, <1>5, <1>6 DEF PhichOf
<1>9. QED
  BY <1>1, <1>2, <1>3, <1>5, <1>7, <1>8

\* The feedback sent becomes the only message of its process.
LEMMA PhichSent ==
  ASSUME DataTypes, LoopInv, NEW x \in PhichItems, phichCh' = Channel!Send(phichCh, x),
         NEW p, p = x.pid, PhichOf(p) = {},
         NEW m, m = [left |-> Delay, item |-> x]
  PROVE  /\ Channel!OnWay(phichCh') = Channel!OnWay(phichCh) \union {m}
         /\ p \in Pids /\ PhichOf(p)' = {m} /\ m.left = Delay /\ m.item = x
         /\ \A o \in Pids : o # p => PhichOf(o)' = PhichOf(o)
         /\ \A o \in Pids : Channel!AtMostOne(phichCh', PhichItemsOf(o))
<1>1. /\ Channel!OnWay(phichCh') = Channel!OnWay(phichCh) \union {m}
      /\ \A I : /\ x \in I => Channel!Of(phichCh', I) = Channel!Of(phichCh, I) \union {m}
                /\ x \notin I => Channel!Of(phichCh', I) = Channel!Of(phichCh, I)
                /\ Channel!AtMostOne(phichCh, I) /\ (x \in I => Channel!Of(phichCh, I) = {})
                     => Channel!AtMostOne(phichCh', I)
  BY SendStep DEF DataTypes, ChannelTypes
<1>2. p \in Pids
  BY DEF PhichItems
<1>3. x \in PhichItemsOf(p) /\ \A o \in Pids : o # p => x \notin PhichItemsOf(o)
  BY DEF PhichItemsOf
<1>4. \A o \in Pids : PhichOf(o)' = Channel!Of(phichCh', PhichItemsOf(o))
  BY DEF PhichOf, PhichItemsOf
<1>5. PhichOf(p)' = {m}
  BY <1>1, <1>2, <1>3, <1>4 DEF PhichOf
<1>6. \A o \in Pids : o # p => PhichOf(o)' = PhichOf(o)
  BY <1>1, <1>3, <1>4 DEF PhichOf
<1>7. \A o \in Pids : Channel!AtMostOne(phichCh', PhichItemsOf(o))
  BY <1>1, <1>3 DEF LoopInv, OneMessage, PhichOf
<1>8. QED
  BY <1>1, <1>2, <1>5, <1>6, <1>7

\* A process keeps its stage while nothing that concerns it changes.
LEMMA StageStays ==
  ASSUME NEW o \in Pids, Stage(o),
         proc'[o] = proc[o], rx'[o] = rx[o], payload'[o] = payload[o],
         ctx'.ndi[o] = ctx.ndi[o], ctx'.harqTb[o] = ctx.harqTb[o],
         o \in ctx'.busy <=> o \in ctx.busy,
         o \in ctx'.pendingRetx <=> o \in ctx.pendingRetx,
         GrantsOf(o)' = GrantsOf(o), PuschOf(o)' = PuschOf(o),
         PhichOf(o)' = PhichOf(o)
  PROVE  Stage(o)'
<1>1. UeState(o)' = UeState(o) /\ (Ue!InFlight(proc[o])' <=> Ue!InFlight(proc[o]))
  BY DEF UeState, Ue!StateOf, Ue!InFlight
<1>2. Decided(o) => Decided(o)'
  BY <1>1 DEF Decided
<1>3. Failed(o) => Failed(o)'
  BY <1>1 DEF Failed
<1>4. UeHolds(o) => UeHolds(o)'
  BY <1>1 DEF UeHolds
<1>5. (EnbHolds(o) => EnbHolds(o)') /\ (EnbIdle(o) => EnbIdle(o)')
  BY DEF EnbHolds, EnbIdle
<1>6. (NothingOnAir(o)' <=> NothingOnAir(o)) /\ (TbKnown(o)' <=> TbKnown(o))
  BY DEF NothingOnAir, TbKnown
<1>7. OnPdcch(o) => OnPdcch(o)'
  BY <1>6 DEF OnPdcch
<1>8. CASE IsFree(o)
  BY <1>2, <1>5, <1>6, <1>8 DEF Stage, IsFree
<1>9. CASE IsGranted(o)
  BY <1>2, <1>5, <1>7, <1>9 DEF Stage, IsGranted
<1>10. CASE IsOnAir(o)
  BY <1>1, <1>4, <1>5, <1>6, <1>10 DEF Stage, IsOnAir
<1>11. CASE IsDue(o)
  BY <1>3, <1>4, <1>5, <1>6, <1>11 DEF Stage, IsDue
<1>12. CASE IsRepeated(o)
  BY <1>3, <1>4, <1>5, <1>7, <1>12 DEF Stage, IsRepeated
<1>13. QED
  BY <1>8, <1>9, <1>10, <1>11, <1>12 DEF Stage

\* Steps that leave the loop alone.
LEMMA LoopAlone ==
  ASSUME LoopInv, AgesOK',
         UNCHANGED <<proc, rx, payload, grantCh, puschCh, phichCh>>,
         ctx'.busy = ctx.busy, ctx'.pendingRetx = ctx.pendingRetx,
         ctx'.ndi = ctx.ndi, ctx'.harqTb = ctx.harqTb
  PROVE  LoopInv'
<1>1. \A o \in Pids : /\ GrantsOf(o)' = GrantsOf(o) /\ PuschOf(o)' = PuschOf(o)
                      /\ PhichOf(o)' = PhichOf(o)
  BY DEF GrantsOf, PuschOf, PhichOf, GrantItemsOf, PuschItemsOf, PhichItemsOf
<1>2. OneMessage'
  BY DEF LoopInv, OneMessage, GrantItemsOf, PuschItemsOf, PhichItemsOf
<1>3. ASSUME NEW o \in Pids PROVE Stage(o)'
  <2>1. Stage(o)
    BY DEF LoopInv
  <2>2. QED
    BY <1>1, <2>1, StageStays
<1>4. QED
  BY <1>2, <1>3 DEF LoopInv

\* The feedback that is due belongs to a process that waits for it, and says
\* what has become of its TB.
LEMMA FeedbackOf ==
  ASSUME LoopInv, NEW p \in Pids, NEW f, PhichOf(p) = {f}
  PROVE  /\ Ue!StateOf(proc[p]) = "WAITING_FB" /\ Ue!InFlight(proc[p])
         /\ \/ /\ IsFree(p) \/ IsGranted(p)
               /\ IF f.item.ack THEN payload[p] = 0 ELSE proc[p].txNb = MaxHarqTx
            \/ /\ IsDue(p) \/ IsRepeated(p)
               /\ ~f.item.ack /\ proc[p].txNb = rx[p].txCount
<1>1. Stage(p)
  BY DEF LoopInv
<1>2. \/ /\ IsFree(p) \/ IsGranted(p)
         /\ UeState(p) = "WAITING_FB"
         /\ IF f.item.ack THEN payload[p] = 0 ELSE proc[p].txNb = MaxHarqTx
      \/ /\ IsDue(p) \/ IsRepeated(p)
         /\ UeState(p) = "WAITING_FB"
         /\ ~f.item.ack /\ proc[p].txNb = rx[p].txCount
  <2>1. CASE IsFree(p) \/ IsGranted(p)
    BY <2>1 DEF IsFree, IsGranted, Decided
  <2>2. CASE IsDue(p) \/ IsRepeated(p)
    BY <2>2 DEF IsDue, IsRepeated, Failed
  <2>3. ~IsOnAir(p)
    BY DEF IsOnAir
  <2>4. QED
    BY <1>1, <2>1, <2>2, <2>3 DEF Stage
<1>3. QED
  BY <1>2 DEF UeState, Ue!StateOf, Ue!InFlight

\* A visible grant finds its process without feedback due: idle and empty if it
\* is for a new TB, waiting to repeat its TB if it is not.
LEMMA GrantRead ==
  ASSUME DataTypes, LoopInv, pc # "phich", NEW p \in Pids, NEW m, GrantsOf(p) = {m},
         m.left = 0
  PROVE  /\ PhichOf(p) = {} /\ PuschOf(p) = {}
         /\ m.item.ndi = ctx.ndi[p] /\ m.item.tb = ctx.harqTb[p].tbs
         /\ \/ IsGranted(p) /\ UeState(p) = "INACTIVE" /\ payload[p] = 0
            \/ IsRepeated(p) /\ UeState(p) = "RETX_PENDING"
<1>1. Stage(p) /\ ~IsFree(p) /\ ~IsOnAir(p) /\ ~IsDue(p)
  BY DEF LoopInv, IsFree, IsOnAir, IsDue, NothingOnAir
<1>2. \A f \in PhichOf(p) : ~(f.left < m.left)
  <2>1. \A f \in PhichOf(p) : f \in Channel!OnWay(phichCh)
    BY DEF PhichOf, Channel!Of
  <2>2. \A f \in Channel!OnWay(phichCh) : f.left \in 0 .. Delay
    BY OnWayTyped DEF DataTypes, ChannelTypes
  <2>3. Delay \in Nat
    BY DataAssumption
  <2>4. QED
    BY <2>1, <2>2, <2>3
<1>3. ASSUME OnPdcch(p)
      PROVE  /\ PhichOf(p) = {} /\ PuschOf(p) = {}
             /\ m.item.ndi = ctx.ndi[p] /\ m.item.tb = ctx.harqTb[p].tbs
  BY <1>2, <1>3 DEF OnPdcch
<1>4. CASE IsGranted(p)
  BY <1>3, <1>4 DEF IsGranted, Decided
<1>5. CASE IsRepeated(p)
  BY <1>3, <1>5 DEF IsRepeated, Failed
<1>6. QED
  BY <1>1, <1>4, <1>5 DEF Stage
-----------------------------------------------------------------------------
(* The loop, step by step                                                  *)

\* Nothing is under way at the start,
LEMMA InitLoop == Init => LoopInv
<1> SUFFICES ASSUME Init PROVE LoopInv
  OBVIOUS
<1>1. /\ pc = "phich" /\ proc = [p \in Pids |-> Ue!IdleProcess]
      /\ ctx = Sched!NewContext /\ rx = [p \in Pids |-> Rx!IdleRx]
      /\ srCh = <<>> /\ grantCh = <<>> /\ puschCh = <<>> /\ phichCh = <<>>
      /\ payload = [p \in Pids |-> 0]
  BY DEF Init
<1>2. /\ Channel!OnWay(grantCh) = {} /\ Channel!OnWay(puschCh) = {}
      /\ Channel!OnWay(phichCh) = {}
  BY <1>1 DEF Channel!OnWay
<1>3. \A p \in Pids : GrantsOf(p) = {} /\ PuschOf(p) = {} /\ PhichOf(p) = {}
  BY <1>2 DEF GrantsOf, PuschOf, PhichOf, Channel!Of
<1>4. OneMessage
  BY <1>1 DEF OneMessage, Channel!AtMostOne
<1>5. AgesOK
  BY <1>1, <1>2 DEF AgesOK
<1>6. ctx.busy = {} /\ ctx.pendingRetx = {}
  BY <1>1 DEF Sched!NewContext
<1>7. ASSUME NEW p \in Pids PROVE Stage(p)
  <2>1. proc[p] = Ue!IdleProcess /\ rx[p] = Rx!IdleRx /\ payload[p] = 0
    BY <1>1
  <2>2. ~proc[p].configured /\ UeState(p) = "INACTIVE"
    BY <2>1, IdleProcess DEF UeState, Ue!StateOf
  <2>3. EnbIdle(p)
    BY <2>1 DEF EnbIdle, Rx!IdleRx
  <2>4. Decided(p)
    BY <1>3, <2>1, <2>2 DEF Decided
  <2>5. IsFree(p)
    BY <1>3, <1>6, <2>2, <2>3, <2>4 DEF IsFree, NothingOnAir
  <2>6. QED
    BY <2>5 DEF Stage
<1>8. QED
  BY <1>4, <1>5, <1>7 DEF LoopInv

\* feedback ends the wait of its process,
LEMMA UeFeedbackLoop ==
  ASSUME DataTypes, LoopInv, UeFeedback
  PROVE  LoopInv'
<1> PICK f : f = Head(phichCh)
  OBVIOUS
<1> PICK p : p = f.item.pid
  OBVIOUS
<1> DEFINE r == Ue!ApplyPhich(proc[p], f.item.ack)
           discarded == r.action.kind = "discard"
<1>1. /\ pc = "phich" /\ phichCh # <<>>
      /\ proc' = [proc EXCEPT ![p] = r.proc]
      /\ payload' = IF discarded THEN [payload EXCEPT ![p] = 0] ELSE payload
      /\ phichCh' = Tail(phichCh)
      /\ UNCHANGED <<pc, ctx, rx, srCh, grantCh, puschCh>>
  BY DEF UeFeedback, enbVars, Channel!Visible
<1>2. /\ Channel!OnWay(phichCh') \subseteq Channel!OnWay(phichCh)
      /\ f.item \in PhichItems /\ p \in Pids
      /\ PhichOf(p) = {f} /\ PhichOf(p)' = {}
      /\ \A o \in Pids : o # p => PhichOf(o)' = PhichOf(o)
      /\ \A o \in Pids : Channel!AtMostOne(phichCh', PhichItemsOf(o))
  BY <1>1, PhichTaken
<1>3. \A o \in Pids : GrantsOf(o)' = GrantsOf(o) /\ PuschOf(o)' = PuschOf(o)
  BY <1>1 DEF GrantsOf, PuschOf, GrantItemsOf, PuschItemsOf
<1>4. OneMessage'
  BY <1>1, <1>2 DEF LoopInv, OneMessage, GrantItemsOf, PuschItemsOf, PhichItemsOf
<1>5. AgesOK'
  BY <1>1, <1>2 DEF LoopInv, AgesOK
<1>6. /\ proc \in [Pids -> UeProcesses] /\ payload \in [Pids -> Nat]
      /\ rx \in [Pids -> RxProcesses] /\ f.item.ack \in BOOLEAN /\ proc[p] \in UeProcesses
  BY <1>2, TypesBefore DEF PhichItems
<1>7. ASSUME NEW o \in Pids, o # p PROVE Stage(o)'
  <2>1. Stage(o)
    BY DEF LoopInv
  <2>2. proc'[o] = proc[o] /\ payload'[o] = payload[o]
    BY <1>1, <1>6, <1>7
  <2>3. QED
    BY <1>1, <1>2, <1>3, <1>7, <2>1, <2>2, StageStays
<1>8. /\ Ue!StateOf(proc[p]) = "WAITING_FB" /\ Ue!InFlight(proc[p])
      /\ \/ /\ IsFree(p) \/ IsGranted(p)
            /\ IF f.item.ack THEN payload[p] = 0 ELSE proc[p].txNb = MaxHarqTx
         \/ /\ IsDue(p) \/ IsRepeated(p)
            /\ ~f.item.ack /\ proc[p].txNb = rx[p].txCount
  BY <1>2, FeedbackOf
<1>9. \/ /\ IsFree(p) \/ IsGranted(p)
         /\ Ue!StateOf(r.proc) = "INACTIVE"
         /\ r.proc.configured => proc[p].configured /\ r.proc.ndi = proc[p].ndi
         /\ discarded \/ payload[p] = 0
      \/ /\ IsDue(p) \/ IsRepeated(p)
         /\ Ue!StateOf(r.proc) = "RETX_PENDING" /\ Ue!InFlight(r.proc)
         /\ r.proc.txNb = proc[p].txNb /\ r.proc.tb = proc[p].tb
         /\ r.proc.ndi = proc[p].ndi
         /\ ~discarded
  <2>1. MaxHarqTx \in Nat \ {0}
    BY DataAssumption
  <2>2. CASE f.item.ack
    <3>1. /\ Ue!StateOf(r.proc) = "INACTIVE" /\ r.proc.ndi = proc[p].ndi
      BY <1>6, <1>8, <2>2, PhichProcess
    <3> HIDE DEF r
    <3>2. proc[p].configured
      BY <1>8 DEF Ue!InFlight
    <3>3. QED
      BY <1>8, <2>2, <3>1, <3>2
  <2>3. CASE ~f.item.ack /\ proc[p].txNb = MaxHarqTx
    <3>1. proc[p].txNb >= MaxHarqTx
      BY <2>1, <2>3
    <3>2. discarded /\ Ue!StateOf(r.proc) = "INACTIVE" /\ ~r.proc.configured
      BY <1>6, <1>8, <2>3, <3>1, PhichProcess
    <3> HIDE DEF r
    <3>3. proc[p].txNb # rx[p].txCount
      BY <1>2, <1>6, <2>1, <2>3 DEF RxProcesses
    <3>4. QED
      BY <1>8, <3>2, <3>3
  <2>4. CASE ~f.item.ack /\ proc[p].txNb = rx[p].txCount
    <3>1. proc[p].txNb < MaxHarqTx /\ ~(proc[p].txNb >= MaxHarqTx)
      BY <1>2, <1>6, <2>1, <2>4 DEF RxProcesses
    <3>2. /\ r.action.kind = "none"
          /\ Ue!StateOf(r.proc) = "RETX_PENDING" /\ Ue!InFlight(r.proc)
          /\ r.proc.txNb = proc[p].txNb /\ r.proc.tb = proc[p].tb
          /\ r.proc.ndi = proc[p].ndi
      BY <1>6, <1>8, <2>4, <3>1, PhichProcess, SMTT(30)
    <3> HIDE DEF r
    <3>3. proc[p].txNb # MaxHarqTx
      BY <2>1, <3>1
    <3>4. QED
      BY <1>8, <2>4, <3>2, <3>3
  <2>5. QED
    BY <1>8, <2>2, <2>3, <2>4
<1> HIDE DEF r
<1>10. proc'[p] = r.proc /\ UeState(p)' = Ue!StateOf(r.proc)
       /\ (Ue!InFlight(proc[p])' <=> Ue!InFlight(r.proc))
  BY <1>1, <1>2, <1>6 DEF UeState
<1>11. payload'[p] = IF discarded THEN 0 ELSE payload[p]
  BY <1>1, <1>2, <1>6
<1>12. Stage(p)'
  <2>1. PhichOf(p)' = {} /\ GrantsOf(p)' = GrantsOf(p) /\ PuschOf(p)' = PuschOf(p)
    BY <1>2, <1>3
  <2>2. OnPdcch(p) => OnPdcch(p)'
    BY <1>1, <2>1 DEF OnPdcch, TbKnown
  <2>3. CASE /\ IsFree(p) \/ IsGranted(p)
             /\ Ue!StateOf(r.proc) = "INACTIVE"
             /\ r.proc.configured => proc[p].configured /\ r.proc.ndi = proc[p].ndi
             /\ discarded \/ payload[p] = 0
    <3>1. Decided(p)'
      BY <1>10, <1>11, <2>1, <2>3 DEF Decided
    <3>2. EnbIdle(p)' <=> EnbIdle(p)
      BY <1>1 DEF EnbIdle
    <3>3. CASE IsFree(p)
      BY <1>1, <1>10, <2>1, <2>3, <3>1, <3>2, <3>3 DEF Stage, IsFree, NothingOnAir
    <3>4. CASE IsGranted(p)
      BY <1>1, <1>10, <2>2, <2>3, <3>1, <3>2, <3>4 DEF Stage, IsGranted
    <3>5. QED
      BY <2>3, <3>3, <3>4
  <2>4. CASE /\ IsDue(p) \/ IsRepeated(p)
             /\ Ue!StateOf(r.proc) = "RETX_PENDING" /\ Ue!InFlight(r.proc)
             /\ r.proc.txNb = proc[p].txNb /\ r.proc.tb = proc[p].tb
             /\ r.proc.ndi = proc[p].ndi
             /\ ~discarded
    <3>1. Failed(p)'
      BY <1>10, <2>1, <2>4 DEF Failed
    <3>2. UeHolds(p)' /\ EnbHolds(p)'
      BY <1>1, <1>10, <2>4 DEF UeHolds, EnbHolds, IsDue, IsRepeated
    <3>3. CASE IsDue(p)
      BY <1>1, <1>10, <2>1, <2>4, <3>1, <3>2, <3>3
      DEF Stage, IsDue, NothingOnAir, TbKnown
    <3>4. CASE IsRepeated(p)
      BY <1>1, <1>10, <2>2, <2>4, <3>1, <3>2, <3>4 DEF Stage, IsRepeated
    <3>5. QED
      BY <2>4, <3>3, <3>4
  <2>5. QED
    BY <1>9, <2>3, <2>4
<1>13. QED
  BY <1>4, <1>5, <1>7, <1>12 DEF LoopInv

\* what the UE does for its data does not touch the loop,
LEMMA UeDataLoop ==
  ASSUME DataTypes, LoopInv, UeSnapshot \/ UeDataArrived \/ UeRunTti
  PROVE  LoopInv'
<1>1. UNCHANGED <<proc, rx, payload, ctx, grantCh, puschCh, phichCh>>
  BY DEF UeSnapshot, UeDataArrived, UeRunTti, enbVars, channelVars, ghostVars
<1>2. AgesOK'
  <2>1. CASE UeSnapshot
    <3>1. \A m \in Channel!OnWay(phichCh) : m.left > 0
      BY <2>1, NotVisible DEF UeSnapshot, DataTypes, ChannelTypes
    <3>2. QED
      BY <1>1, <2>1, <3>1 DEF LoopInv, AgesOK, UeSnapshot
  <2>2. CASE UeDataArrived
    BY <1>1, <2>2 DEF LoopInv, AgesOK, UeDataArrived, channelVars
  <2>3. CASE UeRunTti
    BY <1>1, <2>3 DEF LoopInv, AgesOK, UeRunTti
  <2>4. QED
    BY <2>1, <2>2, <2>3
<1>3. QED
  BY <1>1, <1>2, LoopAlone

\* nor does the end of a part of the TTI,
LEMMA DoneLoop ==
  ASSUME DataTypes, LoopInv, UeGrantDone \/ EnbSrDone
  PROVE  LoopInv'
<1>1. UNCHANGED <<proc, rx, payload, ctx, srCh, grantCh, puschCh, phichCh>>
  BY DEF UeGrantDone, EnbSrDone, ueVars, enbVars, channelVars, ghostVars
<1>2. AgesOK'
  <2>1. CASE UeGrantDone
    <3>1. \A m \in Channel!OnWay(grantCh) : m.left > 0
      BY <2>1, NotVisible DEF UeGrantDone, DataTypes, ChannelTypes
    <3>2. QED
      BY <1>1, <2>1, <3>1 DEF LoopInv, AgesOK, UeGrantDone
  <2>2. CASE EnbSrDone
    <3>1. \A m \in Channel!OnWay(srCh) : m.left > 0
      BY <2>2, NotVisible DEF EnbSrDone, DataTypes, ChannelTypes
    <3>2. QED
      BY <1>1, <2>2, <3>1 DEF LoopInv, AgesOK, EnbSrDone
  <2>3. QED
    BY <2>1, <2>2
<1>3. QED
  BY <1>1, <1>2, LoopAlone

\* nor what the eNB learns of the demand and the channel.
LEMMA EnbDemandLoop ==
  ASSUME DataTypes, LoopInv, EnbSr \/ EnbCqi
  PROVE  LoopInv'
<1>1. /\ ctx'.busy = ctx.busy /\ ctx'.pendingRetx = ctx.pendingRetx
      /\ ctx'.ndi = ctx.ndi /\ ctx'.harqTb = ctx.harqTb
  <2>1. CASE EnbSr
    <3>1. Channel!Visible(srCh) /\ ctx' = Sched!HandleSr(ctx, Head(srCh).item)
      BY <2>1 DEF EnbSr
    <3>2. Head(srCh).item \in SrItems /\ ctx \in Contexts
      BY <3>1, TakenItem, TypesBefore DEF DataTypes, ChannelTypes
    <3>3. QED
      BY <3>1, <3>2, SrHandled
  <2>2. CASE EnbCqi
    <3>1. PICK cqi \in 0 .. 15 : ctx' = Sched!HandleCqi(ctx, cqi)
      BY <2>2, DataAssumption DEF EnbCqi
    <3>2. QED
      BY <3>1, TypesBefore, CqiHandled
  <2>3. QED
    BY <2>1, <2>2
<1>2. UNCHANGED <<pc, proc, rx, payload, grantCh, puschCh, phichCh>>
  BY DEF EnbSr, EnbCqi, ueVars, channelVars, ghostVars
<1>3. AgesOK'
  <2>1. pc = "sr"
    BY DEF EnbSr, EnbCqi
  <2>2. QED
    BY <1>2, <2>1 DEF LoopInv, AgesOK
<1>4. QED
  BY <1>1, <1>2, <1>3, LoopAlone

\* The grant at the front is the only message of its process.
LEMMA GrantFirst ==
  ASSUME DataTypes, LoopInv, grantCh # <<>>, NEW m, m = Head(grantCh),
         NEW p, p = m.item.pid
  PROVE  m.item \in GrantItems /\ p \in Pids /\ GrantsOf(p) = {m}
<1>1. /\ m \in Channel!Messages(GrantItems)
      /\ \A I : Channel!AtMostOne(grantCh, I) /\ m.item \in I => Channel!Of(grantCh, I) = {m}
  BY TakeStep DEF DataTypes, ChannelTypes
<1>2. m.item \in GrantItems
  BY <1>1 DEF Channel!Messages
<1>3. p \in Pids
  BY <1>2 DEF GrantItems
<1>4. m.item \in GrantItemsOf(p) /\ Channel!AtMostOne(grantCh, GrantItemsOf(p))
  BY <1>2, <1>3 DEF LoopInv, OneMessage, GrantItemsOf
<1>5. QED
  BY <1>1, <1>2, <1>3, <1>4 DEF GrantsOf

\* A grant that the UE uses is for a new TB of a process that holds no bytes, or
\* repeats the TB that the process holds.
LEMMA GrantUsed ==
  ASSUME DataTypes, LoopInv, pc # "phich", Channel!Visible(grantCh),
         NEW g, g = Head(grantCh).item
  PROVE  LET h == Ue!NewGrantUl(proc[g.pid], g, FALSE)
         IN  /\ g \in GrantItems /\ g.pid \in Pids /\ proc[g.pid] \in UeProcesses
             /\ PhichOf(g.pid) = {} /\ PuschOf(g.pid) = {}
             /\ g.ndi = ctx.ndi[g.pid] /\ g.tb = ctx.harqTb[g.pid].tbs
             /\ h.proc \in UeProcesses /\ h.proc.tb = g.tb /\ h.action.tb = g.tb
             /\ Ue!StateOf(h.proc) = "WAITING_FB" /\ Ue!InFlight(h.proc)
             /\ h.proc.ndi = g.ndi
             /\ \/ /\ IsGranted(g.pid) /\ payload[g.pid] = 0
                   /\ Ue!IsNewTx(proc[g.pid], g, FALSE)
                   /\ h.action.kind = "new" /\ h.proc.txNb = 1
                \/ /\ IsRepeated(g.pid) /\ proc[g.pid].tb = g.tb
                   /\ ~Ue!IsNewTx(proc[g.pid], g, FALSE)
                   /\ h.action.kind = "retx" /\ h.proc.txNb = proc[g.pid].txNb + 1
<1> PICK m : m = Head(grantCh)
  OBVIOUS
<1> PICK p : p = g.pid
  OBVIOUS
<1> DEFINE h == Ue!NewGrantUl(proc[p], g, FALSE)
<1>1. m.item = g /\ grantCh # <<>> /\ m.left = 0
  BY DEF Channel!Visible
<1>2. g \in GrantItems /\ p \in Pids /\ GrantsOf(p) = {m}
  BY <1>1, GrantFirst
<1>3. /\ PhichOf(p) = {} /\ PuschOf(p) = {}
      /\ g.ndi = ctx.ndi[p] /\ g.tb = ctx.harqTb[p].tbs
      /\ \/ IsGranted(p) /\ UeState(p) = "INACTIVE" /\ payload[p] = 0
         \/ IsRepeated(p) /\ UeState(p) = "RETX_PENDING"
  BY <1>1, <1>2, GrantRead
<1>4. proc[p] \in UeProcesses
  BY <1>2, TypesBefore
<1>5. /\ h.proc \in UeProcesses
      /\ Ue!IsNewTx(proc[p], g, FALSE) <=> g.ndi # proc[p].ndi \/ ~proc[p].configured
      /\ h.action.kind = IF Ue!IsNewTx(proc[p], g, FALSE) THEN "new" ELSE "retx"
      /\ h.action.tb = g.tb /\ h.proc.tb = g.tb
      /\ Ue!StateOf(h.proc) = "WAITING_FB" /\ Ue!InFlight(h.proc)
      /\ h.proc.ndi = g.ndi
      /\ Ue!IsNewTx(proc[p], g, FALSE) => h.proc.txNb = 1
      /\ ~Ue!IsNewTx(proc[p], g, FALSE) => h.proc.txNb = proc[p].txNb + 1
  BY <1>2, <1>4, GrantProcess
<1> HIDE DEF h
<1>6. IsGranted(p) => Ue!IsNewTx(proc[p], g, FALSE)
  BY <1>3, <1>5 DEF IsGranted
<1>7. IsRepeated(p) => ~Ue!IsNewTx(proc[p], g, FALSE) /\ proc[p].tb = g.tb
  BY <1>3, <1>5 DEF IsRepeated, UeHolds, Ue!InFlight
<1>8. QED
  BY <1>2, <1>3, <1>4, <1>5, <1>6, <1>7 DEF h

\* The UE's transmission takes the place of the grant,
LEMMA UeGrantLoop ==
  ASSUME DataTypes, LoopInv, UeGrant, DataTypes'
  PROVE  LoopInv'
<1> PICK m : m = Head(grantCh)
  OBVIOUS
<1> PICK g : g = m.item
  OBVIOUS
<1> PICK p : p = g.pid
  OBVIOUS
<1> DEFINE h == Ue!NewGrantUl(proc[p], g, FALSE)
           isNew == h.action.kind = "new"
<1>1. /\ pc = "grant" /\ Channel!Visible(grantCh) /\ grantCh # <<>> /\ m.left = 0
      /\ proc' = [proc EXCEPT ![p] = h.proc]
      /\ payload' = IF isNew THEN [payload EXCEPT ![p] =
                                     Buffer!Total(buf) - Buffer!Total(buf')]
                    ELSE payload
      /\ puschCh' = Channel!Send(puschCh,
                      [grant |-> g, pdu |-> lastPdu', tb |-> h.action.tb])
      /\ grantCh' = Tail(grantCh)
      /\ UNCHANGED <<pc, ctx, rx, srCh, phichCh>>
  BY DEF UeGrant, enbVars, Channel!Visible
<1>2. /\ Channel!OnWay(grantCh') \subseteq Channel!OnWay(grantCh)
      /\ g \in GrantItems /\ p \in Pids
      /\ GrantsOf(p) = {m} /\ GrantsOf(p)' = {}
      /\ \A o \in Pids : o # p => GrantsOf(o)' = GrantsOf(o)
      /\ \A o \in Pids : Channel!AtMostOne(grantCh', GrantItemsOf(o))
  BY <1>1, GrantTaken
<1>3. /\ PhichOf(p) = {} /\ PuschOf(p) = {} /\ proc[p] \in UeProcesses
      /\ g.ndi = ctx.ndi[p] /\ g.tb = ctx.harqTb[p].tbs
      /\ h.proc \in UeProcesses /\ h.proc.tb = g.tb /\ h.action.tb = g.tb
      /\ Ue!StateOf(h.proc) = "WAITING_FB" /\ Ue!InFlight(h.proc)
      /\ h.proc.ndi = g.ndi
      /\ \/ IsGranted(p) /\ h.proc.txNb = 1
         \/ IsRepeated(p) /\ h.proc.txNb = proc[p].txNb + 1
  BY <1>1, GrantUsed
<1> HIDE DEF h
<1>4. PICK x : x = [grant |-> g, pdu |-> lastPdu', tb |-> h.action.tb]
  OBVIOUS
<1>5. x \in PuschItems /\ x.grant = g
  <2>1. lastPdu' \in Seq(Nat) /\ h.action.tb \in Nat
    BY <1>2, <1>3, GrantFields DEF DataTypes, StateTypes
  <2>2. QED
    BY <1>2, <1>4, <2>1 DEF PuschItems
<1>6. PICK new : new = [left |-> Delay, item |-> x]
  OBVIOUS
<1>7. /\ PuschOf(p)' = {new} /\ new.item = x
      /\ \A o \in Pids : o # p => PuschOf(o)' = PuschOf(o)
      /\ \A o \in Pids : Channel!AtMostOne(puschCh', PuschItemsOf(o))
  <2>1. puschCh' = Channel!Send(puschCh, x) /\ p = x.grant.pid
    BY <1>1, <1>4, <1>5
  <2>2. QED
    BY <1>3, <1>5, <1>6, <2>1, PuschSent
<1>8. \A o \in Pids : PhichOf(o)' = PhichOf(o)
  BY <1>1 DEF PhichOf, PhichItemsOf
<1>9. OneMessage'
  BY <1>1, <1>2, <1>7 DEF LoopInv, OneMessage, GrantItemsOf, PuschItemsOf, PhichItemsOf
<1>10. AgesOK'
  BY <1>1, <1>2 DEF LoopInv, AgesOK
<1>11. proc \in [Pids -> UeProcesses] /\ payload \in [Pids -> Nat] /\ rx[p] \in RxProcesses
  BY <1>2, TypesBefore
<1>12. ASSUME NEW o \in Pids, o # p PROVE Stage(o)'
  <2>1. Stage(o)
    BY DEF LoopInv
  <2>2. proc'[o] = proc[o] /\ payload'[o] = payload[o]
    BY <1>1, <1>11, <1>12
  <2>3. QED
    BY <1>1, <1>2, <1>7, <1>8, <1>12, <2>1, <2>2, StageStays
<1>13. /\ proc'[p] = h.proc /\ UeState(p)' = "WAITING_FB" /\ Ue!InFlight(proc[p])'
  BY <1>1, <1>2, <1>3, <1>11 DEF UeState
<1>14. Stage(p)'
  <2>1. /\ p \in ctx.busy /\ p \notin ctx.pendingRetx /\ TbKnown(p)
    BY <1>3 DEF IsGranted, IsRepeated, OnPdcch
  <2>2. (EnbHolds(p) \/ EnbIdle(p)) /\ h.proc.txNb = rx[p].txCount + 1
    <3>1. CASE IsGranted(p) /\ h.proc.txNb = 1
      BY <3>1 DEF IsGranted, EnbIdle
    <3>2. CASE IsRepeated(p) /\ h.proc.txNb = proc[p].txNb + 1
      BY <3>2 DEF IsRepeated
    <3>3. QED
      BY <1>3, <3>1, <3>2
  <2>3. UeHolds(p)'
    BY <1>1, <1>3, <1>13 DEF UeHolds
  <2>4. TbKnown(p)' /\ (EnbHolds(p)' \/ EnbIdle(p)')
    BY <1>1, <2>1, <2>2 DEF TbKnown, EnbHolds, EnbIdle
  <2>5. IsOnAir(p)'
    BY <1>1, <1>2, <1>3, <1>5, <1>7, <1>8, <1>13, <2>1, <2>2, <2>3, <2>4 DEF IsOnAir
  <2>6. QED
    BY <2>5 DEF Stage
<1>15. QED
  BY <1>9, <1>10, <1>12, <1>14 DEF LoopInv

\* The clock moves on: every message ages, and everything else stays.
LEMMA NextTtiLoop ==
  ASSUME DataTypes, LoopInv, NextTti
  PROVE  LoopInv'
<1>1. /\ pc = "pusch" /\ pc' = "phich" /\ ~Channel!Visible(puschCh)
      /\ grantCh' = Channel!Advance(grantCh)
      /\ puschCh' = Channel!Advance(puschCh)
      /\ phichCh' = Channel!Advance(phichCh)
      /\ UNCHANGED <<proc, ctx, rx, payload>>
  BY DEF NextTti, enbVars, ghostVars
<1>2. /\ \A m \in Channel!OnWay(grantCh) : m.left > 0
      /\ \A m \in Channel!OnWay(phichCh) : m.left > 0
  BY <1>1 DEF LoopInv, AgesOK
<1>3. \A m \in Channel!OnWay(puschCh) : m.left > 0
  BY <1>1, NotVisible DEF DataTypes, ChannelTypes
<1>4. /\ \A m \in Channel!OnWay(grantCh) :
           Lib!Older(m).left = m.left - 1 /\ Lib!Older(m).item = m.item
      /\ \A I : /\ Channel!Of(grantCh', I) = {Lib!Older(m) : m \in Channel!Of(grantCh, I)}
                /\ Channel!AtMostOne(grantCh, I) => Channel!AtMostOne(grantCh', I)
  BY <1>1, <1>2, AdvanceStep DEF DataTypes, ChannelTypes
<1>5. /\ \A m \in Channel!OnWay(puschCh) : Lib!Older(m).item = m.item
      /\ \A I : /\ Channel!Of(puschCh', I) = {Lib!Older(m) : m \in Channel!Of(puschCh, I)}
                /\ Channel!AtMostOne(puschCh, I) => Channel!AtMostOne(puschCh', I)
  BY <1>1, <1>3, AdvanceStep DEF DataTypes, ChannelTypes
<1>6. /\ \A m \in Channel!OnWay(phichCh') : m.left < Delay
      /\ \A m \in Channel!OnWay(phichCh) :
           Lib!Older(m).left = m.left - 1 /\ Lib!Older(m).item = m.item
      /\ \A I : /\ Channel!Of(phichCh', I) = {Lib!Older(m) : m \in Channel!Of(phichCh, I)}
                /\ Channel!AtMostOne(phichCh, I) => Channel!AtMostOne(phichCh', I)
  BY <1>1, <1>2, AdvanceStep DEF DataTypes, ChannelTypes
<1>7. OneMessage'
  BY <1>4, <1>5, <1>6
  DEF LoopInv, OneMessage, GrantItemsOf, PuschItemsOf, PhichItemsOf
<1>8. AgesOK'
  BY <1>1, <1>6 DEF AgesOK
<1>9. ASSUME NEW p \in Pids
      PROVE  Stage(p)'
  <2>1. UeState(p)' = UeState(p)
    BY <1>1 DEF UeState
  <2>2. /\ GrantsOf(p)' = {Lib!Older(m) : m \in GrantsOf(p)}
        /\ PuschOf(p)' = {Lib!Older(m) : m \in PuschOf(p)}
        /\ PhichOf(p)' = {Lib!Older(m) : m \in PhichOf(p)}
    BY <1>4, <1>5, <1>6
    DEF GrantsOf, PuschOf, PhichOf, GrantItemsOf, PuschItemsOf, PhichItemsOf
  <2>3. /\ GrantsOf(p) \subseteq Channel!OnWay(grantCh)
        /\ PuschOf(p) \subseteq Channel!OnWay(puschCh)
        /\ PhichOf(p) \subseteq Channel!OnWay(phichCh)
    BY DEF GrantsOf, PuschOf, PhichOf, Channel!Of
  <2>4. /\ GrantsOf(p) = {} => GrantsOf(p)' = {}
        /\ PuschOf(p) = {} => PuschOf(p)' = {}
        /\ PhichOf(p) = {} => PhichOf(p)' = {}
    BY <2>2
  <2>5. Decided(p) => Decided(p)'
    <3>1. CASE PhichOf(p) = {} /\ UeState(p) = "INACTIVE" /\ payload[p] = 0
      BY <1>1, <2>1, <2>4, <3>1 DEF Decided
    <3>2. CASE /\ UeState(p) = "WAITING_FB"
               /\ \E m \in PhichOf(p) :
                    /\ PhichOf(p) = {m}
                    /\ IF m.item.ack THEN payload[p] = 0 ELSE proc[p].txNb = MaxHarqTx
      <4>1. PICK m \in PhichOf(p) :
              /\ PhichOf(p) = {m}
              /\ IF m.item.ack THEN payload[p] = 0 ELSE proc[p].txNb = MaxHarqTx
        BY <3>2
      <4>2. PhichOf(p)' = {Lib!Older(m)} /\ Lib!Older(m).item = m.item
        BY <1>6, <2>2, <2>3, <4>1
      <4>3. QED
        BY <1>1, <2>1, <3>2, <4>1, <4>2 DEF Decided
    <3>3. QED
      BY <3>1, <3>2 DEF Decided
  <2>6. Failed(p) => Failed(p)'
    <3>1. CASE PhichOf(p) = {} /\ UeState(p) = "RETX_PENDING"
      BY <2>1, <2>4, <3>1 DEF Failed
    <3>2. ASSUME UeState(p) = "WAITING_FB", NEW m \in PhichOf(p),
                 PhichOf(p) = {m}, ~m.item.ack
          PROVE  Failed(p)'
      <4>1. PhichOf(p)' = {Lib!Older(m)} /\ Lib!Older(m).item = m.item
        BY <1>6, <2>2, <2>3, <3>2
      <4>2. QED
        BY <2>1, <3>2, <4>1 DEF Failed
    <3>3. QED
      BY <3>1, <3>2 DEF Failed
  <2>7. ASSUME OnPdcch(p) PROVE OnPdcch(p)'
    <3>1. PICK m \in GrantsOf(p) :
            /\ GrantsOf(p) = {m}
            /\ m.item.ndi = ctx.ndi[p] /\ m.item.tb = ctx.harqTb[p].tbs
            /\ \A f \in PhichOf(p) : f.left < m.left
      BY <2>7 DEF OnPdcch
    <3>2. /\ GrantsOf(p)' = {Lib!Older(m)} /\ Lib!Older(m).item = m.item
          /\ Lib!Older(m).left = m.left - 1
      BY <1>4, <2>2, <2>3, <3>1
    <3>3. m.left \in Int
      BY <2>3, OnWayTyped DEF DataTypes, ChannelTypes
    <3>4. ASSUME NEW f \in PhichOf(p) PROVE Lib!Older(f).left < Lib!Older(m).left
      <4>1. f.left \in Int /\ Lib!Older(f).left = f.left - 1
        BY <1>6, <2>3, OnWayTyped DEF DataTypes, ChannelTypes
      <4>2. QED
        BY <3>1, <3>2, <3>3, <4>1
    <3>5. \A f \in PhichOf(p)' : f.left < Lib!Older(m).left
      BY <2>2, <3>4
    <3>6. PuschOf(p)' = {}
      BY <2>4, <2>7 DEF OnPdcch
    <3>7. QED
      BY <1>1, <2>7, <3>1, <3>2, <3>5, <3>6 DEF OnPdcch, TbKnown
  <2>8. /\ UeHolds(p) => UeHolds(p)'
        /\ EnbHolds(p) => EnbHolds(p)'
        /\ EnbIdle(p) => EnbIdle(p)'
        /\ TbKnown(p) => TbKnown(p)'
    BY <1>1 DEF UeHolds, EnbHolds, EnbIdle, TbKnown, Ue!InFlight
  <2>9. NothingOnAir(p) => NothingOnAir(p)'
    BY <2>4 DEF NothingOnAir
  <2>10. CASE IsFree(p)
    BY <1>1, <2>5, <2>8, <2>9, <2>10 DEF Stage, IsFree
  <2>11. CASE IsGranted(p)
    BY <1>1, <2>5, <2>7, <2>8, <2>11 DEF Stage, IsGranted
  <2>12. CASE IsDue(p)
    BY <1>1, <2>6, <2>8, <2>9, <2>12 DEF Stage, IsDue
  <2>13. CASE IsRepeated(p)
    BY <1>1, <2>6, <2>7, <2>8, <2>13 DEF Stage, IsRepeated
  <2>14. CASE IsOnAir(p)
    <3>1. PICK m \in PuschOf(p) : PuschOf(p) = {m} /\ m.item.grant.ndi = ctx.ndi[p]
      BY <2>14 DEF IsOnAir
    <3>2. PuschOf(p)' = {Lib!Older(m)} /\ Lib!Older(m).item = m.item
      BY <1>5, <2>2, <2>3, <3>1
    <3>3. GrantsOf(p)' = {} /\ PhichOf(p)' = {}
      BY <2>4, <2>14 DEF IsOnAir
    <3>4. IsOnAir(p)'
      BY <1>1, <2>1, <2>8, <2>14, <3>1, <3>2, <3>3 DEF IsOnAir
    <3>5. QED
      BY <3>4 DEF Stage
  <2>15. QED
    BY <2>10, <2>11, <2>12, <2>13, <2>14 DEF LoopInv, Stage
<1>10. QED
  BY <1>7, <1>8, <1>9 DEF LoopInv

\* A process that is due for a retransmission knows its TB.
LEMMA NoOrphans == LoopInv /\ ctx \in Contexts => Sched!Orphans(ctx) = {}
<1> SUFFICES ASSUME LoopInv, ctx \in Contexts, NEW p \in ctx.pendingRetx
             PROVE  ctx.harqTb[p] # Sched!NoTb
  BY DEF Sched!Orphans
<1>1. p \in Pids
  BY ContextFields
<1>2. Stage(p)
  BY <1>1 DEF LoopInv
<1>3. QED
  BY <1>2 DEF Stage, IsFree, IsGranted, IsOnAir, IsDue, IsRepeated, OnPdcch, TbKnown

\* A grant repeats the TB of a process that is due, or starts one on a free process.
Repeats(p) ==
  /\ ctx'.busy = ctx.busy /\ ctx'.pendingRetx = ctx.pendingRetx \ {p}
  /\ ctx'.ndi = ctx.ndi /\ ctx'.harqTb = ctx.harqTb

Starts(p) ==
  /\ p \notin ctx.busy
  /\ ctx'.busy = ctx.busy \union {p} /\ ctx'.pendingRetx = ctx.pendingRetx
  /\ ctx'.ndi = [ctx.ndi EXCEPT ![p] = ~@]
  /\ \E tb \in TbRecords :
       /\ ctx'.harqTb = [ctx.harqTb EXCEPT ![p] = tb] /\ tb # Sched!NoTb
       /\ tb.nPrb = Sched!NeededPrb(ctx) /\ tb.tbs = Sched!Tbs(ctx.mcs, tb.nPrb)

\* A TTI of the scheduler grants nothing, repeats the TB of a process that waits
\* for it, or starts one on a process that is free.
LEMMA Scheduled ==
  ASSUME DataTypes, LoopInv, EnbSchedule
  PROVE  \/ ctx' = ctx /\ grantCh' = grantCh
         \/ \E p \in Pids, g \in GrantItems :
              /\ (p \in ctx.pendingRetx /\ Repeats(p)) \/ Starts(p)
              /\ g.pid = p /\ g.ndi = ctx'.ndi[p] /\ g.tb = ctx'.harqTb[p].tbs
              /\ grantCh' = Channel!Send(grantCh, g)
<1> DEFINE retx == Sched!GrantRetx(ctx, {})
           r == IF retx.grants = <<>> THEN Sched!GrantNew(retx.ctx, {}) ELSE retx
<1>1. /\ ctx' = r.ctx
      /\ grantCh' = IF r.grants = <<>> THEN grantCh
                    ELSE Channel!Send(grantCh, Dci(r.grants[1]))
  BY DEF EnbSchedule
<1>2. ctx \in Contexts /\ Sched!Orphans(ctx) = {}
  BY TypesBefore, NoOrphans
<1>3. /\ ctx.pendingRetx \in SUBSET Pids /\ ctx.ndi \in [Pids -> BOOLEAN]
      /\ ctx.harqTb \in [Pids -> TbRecords]
  BY <1>2, ContextFields
<1>4. \A gr : /\ gr.pid \in Pids /\ gr.ndi \in BOOLEAN
              /\ gr.rv \in {Ue!NoRv, 0} /\ gr.tb \in Nat \ {0}
              => /\ Dci(gr) \in GrantItems /\ Dci(gr).pid = gr.pid
                 /\ Dci(gr).ndi = gr.ndi /\ Dci(gr).tb = gr.tb
  BY DEF Dci, GrantItems
<1>5. CASE retx.grants # <<>>
  <2>1. PICK p \in ctx.pendingRetx :
          /\ retx.grants[1].pid = p /\ retx.grants[1].ndi = ctx.ndi[p]
          /\ retx.grants[1].rv = Ue!NoRv
          /\ retx.grants[1].tb = ctx.harqTb[p].tbs /\ ctx.harqTb[p] # Sched!NoTb
          /\ retx.ctx.busy = ctx.busy
          /\ retx.ctx.pendingRetx = ctx.pendingRetx \ {p}
    BY <1>2, <1>5, RetxGranted
  <2>2. retx.ctx.ndi = ctx.ndi /\ retx.ctx.harqTb = ctx.harqTb
    BY <1>2, <1>5, RetxGranted
  <2>3. ctx' = retx.ctx /\ grantCh' = Channel!Send(grantCh, Dci(retx.grants[1]))
    BY <1>1, <1>5
  <2> HIDE DEF retx
  <2>4. PICK gr : gr = retx.grants[1]
    OBVIOUS
  <2>5. ctx.harqTb[p].tbs \in Nat \ {0}
    BY <1>3, <2>1 DEF TbRecords
  <2>6. /\ Dci(gr) \in GrantItems /\ Dci(gr).pid = p /\ Dci(gr).ndi = ctx.ndi[p]
        /\ Dci(gr).tb = ctx.harqTb[p].tbs
    BY <1>3, <1>4, <2>1, <2>4, <2>5
  <2>7. p \in Pids /\ Repeats(p)
    BY <1>3, <2>1, <2>2, <2>3 DEF Repeats
  <2>8. QED
    BY <2>1, <2>2, <2>3, <2>4, <2>6, <2>7
<1>6. CASE retx.grants = <<>>
  <2>1. retx.ctx = ctx
    BY <1>2, <1>6, NoRetxGranted
  <2>2. r = Sched!GrantNew(ctx, {})
    BY <1>6, <2>1
  <2> HIDE DEF retx, r
  <2>3. CASE r.grants = <<>> /\ r.ctx = ctx
    BY <1>1, <2>3
  <2>4. ASSUME r.grants # <<>>, r.ctx.pendingRetx = ctx.pendingRetx,
               NEW p \in Pids \ ctx.busy, NEW tbs \in Nat \ {0},
               r.grants[1].pid = p, r.grants[1].ndi = ~ctx.ndi[p],
               r.grants[1].rv = 0, r.grants[1].tb = tbs,
               r.ctx.busy = ctx.busy \union {p},
               r.ctx.ndi = [ctx.ndi EXCEPT ![p] = ~@],
               r.ctx.harqTb = [ctx.harqTb EXCEPT ![p] =
                                 [tbs |-> tbs, nPrb |-> Sched!NeededPrb(ctx)]],
               Sched!NeededPrb(ctx) \in 1 .. TotalPrb,
               tbs = Sched!Tbs(ctx.mcs, Sched!NeededPrb(ctx))
        PROVE  \E q \in Pids, g \in GrantItems :
                 /\ Starts(q)
                 /\ g.pid = q /\ g.ndi = ctx'.ndi[q] /\ g.tb = ctx'.harqTb[q].tbs
                 /\ grantCh' = Channel!Send(grantCh, g)
    <3>1. PICK gr : gr = r.grants[1]
      OBVIOUS
    <3>2. PICK n : n = Sched!NeededPrb(ctx)
      OBVIOUS
    <3>3. PICK tb : tb = [tbs |-> tbs, nPrb |-> n]
      OBVIOUS
    <3>4. /\ tb \in TbRecords /\ tb # Sched!NoTb /\ tb.tbs = tbs /\ tb.nPrb = n
      BY <2>4, <3>2, <3>3 DEF TbRecords, Sched!NoTb
    <3>5. ctx'.harqTb = [ctx.harqTb EXCEPT ![p] = tb]
      BY <1>1, <2>4, <3>2, <3>3
    <3>6. Starts(p)
      <4>1. /\ ctx'.busy = ctx.busy \union {p} /\ ctx'.pendingRetx = ctx.pendingRetx
            /\ ctx'.ndi = [ctx.ndi EXCEPT ![p] = ~@] /\ p \notin ctx.busy
        BY <1>1, <2>4
      <4>2. tb.nPrb = Sched!NeededPrb(ctx) /\ tb.tbs = Sched!Tbs(ctx.mcs, tb.nPrb)
        BY <2>4, <3>2, <3>4
      <4>3. \E x \in TbRecords :
              /\ ctx'.harqTb = [ctx.harqTb EXCEPT ![p] = x] /\ x # Sched!NoTb
              /\ x.nPrb = Sched!NeededPrb(ctx) /\ x.tbs = Sched!Tbs(ctx.mcs, x.nPrb)
        BY <3>4, <3>5, <4>2
      <4>4. QED
        BY <4>1, <4>3 DEF Starts
    <3>7. ctx'.ndi[p] = ~ctx.ndi[p] /\ ctx'.harqTb[p] = tb
      BY <1>1, <1>3, <2>4, <3>5
    <3>8. Dci(gr) \in GrantItems /\ Dci(gr).pid = p /\ Dci(gr).ndi = ~ctx.ndi[p]
          /\ Dci(gr).tb = tbs
      <4>1. gr.pid \in Pids /\ gr.ndi \in BOOLEAN /\ gr.rv = 0 /\ gr.tb \in Nat \ {0}
        BY <1>3, <2>4, <3>1
      <4>2. QED
        BY <1>4, <2>4, <3>1, <4>1
    <3>9. grantCh' = Channel!Send(grantCh, Dci(gr))
      BY <1>1, <2>4, <3>1
    <3>10. QED
      BY <3>4, <3>6, <3>7, <3>8, <3>9
  <2>5. LET s == Sched!GrantNew(ctx, {})
        IN  \/ s.grants = <<>> /\ s.ctx = ctx
            \/ /\ s.grants # <<>> /\ s.ctx.pendingRetx = ctx.pendingRetx
               /\ \E p \in Pids \ ctx.busy, tbs \in Nat \ {0} :
                    /\ s.grants[1].pid = p /\ s.grants[1].ndi = ~ctx.ndi[p]
                    /\ s.grants[1].rv = 0 /\ s.grants[1].tb = tbs
                    /\ s.ctx.busy = ctx.busy \union {p}
                    /\ s.ctx.ndi = [ctx.ndi EXCEPT ![p] = ~@]
                    /\ s.ctx.harqTb = [ctx.harqTb EXCEPT ![p] =
                                         [tbs |-> tbs, nPrb |-> Sched!NeededPrb(ctx)]]
                    /\ Sched!NeededPrb(ctx) \in 1 .. TotalPrb
                    /\ tbs = Sched!Tbs(ctx.mcs, Sched!NeededPrb(ctx))
    BY <1>2, NewGranted, ZenonT(60)
  <2>6. CASE r.grants # <<>>
    <3>1. PICK p \in Pids \ ctx.busy, tbs \in Nat \ {0} :
            /\ r.grants[1].pid = p /\ r.grants[1].ndi = ~ctx.ndi[p]
            /\ r.grants[1].rv = 0 /\ r.grants[1].tb = tbs
            /\ r.ctx.busy = ctx.busy \union {p}
            /\ r.ctx.ndi = [ctx.ndi EXCEPT ![p] = ~@]
            /\ r.ctx.harqTb = [ctx.harqTb EXCEPT ![p] =
                                 [tbs |-> tbs, nPrb |-> Sched!NeededPrb(ctx)]]
            /\ Sched!NeededPrb(ctx) \in 1 .. TotalPrb
            /\ tbs = Sched!Tbs(ctx.mcs, Sched!NeededPrb(ctx))
      BY <2>2, <2>5, <2>6, ZenonT(60)
    <3>2. r.ctx.pendingRetx = ctx.pendingRetx
      BY <2>2, <2>5, <2>6, ZenonT(60)
    <3>3. \E q \in Pids, g \in GrantItems :
             /\ Starts(q)
             /\ g.pid = q /\ g.ndi = ctx'.ndi[q] /\ g.tb = ctx'.harqTb[q].tbs
             /\ grantCh' = Channel!Send(grantCh, g)
      BY <2>4, <2>6, <3>1, <3>2, ZenonT(60)
    <3>4. QED
      BY <3>3
  <2>7. QED
    BY <2>2, <2>3, <2>5, <2>6
<1>7. QED
  BY <1>5, <1>6

\* A grant takes the place of the retransmission that is due, or opens the loop
\* of a free process,
LEMMA EnbScheduleLoop ==
  ASSUME DataTypes, LoopInv, EnbSchedule
  PROVE  LoopInv'
<1>1. /\ pc = "schedule" /\ pc' = "pusch"
      /\ UNCHANGED <<proc, rx, payload, srCh, puschCh, phichCh>>
  BY DEF EnbSchedule, ueVars, ghostVars
<1>2. /\ \A f \in Channel!OnWay(phichCh) : f.left > 0 /\ f.left < Delay
      /\ \A m \in Channel!OnWay(grantCh) : m.left > 0
      /\ \A m \in Channel!OnWay(srCh) : m.left > 0
  BY <1>1 DEF LoopInv, AgesOK
<1>3. CASE ctx' = ctx /\ grantCh' = grantCh
  <2>1. AgesOK'
    BY <1>1, <1>2, <1>3 DEF AgesOK
  <2>2. QED
    BY <1>1, <1>3, <2>1, LoopAlone
<1>4. ASSUME NEW p \in Pids, NEW g \in GrantItems,
             (p \in ctx.pendingRetx /\ Repeats(p)) \/ Starts(p),
             g.pid = p, g.ndi = ctx'.ndi[p], g.tb = ctx'.harqTb[p].tbs,
             grantCh' = Channel!Send(grantCh, g)
      PROVE  LoopInv'
  <2>1. /\ ctx.ndi \in [Pids -> BOOLEAN] /\ ctx.harqTb \in [Pids -> TbRecords]
        /\ proc \in [Pids -> UeProcesses]
    BY TypesBefore, ContextFields
  <2>2. \/ p \in ctx.pendingRetx /\ Repeats(p) /\ IsDue(p)
        \/ Starts(p) /\ IsFree(p)
    <3>1. Stage(p)
      BY DEF LoopInv
    <3>2. p \in ctx.pendingRetx => IsDue(p)
      BY <3>1 DEF Stage, IsFree, IsGranted, IsOnAir, IsRepeated, OnPdcch
    <3>3. p \notin ctx.busy => IsFree(p)
      BY <3>1 DEF Stage, IsGranted, IsOnAir, IsDue, IsRepeated, OnPdcch
    <3>4. QED
      BY <1>4, <3>2, <3>3 DEF Starts
  <2>3. GrantsOf(p) = {} /\ PuschOf(p) = {}
    BY <2>2 DEF IsDue, IsFree, NothingOnAir
  <2>4. PICK m : m = [left |-> Delay, item |-> g]
    OBVIOUS
  <2>5. /\ Channel!OnWay(grantCh') = Channel!OnWay(grantCh) \union {m}
        /\ GrantsOf(p)' = {m} /\ m.left = Delay /\ m.item = g
        /\ \A o \in Pids : o # p => GrantsOf(o)' = GrantsOf(o)
        /\ \A o \in Pids : Channel!AtMostOne(grantCh', GrantItemsOf(o))
    BY <1>4, <2>3, <2>4, GrantSent
  <2>6. \A o \in Pids : PuschOf(o)' = PuschOf(o) /\ PhichOf(o)' = PhichOf(o)
    BY <1>1 DEF PuschOf, PhichOf, PuschItemsOf, PhichItemsOf
  <2>7. OneMessage'
    BY <1>1, <2>5 DEF LoopInv, OneMessage, GrantItemsOf, PuschItemsOf, PhichItemsOf
  <2>8. AgesOK'
    <3>1. Delay > 0
      BY DataAssumption
    <3>2. QED
      BY <1>1, <1>2, <2>5, <3>1 DEF AgesOK
  <2>9. ASSUME NEW o \in Pids, o # p PROVE Stage(o)'
    <3>1. Stage(o)
      BY DEF LoopInv
    <3>2. /\ o \in ctx'.busy <=> o \in ctx.busy
          /\ o \in ctx'.pendingRetx <=> o \in ctx.pendingRetx
          /\ ctx'.ndi[o] = ctx.ndi[o] /\ ctx'.harqTb[o] = ctx.harqTb[o]
      <4>1. CASE Repeats(p)
        BY <2>9, <4>1 DEF Repeats
      <4>2. CASE Starts(p)
        BY <2>1, <2>9, <4>2 DEF Starts
      <4>3. QED
        BY <1>4, <4>1, <4>2
    <3>3. QED
      BY <1>1, <2>5, <2>6, <2>9, <3>1, <3>2, StageStays
  <2>10. \A f \in PhichOf(p)' : f.left < m.left
    BY <1>2, <2>5, <2>6 DEF PhichOf, Channel!Of
  <2>11. UeState(p)' = UeState(p) /\ PuschOf(p)' = {}
    BY <1>1, <2>3, <2>6 DEF UeState
  <2>12. CASE p \in ctx.pendingRetx /\ Repeats(p) /\ IsDue(p)
    <3>1. OnPdcch(p)'
      BY <1>4, <2>5, <2>10, <2>11, <2>12 DEF OnPdcch, IsDue, Repeats, TbKnown
    <3>2. UeHolds(p)' /\ EnbHolds(p)' /\ Failed(p)'
      BY <1>1, <2>6, <2>11, <2>12
      DEF IsDue, UeHolds, EnbHolds, Failed, Repeats, Ue!InFlight
    <3>3. IsRepeated(p)'
      BY <1>1, <2>12, <3>1, <3>2 DEF IsDue, IsRepeated
    <3>4. QED
      BY <2>7, <2>8, <2>9, <3>3 DEF LoopInv, Stage
  <2>13. CASE Starts(p) /\ IsFree(p)
    <3>1. /\ p \in ctx'.busy /\ p \notin ctx'.pendingRetx
          /\ ctx'.ndi[p] = ~ctx.ndi[p] /\ ctx'.harqTb[p] # Sched!NoTb
      BY <2>1, <2>13 DEF Starts, IsFree
    <3>2. OnPdcch(p)'
      BY <1>4, <2>5, <2>10, <2>11, <3>1 DEF OnPdcch, TbKnown
    <3>3. EnbIdle(p)' /\ Decided(p)'
      BY <1>1, <2>6, <2>11, <2>13 DEF IsFree, EnbIdle, Decided
    <3>4. proc'[p].configured => proc'[p].ndi # ctx'.ndi[p]
      BY <1>1, <2>1, <2>13, <3>1 DEF IsFree
    <3>5. IsGranted(p)'
      BY <3>2, <3>3, <3>4 DEF IsGranted
    <3>6. QED
      BY <2>7, <2>8, <2>9, <3>5 DEF LoopInv, Stage
  <2>14. QED
    BY <2>2, <2>12, <2>13
<1>5. QED
  BY <1>3, <1>4, Scheduled

\* and the decision on a transmission ends its TB, or has it repeated.
LEMMA EnbReceiveLoop ==
  ASSUME DataTypes, LoopInv, NEW crcOk \in BOOLEAN, EnbReceive(crcOk)
  PROVE  LoopInv'
<1> PICK m : m = Head(puschCh)
  OBVIOUS
<1> PICK g : g = m.item.grant
  OBVIOUS
<1> PICK p : p = g.pid
  OBVIOUS
<1> DEFINE ce == Pdu!Unpack(m.item.pdu).bsr
           v == IF Bsr!HasReport(ce) THEN ViewAfter(ce) ELSE view
           r == Rx!ReceiveTb(rx[p], g, m.item.tb, crcOk)
           c == IF Bsr!HasReport(ce) THEN Forwarded(ctx, v) ELSE ctx
<1>1. /\ pc = "pusch" /\ puschCh # <<>>
      /\ rx' = [rx EXCEPT ![p] = r.rx]
      /\ phichCh' = Channel!Send(phichCh, [pid |-> p, ack |-> r.crcOk])
      /\ ctx' = Sched!HandleUlCrc(c, p, r.crcOk \/ r.discarded)
      /\ payload' = IF crcOk THEN [payload EXCEPT ![p] = 0] ELSE payload
      /\ puschCh' = Tail(puschCh)
      /\ UNCHANGED <<pc, proc, srCh, grantCh>>
  BY DEF EnbReceive, ueVars, Channel!Visible
<1>2. /\ Channel!OnWay(puschCh') \subseteq Channel!OnWay(puschCh)
      /\ m.item \in PuschItems /\ p \in Pids
      /\ PuschOf(p) = {m} /\ PuschOf(p)' = {}
      /\ \A o \in Pids : o # p => PuschOf(o)' = PuschOf(o)
      /\ \A o \in Pids : Channel!AtMostOne(puschCh', PuschItemsOf(o))
  BY <1>1, PuschTaken
<1>3. /\ g \in GrantItems /\ m.item.pdu \in Seq(Nat) /\ m.item.tb \in Nat
  BY <1>2 DEF PuschItems
<1>4. IsOnAir(p) /\ g.ndi = ctx.ndi[p]
  <2>1. Stage(p) /\ PuschOf(p) # {}
    BY <1>2 DEF LoopInv
  <2>2. IsOnAir(p)
    BY <2>1 DEF Stage, IsFree, IsGranted, IsDue, IsRepeated, OnPdcch, NothingOnAir
  <2>3. QED
    BY <1>2, <2>2 DEF IsOnAir
<1>5. /\ c \in Contexts /\ c.busy = ctx.busy /\ c.pendingRetx = ctx.pendingRetx
      /\ c.ndi = ctx.ndi /\ c.harqTb = ctx.harqTb
  <2>1. view \in OfLcgs /\ ctx \in Contexts
    BY TypesBefore DEF DataTypes, StateTypes
  <2>2. IsReport(ce)
    BY <1>3, UnpackedReport
  <2> HIDE DEF ce
  <2>3. v \in OfLcgs
    BY <2>1, <2>2, ViewTyped
  <2> HIDE DEF v
  <2>4. QED
    BY <2>1, <2>3, ForwardedTyped
<1> HIDE DEF ce, v, c
<1>6. /\ rx \in [Pids -> RxProcesses] /\ proc \in [Pids -> UeProcesses]
      /\ payload \in [Pids -> Nat] /\ MaxHarqTx \in Nat \ {0}
      /\ rx[p] \in RxProcesses /\ proc[p] \in UeProcesses
  BY <1>2, TypesBefore, DataAssumption
<1>7. PICK n : n = IF rx[p].ndiKnown /\ rx[p].ndi = g.ndi THEN rx[p].txCount + 1 ELSE 1
  OBVIOUS
<1>8. n = proc[p].txNb /\ n \in 1 .. MaxHarqTx
  <2>1. /\ proc[p].txNb = rx[p].txCount + 1
        /\ EnbHolds(p) \/ EnbIdle(p)
    BY <1>4 DEF IsOnAir
  <2>2. n = rx[p].txCount + 1
    <3>1. CASE EnbHolds(p)
      BY <1>4, <1>7, <3>1 DEF EnbHolds
    <3>2. CASE EnbIdle(p)
      BY <1>7, <3>2 DEF EnbIdle
    <3>3. QED
      BY <2>1, <3>1, <3>2
  <2>3. rx[p].txCount \in 0 .. MaxHarqTx - 1
    BY <1>6 DEF RxProcesses
  <2>4. QED
    BY <1>6, <2>1, <2>2, <2>3
<1>9. /\ r.rx \in RxProcesses /\ r.crcOk = crcOk
      /\ r.discarded <=> ~crcOk /\ n >= MaxHarqTx
      /\ crcOk \/ r.discarded => ~r.rx.ndiKnown /\ r.rx.txCount = 0
      /\ ~crcOk /\ ~r.discarded =>
           r.rx.ndiKnown /\ r.rx.ndi = g.ndi /\ r.rx.txCount = n
  <2>1. PICK q \in RxProcesses, t \in Nat : q = rx[p] /\ t = m.item.tb
    BY <1>3, <1>6
  <2>2. PICK s : s = Rx!ReceiveTb(q, g, t, crcOk)
    OBVIOUS
  <2>3. r = s
    BY <2>1, <2>2
  <2>4. n = IF q.ndiKnown /\ q.ndi = g.ndi THEN q.txCount + 1 ELSE 1
    BY <1>7, <2>1
  <2> HIDE DEF r
  <2>5. /\ s.rx \in RxProcesses /\ s.crcOk = crcOk
        /\ s.discarded <=> ~crcOk /\ n >= MaxHarqTx
        /\ crcOk \/ s.discarded => ~s.rx.ndiKnown /\ s.rx.txCount = 0
        /\ ~crcOk /\ ~s.discarded =>
             s.rx.ndiKnown /\ s.rx.ndi = g.ndi /\ s.rx.txCount = n
    BY <1>3, <2>2, <2>4, ReceivedProcess
  <2>6. QED
    BY <2>3, <2>5
<1> HIDE DEF r
<1>10. PICK f : f = [pid |-> p, ack |-> crcOk]
  OBVIOUS
<1>11. f \in PhichItems /\ phichCh' = Channel!Send(phichCh, f) /\ f.pid = p /\ f.ack = crcOk
  BY <1>1, <1>2, <1>9, <1>10 DEF PhichItems
<1>12. PICK new : new = [left |-> Delay, item |-> f]
  OBVIOUS
<1>13. /\ Channel!OnWay(phichCh') = Channel!OnWay(phichCh) \union {new}
       /\ PhichOf(p)' = {new} /\ new.left = Delay /\ new.item = f
       /\ \A o \in Pids : o # p => PhichOf(o)' = PhichOf(o)
       /\ \A o \in Pids : Channel!AtMostOne(phichCh', PhichItemsOf(o))
  <2>1. PhichOf(p) = {}
    BY <1>4 DEF IsOnAir
  <2>2. QED
    BY <1>11, <1>12, <2>1, PhichSent
<1>14. \A o \in Pids : GrantsOf(o)' = GrantsOf(o)
  BY <1>1 DEF GrantsOf, GrantItemsOf
<1>15. OneMessage'
  BY <1>1, <1>2, <1>13 DEF LoopInv, OneMessage, GrantItemsOf, PuschItemsOf, PhichItemsOf
<1>16. AgesOK'
  <2>1. Delay > 0
    BY DataAssumption
  <2>2. QED
    BY <1>1, <1>13, <2>1 DEF LoopInv, AgesOK
<1>17. \/ /\ crcOk \/ n = MaxHarqTx
          /\ ctx'.busy = ctx.busy \ {p} /\ ctx'.pendingRetx = ctx.pendingRetx \ {p}
          /\ ctx'.harqTb = [ctx.harqTb EXCEPT ![p] = Sched!NoTb]
          /\ ~r.rx.ndiKnown /\ r.rx.txCount = 0
       \/ /\ ~crcOk
          /\ ctx'.busy = ctx.busy \union {p}
          /\ ctx'.pendingRetx = ctx.pendingRetx \union {p}
          /\ ctx'.harqTb = ctx.harqTb
          /\ r.rx.ndiKnown /\ r.rx.ndi = g.ndi /\ r.rx.txCount = n
  <2>1. PICK d \in Contexts, q \in Pids : d = c /\ q = p
    BY <1>2, <1>5
  <2>2. CASE crcOk \/ r.discarded
    <3>1. ctx' = Sched!HandleUlCrc(d, q, TRUE)
      BY <1>1, <1>9, <2>1, <2>2
    <3>2. PICK e : e = Sched!HandleUlCrc(d, q, TRUE)
      OBVIOUS
    <3>3. /\ e.busy = d.busy \ {q} /\ e.pendingRetx = d.pendingRetx \ {q}
          /\ e.harqTb = [d.harqTb EXCEPT ![q] = Sched!NoTb]
      BY <3>2, CrcHandled, ZenonT(40)
    <3>4. crcOk \/ n = MaxHarqTx
      BY <1>6, <1>8, <1>9, <2>2
    <3>5. QED
      BY <1>5, <1>9, <2>1, <2>2, <3>1, <3>2, <3>3, <3>4
  <2>3. CASE ~(crcOk \/ r.discarded)
    <3>1. ctx' = Sched!HandleUlCrc(d, q, FALSE)
      BY <1>1, <1>9, <2>1, <2>3
    <3>2. PICK e : e = Sched!HandleUlCrc(d, q, FALSE)
      OBVIOUS
    <3>3. /\ e.busy = d.busy \union {q} /\ e.pendingRetx = d.pendingRetx \union {q}
          /\ e.harqTb = d.harqTb
      BY <3>2, CrcHandled, ZenonT(40)
    <3>4. QED
      BY <1>5, <1>9, <2>1, <2>3, <3>1, <3>2, <3>3
  <2>4. QED
    BY <2>2, <2>3
<1>18. ctx'.ndi = ctx.ndi
  <2>1. PICK done \in BOOLEAN : done = (crcOk \/ (~crcOk /\ n >= MaxHarqTx))
    OBVIOUS
  <2>2. PICK d \in Contexts, q \in Pids : d = c /\ q = p
    BY <1>2, <1>5
  <2>3. PICK e : e = Sched!HandleUlCrc(d, q, done)
    OBVIOUS
  <2>4. e.ndi = d.ndi
    BY <2>3, CrcHandled, ZenonT(40)
  <2>5. (r.crcOk \/ r.discarded) = done
    BY <1>9, <2>1
  <2>6. QED
    BY <1>1, <1>5, <2>2, <2>3, <2>4, <2>5
<1>19. ctx.harqTb \in [Pids -> TbRecords]
  BY TypesBefore, ContextFields
<1>20. ASSUME NEW o \in Pids, o # p PROVE Stage(o)'
  <2>1. Stage(o)
    BY DEF LoopInv
  <2>2. rx'[o] = rx[o] /\ payload'[o] = payload[o] /\ ctx'.harqTb[o] = ctx.harqTb[o]
    BY <1>1, <1>6, <1>17, <1>19, <1>20
  <2>3. /\ o \in ctx'.busy <=> o \in ctx.busy
        /\ o \in ctx'.pendingRetx <=> o \in ctx.pendingRetx
    BY <1>17, <1>20
  <2>4. QED
    BY <1>1, <1>2, <1>13, <1>14, <1>18, <1>20, <2>1, <2>2, <2>3, StageStays
<1>21. Stage(p)'
  <2>1. /\ GrantsOf(p)' = {} /\ PuschOf(p)' = {} /\ NothingOnAir(p)'
    BY <1>2, <1>4, <1>14 DEF IsOnAir, NothingOnAir
  <2>2. /\ UeState(p)' = "WAITING_FB" /\ Ue!InFlight(proc[p])
        /\ proc[p].ndi = ctx.ndi[p] /\ proc[p].tb = ctx.harqTb[p].tbs
        /\ TbKnown(p) /\ p \in ctx.busy
    BY <1>1, <1>4 DEF IsOnAir, UeHolds, UeState
  <2>3. rx'[p] = r.rx
    BY <1>1, <1>2, <1>6
  <2>4. CASE /\ crcOk \/ n = MaxHarqTx
             /\ ctx'.busy = ctx.busy \ {p} /\ ctx'.pendingRetx = ctx.pendingRetx \ {p}
             /\ ctx'.harqTb = [ctx.harqTb EXCEPT ![p] = Sched!NoTb]
             /\ ~r.rx.ndiKnown /\ r.rx.txCount = 0
    <3>1. IF crcOk THEN payload'[p] = 0 ELSE proc[p].txNb = MaxHarqTx
      BY <1>1, <1>2, <1>6, <1>8, <2>4
    <3>2. Decided(p)'
      BY <1>1, <1>11, <1>13, <2>2, <3>1 DEF Decided
    <3>3. EnbIdle(p)'
      BY <2>3, <2>4 DEF EnbIdle
    <3>4. IsFree(p)'
      BY <1>1, <1>18, <2>1, <2>2, <2>4, <3>2, <3>3 DEF IsFree
    <3>5. QED
      BY <3>4 DEF Stage
  <2>5. CASE /\ ~crcOk
             /\ ctx'.busy = ctx.busy \union {p}
             /\ ctx'.pendingRetx = ctx.pendingRetx \union {p}
             /\ ctx'.harqTb = ctx.harqTb
             /\ r.rx.ndiKnown /\ r.rx.ndi = g.ndi /\ r.rx.txCount = n
    <3>1. Failed(p)'
      BY <1>11, <1>13, <2>2, <2>5 DEF Failed
    <3>2. UeHolds(p)' /\ EnbHolds(p)' /\ TbKnown(p)'
      <4>1. proc'[p] = proc[p] /\ ctx'.harqTb[p] = ctx.harqTb[p] /\ ctx'.ndi[p] = ctx.ndi[p]
        BY <1>1, <1>18, <2>5
      <4>2. UeHolds(p)'
        BY <2>2, <4>1 DEF UeHolds, Ue!InFlight
      <4>3. EnbHolds(p)'
        BY <1>4, <2>3, <2>5, <4>1 DEF EnbHolds
      <4>4. TbKnown(p)'
        BY <2>2, <4>1 DEF TbKnown
      <4>5. QED
        BY <4>2, <4>3, <4>4
    <3>3. IsDue(p)'
      BY <1>1, <1>8, <2>1, <2>3, <2>5, <3>1, <3>2 DEF IsDue
    <3>4. QED
      BY <3>3 DEF Stage
  <2>6. QED
    BY <1>17, <2>4, <2>5
<1>22. QED
  BY <1>15, <1>16, <1>20, <1>21 DEF LoopInv

\* Every step keeps the loop.
LEMMA LoopPreserved ==
  ASSUME DataTypes, LoopInv, [Next]_vars
  PROVE  LoopInv'
<1>1. DataTypes'
  BY TypesPreserved
<1>2. CASE UNCHANGED vars
  <2>1. UNCHANGED <<pc, proc, ctx, rx, srCh, grantCh, puschCh, phichCh, payload>>
    BY <1>2 DEF vars, ueVars, enbVars, channelVars, ghostVars
  <2>2. AgesOK'
    BY <2>1 DEF LoopInv, AgesOK
  <2>3. QED
    BY <2>1, <2>2, LoopAlone
<1>3. CASE UeFeedback
  BY <1>3, UeFeedbackLoop
<1>4. CASE UeSnapshot \/ UeDataArrived \/ UeRunTti
  BY <1>4, UeDataLoop
<1>5. CASE UeGrant
  BY <1>1, <1>5, UeGrantLoop
<1>6. CASE UeGrantDone \/ EnbSrDone
  BY <1>6, DoneLoop
<1>7. CASE EnbSr \/ EnbCqi
  BY <1>7, EnbDemandLoop
<1>8. CASE EnbSchedule
  BY <1>8, EnbScheduleLoop
<1>9. CASE \E crcOk \in BOOLEAN : EnbReceive(crcOk)
  BY <1>9, EnbReceiveLoop
<1>10. CASE NextTti
  BY <1>10, NextTtiLoop
<1>11. QED
  BY <1>2, <1>3, <1>4, <1>5, <1>6, <1>7, <1>8, <1>9, <1>10 DEF Next
-----------------------------------------------------------------------------
(* The balance of the bytes                                                *)

BytesInv == PayloadFits /\ invented \in Nat /\ BytesBalance

\* There are finitely many processes.
LEMMA PidsFinite == Lib!IsFiniteSet(Pids)
<1>1. NofProcesses \in Nat
  BY DataAssumption
<1>2. IsFiniteSet(0 .. NofProcesses - 1)
  BY <1>1, FS_Interval
<1>3. QED
  BY <1>2 DEF Pids, IsFiniteSet, Lib!IsFiniteSet

\* What all TBs carry, when what one of them carries changes.
LEMMA OneSumChanges ==
  ASSUME NEW f, NEW g, NEW p \in Pids,
         \A o \in Pids : f[o] \in Int, \A o \in Pids : g[o] \in Int,
         \A o \in Pids : p # o => g[o] = f[o]
  PROVE  Lib!SumOver(g, Pids) = Lib!SumOver(f, Pids) - f[p] + g[p]
BY PidsFinite, Lib!SumChange

\* What all TBs carry, when one of them is given its bytes.
LEMMA CarriedInAll ==
  ASSUME NEW f \in [Pids -> Nat], NEW p \in Pids, NEW n \in Nat
  PROVE  /\ Buffer!Sum(f) \in Nat
         /\ Buffer!Sum([f EXCEPT ![p] = n]) = Buffer!Sum(f) - f[p] + n
<1> PICK g : g = [f EXCEPT ![p] = n]
  OBVIOUS
<1>1. /\ DOMAIN f = Pids /\ DOMAIN g = Pids
      /\ Buffer!Sum(f) = Lib!SumOver(f, Pids) /\ Buffer!Sum(g) = Lib!SumOver(g, Pids)
  BY BufferAmounts
<1>2. /\ g[p] = n
      /\ \A o \in Pids : f[o] \in Nat /\ f[o] \in Int /\ g[o] \in Int
      /\ \A o \in Pids : p # o => g[o] = f[o]
  OBVIOUS
<1>3. Lib!SumOver(f, Pids) \in Nat
  BY <1>2, PidsFinite, Lib!SumTyped
<1>4. Lib!SumOver(g, Pids) = Lib!SumOver(f, Pids) - f[p] + g[p]
  BY <1>2, OneSumChanges
<1>5. QED
  BY <1>1, <1>2, <1>3, <1>4

\* The balance depends on the totals only,
LEMMA BalanceStays ==
  ASSUME BytesInv, UNCHANGED <<proc, owed, payload, invented>>,
         Buffer!Total(buf') = Buffer!Total(buf)
  PROVE  BytesInv'
BY DEF BytesInv, PayloadFits, BytesBalance, Accounted

\* and the total on what the channels hold now.
LEMMA TotalOfNew ==
  ASSUME NEW b, NEW d, d.new = b.new
  PROVE  Buffer!Total(d) = Buffer!Total(b)
BY DEF Buffer!Total

\* At the start there is nothing,
LEMMA InitBytes == Init => BytesInv
<1> SUFFICES ASSUME Init PROVE BytesInv
  OBVIOUS
<1>1. /\ buf = Buffer!Empty /\ payload = [p \in Pids |-> 0]
      /\ proc = [p \in Pids |-> Ue!IdleProcess] /\ owed = 0 /\ invented = 0
  BY DEF Init
<1>2. DataTypes
  BY InitTypes
<1>3. PayloadFits
  <2>1. \A p \in Pids : proc[p].tb \in Nat
    BY <1>2, TypesBefore DEF UeProcesses
  <2>2. QED
    BY <1>1, <2>1 DEF PayloadFits
<1>4. Buffer!Total(buf) = 0
  <2>1. buf \in Buffers /\ \A c \in Channels : buf.new[c] = 0
    BY <1>1, <1>2, TypesBefore DEF Buffer!Empty
  <2>2. \A c \in Channels : ~(buf.new[c] > 0)
    BY <2>1
  <2>3. Buffer!Total(buf) = Lib!SumOver(buf.new, Channels)
    BY <2>1, BufferTotals
  <2>4. Lib!IsFiniteSet(Channels)
    BY ChannelSets
  <2>5. PICK f : f = buf.new
    OBVIOUS
  <2>6. /\ \A c \in Channels : f[c] \in Nat /\ ~(f[c] > 0)
        /\ Lib!SumOver(f, Channels) \in Nat
    BY <2>1, <2>2, <2>3, <2>5, BufferTotals
  <2>7. ~(Lib!SumOver(f, Channels) > 0)
    BY <2>4, <2>6, Lib!SumPositive
  <2>8. QED
    BY <2>3, <2>5, <2>6, <2>7
<1>5. Buffer!Sum(payload) = 0
  <2>1. Lib!IsFiniteSet(Pids)
    BY PidsFinite
  <2>2. PICK f : f = payload
    OBVIOUS
  <2>3. Buffer!Sum(f) = Lib!SumOver(f, Pids)
    <3>1. DOMAIN f = Pids
      BY <1>1, <2>2
    <3>2. QED
      BY <3>1, BufferAmounts
  <2>4. \A p \in Pids : f[p] \in Nat /\ f[p] \in Int /\ ~(f[p] > 0)
    BY <1>1, <2>2
  <2>5. Lib!SumOver(f, Pids) \in Nat
    BY <2>1, <2>4, Lib!SumTyped
  <2>6. ~(Lib!SumOver(f, Pids) > 0)
    BY <2>1, <2>4, Lib!SumPositive
  <2>7. QED
    BY <2>2, <2>3, <2>5, <2>6
<1>6. QED
  BY <1>1, <1>3, <1>4, <1>5 DEF BytesInv, BytesBalance, Accounted

\* a discarded TB gives back its size: what it carried, and padding for the rest,
LEMMA UeFeedbackBytes ==
  ASSUME DataTypes, LoopInv, BytesInv, UeFeedback
  PROVE  BytesInv'
<1> PICK f : f = Head(phichCh)
  OBVIOUS
<1> PICK p : p = f.item.pid
  OBVIOUS
<1> DEFINE r == Ue!ApplyPhich(proc[p], f.item.ack)
           discarded == r.action.kind = "discard"
<1>1. /\ phichCh # <<>>
      /\ proc' = [proc EXCEPT ![p] = r.proc]
      /\ buf' = IF discarded THEN Buffer!Restore(buf, r.action.tb) ELSE buf
      /\ payload' = IF discarded THEN [payload EXCEPT ![p] = 0] ELSE payload
      /\ invented' = IF discarded THEN invented + r.action.tb - payload[p] ELSE invented
      /\ phichCh' = Tail(phichCh) /\ owed' = owed
  BY DEF UeFeedback, Channel!Visible
<1>2. f.item \in PhichItems /\ p \in Pids /\ PhichOf(p) = {f}
  BY <1>1, PhichTaken
<1>3. /\ proc \in [Pids -> UeProcesses] /\ payload \in [Pids -> Nat]
      /\ buf \in Buffers /\ BucketsFit(buf)
      /\ f.item.ack \in BOOLEAN /\ proc[p] \in UeProcesses /\ proc[p].tb \in Nat
      /\ owed \in Int /\ invented \in Nat /\ payload[p] \in Nat
      /\ Buffer!Total(buf) \in Nat /\ Buffer!Sum(payload) \in Nat
  <2>1. proc \in [Pids -> UeProcesses] /\ payload \in [Pids -> Nat]
    BY TypesBefore
  <2>2. Buffer!Total(buf) \in Nat /\ buf \in Buffers /\ BucketsFit(buf)
    BY TypesBefore, BufferTotals
  <2>3. Buffer!Sum(payload) \in Nat
    BY <1>2, <2>1, CarriedInAll
  <2>4. owed \in Int /\ invented \in Nat
    BY DEF DataTypes, StateTypes, BytesInv
  <2>5. proc[p] \in UeProcesses /\ proc[p].tb \in Nat /\ payload[p] \in Nat
    BY <1>2, <2>1 DEF UeProcesses
  <2>6. QED
    BY <1>2, <2>1, <2>2, <2>3, <2>4, <2>5 DEF PhichItems
<1>4. /\ r.action.kind = "discard" => r.action.tb = proc[p].tb
      /\ r.action.kind # "discard" => r.proc.tb = proc[p].tb
      /\ r.proc \in UeProcesses
  <2>1. Ue!InFlight(proc[p])
    BY <1>2, FeedbackOf
  <2>2. f.item.ack = TRUE \/ f.item.ack = FALSE
    BY <1>3
  <2>3. QED
    BY <1>3, <2>1, <2>2, PhichProcess
<1> HIDE DEF r
<1>5. \A o \in Pids : o # p => proc'[o] = proc[o] /\ payload'[o] = payload[o]
  BY <1>1, <1>3
<1>6. payload[p] <= proc[p].tb
  BY <1>2 DEF BytesInv, PayloadFits
<1>7. owed + invented = Buffer!Total(buf) + Buffer!Sum(payload)
  BY DEF BytesInv, BytesBalance, Accounted
<1>8. CASE discarded
  <2>1. Buffer!Total(buf') = Buffer!Total(buf) + proc[p].tb
    <3>1. /\ buf' \in Buffers
          /\ buf'.new = [buf.new EXCEPT ![Buffer!First(Channels)] = @ + proc[p].tb]
      BY <1>1, <1>3, <1>4, <1>8, BufferGrows
    <3>2. PICK c, n : c = Buffer!First(Channels) /\ n = proc[p].tb
      OBVIOUS
    <3>3. c \in Channels /\ n \in Nat /\ buf'.new = [buf.new EXCEPT ![c] = @ + n]
      BY <1>3, <3>1, <3>2, FirstChannel
    <3>4. buf \in Buffers /\ buf' \in Buffers
      BY <1>3, <3>1
    <3>5. Buffer!Total(buf') = Buffer!Total(buf) + n
      BY <3>3, <3>4, TotalRaised
    <3>6. QED
      BY <3>2, <3>5
  <2>2. Buffer!Sum(payload') = Buffer!Sum(payload) - payload[p]
    <3>1. Buffer!Sum([payload EXCEPT ![p] = 0]) = Buffer!Sum(payload) - payload[p] + 0
      <4>1. payload \in [Pids -> Nat] /\ p \in Pids /\ 0 \in Nat
        BY <1>2, <1>3
      <4>2. QED
        BY <4>1, CarriedInAll, ZenonT(60)
    <3>2. QED
      BY <1>1, <1>3, <1>8, <3>1
  <2>3. invented' = invented + proc[p].tb - payload[p]
    BY <1>1, <1>4, <1>8
  <2>4. invented' \in Nat
    BY <1>3, <1>6, <2>3
  <2>5. BytesBalance'
    <3>1. owed' + invented' = Buffer!Total(buf') + Buffer!Sum(payload')
      <4>1. owed' = owed /\ proc[p].tb \in Nat
        BY <1>1, <1>3
      <4>2. QED
        BY <1>3, <1>7, <2>1, <2>2, <2>3, <4>1
    <3>2. QED
      BY <3>1 DEF BytesBalance, Accounted
  <2>6. PayloadFits'
    <3>1. payload'[p] = 0 /\ proc'[p] = r.proc
      BY <1>1, <1>2, <1>3, <1>8
    <3>2. proc'[p].tb \in Nat
      BY <1>4, <3>1 DEF UeProcesses
    <3>3. payload'[p] <= proc'[p].tb
      BY <3>1, <3>2
    <3>4. QED
      BY <1>5, <3>3 DEF BytesInv, PayloadFits
  <2>7. QED
    BY <2>4, <2>5, <2>6 DEF BytesInv
<1>9. CASE ~discarded
  <2>1. UNCHANGED <<buf, payload, invented, owed>>
    BY <1>1, <1>9
  <2>2. proc'[p].tb = proc[p].tb
    BY <1>1, <1>2, <1>3, <1>4, <1>9
  <2>3. PayloadFits'
    BY <1>5, <1>6, <2>1, <2>2 DEF BytesInv, PayloadFits
  <2>4. QED
    BY <2>1, <2>3 DEF BytesInv, BytesBalance, Accounted
<1>10. QED
  BY <1>8, <1>9

\* what arrives is buffered and owed,
LEMMA UeDataArrivedBytes ==
  ASSUME DataTypes, BytesInv, UeDataArrived
  PROVE  BytesInv'
<1>1. UNCHANGED <<proc, payload, invented>>
  BY DEF UeDataArrived
<1>2. PICK c \in Channels, bytes \in ArrivalSizes :
        buf' = Buffer!Arrived(buf, c, bytes) /\ owed' = owed + bytes
  BY DEF UeDataArrived
<1>3. bytes \in Nat
  BY DataAssumption
<1>4. /\ buf' \in Buffers /\ buf'.new = [buf.new EXCEPT ![c] = @ + bytes]
  BY <1>2, <1>3, TypesBefore, BufferGrows
<1>5. Buffer!Total(buf') = Buffer!Total(buf) + bytes
  BY <1>3, <1>4, TypesBefore, TotalRaised
<1>6. /\ Buffer!Total(buf) \in Nat /\ Buffer!Sum(payload) \in Nat
      /\ owed \in Int /\ invented \in Nat
  <2>1. Buffer!Total(buf) \in Nat
    BY TypesBefore, BufferTotals
  <2>2. 0 \in Pids
    <3>1. NofProcesses \in Nat \ {0}
      BY DataAssumption
    <3>2. QED
      BY <3>1 DEF Pids
  <2>3. Buffer!Sum(payload) \in Nat
    BY <2>2, TypesBefore, CarriedInAll
  <2>4. QED
    BY <2>1, <2>3 DEF DataTypes, StateTypes, BytesInv
<1>7. owed + invented = Buffer!Total(buf) + Buffer!Sum(payload)
  BY DEF BytesInv, BytesBalance, Accounted
<1>8. owed' + invented' = Buffer!Total(buf') + Buffer!Sum(payload')
  BY <1>1, <1>2, <1>3, <1>5, <1>6, <1>7
<1>9. QED
  BY <1>1, <1>8 DEF BytesInv, PayloadFits, BytesBalance, Accounted

\* and a new TB takes from the buffers what it will carry.
LEMMA UeGrantBytes ==
  ASSUME DataTypes, LoopInv, BytesInv, UeGrant
  PROVE  BytesInv'
<1> PICK g : g = Head(grantCh).item
  OBVIOUS
<1> PICK p : p = g.pid
  OBVIOUS
<1> DEFINE h == Ue!NewGrantUl(proc[p], g, FALSE)
           isNew == h.action.kind = "new"
<1>1. /\ pc # "phich" /\ Channel!Visible(grantCh)
      /\ proc' = [proc EXCEPT ![p] = h.proc]
      /\ buf' = IF isNew THEN Buffer!Consume(buf, h.action.tb) ELSE buf
      /\ payload' = IF isNew THEN [payload EXCEPT ![p] =
                                     Buffer!Total(buf) - Buffer!Total(buf')]
                    ELSE payload
      /\ UNCHANGED <<owed, invented>>
  BY DEF UeGrant
<1>2. /\ g \in GrantItems /\ p \in Pids
      /\ h.proc \in UeProcesses /\ h.proc.tb = g.tb /\ h.action.tb = g.tb
      /\ \/ payload[p] = 0 /\ h.action.kind = "new"
         \/ proc[p].tb = g.tb /\ h.action.kind = "retx"
  BY <1>1, GrantUsed
<1> HIDE DEF h
<1>3. /\ proc \in [Pids -> UeProcesses] /\ payload \in [Pids -> Nat]
      /\ buf \in Buffers /\ BucketsFit(buf) /\ Buffer!Total(buf) \in Nat
      /\ Buffer!Sum(payload) \in Nat /\ g.tb \in Nat
      /\ owed \in Int /\ invented \in Nat
  <2>1. proc \in [Pids -> UeProcesses] /\ payload \in [Pids -> Nat]
    BY TypesBefore
  <2>2. Buffer!Total(buf) \in Nat /\ buf \in Buffers /\ BucketsFit(buf)
    BY TypesBefore, BufferTotals
  <2>3. Buffer!Sum(payload) \in Nat
    BY <1>2, <2>1, CarriedInAll
  <2>4. g.tb \in Nat
    BY <1>2, GrantFields
  <2>5. QED
    BY <2>1, <2>2, <2>3, <2>4 DEF DataTypes, StateTypes, BytesInv
<1>4. \A o \in Pids : o # p => proc'[o] = proc[o] /\ payload'[o] = payload[o]
  BY <1>1, <1>3
<1>5. proc'[p].tb = g.tb
  BY <1>1, <1>2, <1>3
<1>6. owed + invented = Buffer!Total(buf) + Buffer!Sum(payload)
  BY DEF BytesInv, BytesBalance, Accounted
<1>7. CASE isNew
  <2>1. PICK n : n = Buffer!Total(buf) - Buffer!Total(buf')
    OBVIOUS
  <2>2. n = Buffer!Lower(g.tb, Buffer!Total(buf)) /\ buf' \in Buffers
    BY <1>1, <1>2, <1>3, <1>7, <2>1, ConsumeTotal
  <2>3. n \in Nat /\ n <= g.tb
    BY <1>3, <2>2 DEF Buffer!Lower
  <2>4. payload' = [payload EXCEPT ![p] = n] /\ payload[p] = 0
    BY <1>1, <1>2, <1>7, <2>1
  <2>5. Buffer!Sum(payload') = Buffer!Sum(payload) + n
    <3>1. Buffer!Sum([payload EXCEPT ![p] = n]) = Buffer!Sum(payload) - payload[p] + n
      BY <1>2, <1>3, <2>3, CarriedInAll
    <3>2. QED
      BY <1>3, <2>3, <2>4, <3>1
  <2>6. Buffer!Total(buf') \in Nat
    BY <2>2, BufferTotals
  <2>7. owed' + invented' = Buffer!Total(buf') + Buffer!Sum(payload')
    BY <1>1, <1>3, <1>6, <2>1, <2>3, <2>5, <2>6
  <2>8. payload'[p] <= proc'[p].tb
    BY <1>2, <1>3, <1>5, <2>3, <2>4
  <2>9. PayloadFits'
    BY <1>4, <2>8 DEF BytesInv, PayloadFits
  <2>10. QED
    BY <1>1, <1>3, <2>7, <2>9 DEF BytesInv, BytesBalance, Accounted
<1>8. CASE ~isNew
  <2>1. UNCHANGED <<buf, payload>> /\ proc[p].tb = g.tb
    BY <1>1, <1>2, <1>8
  <2>2. PayloadFits'
    BY <1>4, <1>5, <2>1 DEF BytesInv, PayloadFits
  <2>3. QED
    BY <1>1, <2>1, <2>2 DEF BytesInv, BytesBalance, Accounted
<1>9. QED
  BY <1>7, <1>8

\* until the eNB has decoded it.
LEMMA EnbReceiveBytes ==
  ASSUME DataTypes, LoopInv, BytesInv, NEW crcOk \in BOOLEAN, EnbReceive(crcOk)
  PROVE  BytesInv'
<1> PICK m : m = Head(puschCh)
  OBVIOUS
<1> PICK p : p = m.item.grant.pid
  OBVIOUS
<1>1. /\ puschCh # <<>> /\ puschCh' = Tail(puschCh)
      /\ owed' = IF crcOk THEN owed - payload[p] ELSE owed
      /\ payload' = IF crcOk THEN [payload EXCEPT ![p] = 0] ELSE payload
      /\ UNCHANGED <<buf, proc, invented>>
  BY DEF EnbReceive, ueVars, Channel!Visible
<1>2. p \in Pids
  BY <1>1, PuschTaken
<1>3. /\ payload \in [Pids -> Nat] /\ payload[p] \in Nat
      /\ Buffer!Total(buf) \in Nat /\ Buffer!Sum(payload) \in Nat
      /\ owed \in Int /\ invented \in Nat
  <2>1. payload \in [Pids -> Nat]
    BY TypesBefore
  <2>2. Buffer!Total(buf) \in Nat
    BY TypesBefore, BufferTotals
  <2>3. Buffer!Sum(payload) \in Nat
    BY <1>2, <2>1, CarriedInAll
  <2>4. QED
    BY <1>2, <2>1, <2>2, <2>3 DEF DataTypes, StateTypes, BytesInv
<1>4. owed + invented = Buffer!Total(buf) + Buffer!Sum(payload)
  BY DEF BytesInv, BytesBalance, Accounted
<1>5. CASE crcOk
  <2>1. payload' = [payload EXCEPT ![p] = 0] /\ owed' = owed - payload[p]
    BY <1>1, <1>5
  <2>2. Buffer!Sum(payload') = Buffer!Sum(payload) - payload[p]
    <3>1. Buffer!Sum([payload EXCEPT ![p] = 0]) = Buffer!Sum(payload) - payload[p] + 0
      <4>1. payload \in [Pids -> Nat] /\ p \in Pids /\ 0 \in Nat
        BY <1>2, <1>3
      <4>2. QED
        BY <4>1, CarriedInAll, ZenonT(60)
    <3>2. QED
      BY <1>3, <2>1, <3>1
  <2>3. owed' + invented' = Buffer!Total(buf') + Buffer!Sum(payload')
    <3>1. Buffer!Total(buf') = Buffer!Total(buf) /\ invented' = invented
      BY <1>1
    <3>2. QED
      BY <1>3, <1>4, <2>1, <2>2, <3>1
  <2>4. PayloadFits'
    <3>1. ASSUME NEW o \in Pids PROVE payload'[o] <= proc'[o].tb
      <4>1. payload[o] \in Nat /\ payload[o] <= proc[o].tb /\ proc[o].tb \in Nat
        BY <1>3, TypesBefore DEF BytesInv, PayloadFits, UeProcesses
      <4>2. payload'[o] = 0 \/ payload'[o] = payload[o]
        BY <1>3, <2>1
      <4>3. QED
        BY <1>1, <4>1, <4>2
    <3>2. QED
      BY <3>1 DEF PayloadFits
  <2>5. QED
    BY <1>1, <1>3, <2>3, <2>4 DEF BytesInv, BytesBalance, Accounted
<1>6. CASE ~crcOk
  BY <1>1, <1>6, BalanceStays
<1>7. QED
  BY <1>5, <1>6

\* Every step keeps the balance.
LEMMA BytesPreserved ==
  ASSUME DataTypes, LoopInv, BytesInv, [Next]_vars
  PROVE  BytesInv'
<1>1. CASE UNCHANGED vars
  BY <1>1, BalanceStays DEF vars, ueVars, ghostVars
<1>2. CASE UeSnapshot \/ UeRunTti
  <2>1. UNCHANGED <<proc, owed, payload, invented>>
    BY <1>2 DEF UeSnapshot, UeRunTti, ghostVars
  <2>2. buf'.new = buf.new
    BY <1>2, TypesBefore, BufferGrows DEF UeSnapshot, UeRunTti
  <2>3. QED
    BY <2>1, <2>2, TotalOfNew, BalanceStays
<1>3. CASE UeGrantDone \/ EnbSr \/ EnbCqi \/ EnbSrDone \/ EnbSchedule \/ NextTti
  <2>1. UNCHANGED <<buf, proc, owed, payload, invented>>
    BY <1>3 DEF UeGrantDone, EnbSr, EnbCqi, EnbSrDone, EnbSchedule, NextTti, ueVars,
                ghostVars
  <2>2. QED
    BY <2>1, BalanceStays
<1>4. CASE UeFeedback
  BY <1>4, UeFeedbackBytes
<1>5. CASE UeDataArrived
  BY <1>5, UeDataArrivedBytes
<1>6. CASE UeGrant
  BY <1>6, UeGrantBytes
<1>7. CASE \E crcOk \in BOOLEAN : EnbReceive(crcOk)
  BY <1>7, EnbReceiveBytes
<1>8. QED
  BY <1>1, <1>2, <1>3, <1>4, <1>5, <1>6, <1>7 DEF Next
===========================================================================
