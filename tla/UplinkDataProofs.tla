------------------------- MODULE UplinkDataProofs -------------------------
(***************************************************************************)
(* The data of a UE is accounted for: DataInv holds in every behavior of   *)
(* UplinkData, and with it the properties that the bytes balance, that a   *)
(* retransmission has the size of the TB the UE holds, that a grant holds  *)
(* the demand it was made for, that a TB is filled by priority, that a     *)
(* report covers what the buffers hold, and that SR and Regular BSR go     *)
(* together.                                                               *)
(***************************************************************************)
EXTENDS UplinkDataInvariant
-----------------------------------------------------------------------------
(* The theorems                                                            *)

\* State, channels and the data behind an SR are in every behavior what the
\* types say.
THEOREM TypesHold == Spec => []DataTypes
<1>1. Init => DataTypes
  BY InitTypes
<1>2. DataTypes /\ [Next]_vars => DataTypes'
  BY TypesPreserved
<1>3. QED
  BY <1>1, <1>2, PTL DEF Spec

\* The scheduler never grants in the dark: while an SR is pending it knows what
\* the UE has (handle_sr takes the buffers that come with the SR, and only a
\* grant of a new TB, which answers the SR, drains the estimates).
THEOREM NoProbeHolds == Spec => []NoProbe
<1>1. DataTypes => NoProbe
  <2> SUFFICES ASSUME DataTypes, ctx.srPending PROVE Sched!TotalUlBuffer(ctx) > 0
    BY DEF NoProbe
  <2>1. ctx \in Contexts /\ \E l \in Lcgs : ctx.ulBuffer[l] > 0
    BY TypesBefore DEF DataTypes, SrHasData
  <2>2. QED
    BY <2>1, DemandTyped
<1>2. QED
  BY <1>1, TypesHold, PTL

\* The inductive invariant holds: what there is has its type, the two ends of
\* the HARQ loop agree, and the bytes balance.
THEOREM DataInvHolds == Spec => []DataInv
<1>1. DataInv <=> DataTypes /\ LoopInv /\ BytesInv
  BY DEF DataInv, BytesInv
<1>2. Init => DataInv
  BY <1>1, InitTypes, InitLoop, InitBytes
<1>3. DataInv /\ [Next]_vars => DataInv'
  <2> SUFFICES ASSUME DataInv, [Next]_vars PROVE DataInv'
    OBVIOUS
  <2>1. DataTypes' /\ LoopInv' /\ BytesInv'
    BY <1>1, TypesPreserved, LoopPreserved, BytesPreserved
  <2>2. QED
    BY <2>1 DEF DataInv, BytesInv
<1>4. QED
  BY <1>2, <1>3, PTL DEF Spec

\* Every part of the state has its type; only a busy process waits for a
\* retransmission, and a discarded TB gives back no less than it carried.
THEOREM TypesOK == Spec => []TypeOK
<1>1. DataInv => TypeOK
  <2> SUFFICES ASSUME DataInv PROVE TypeOK
    OBVIOUS
  <2>1. StateTypes /\ invented \in Nat
    BY DEF DataInv, DataTypes
  <2>2. \A p \in Pids : p \in ctx.pendingRetx => p \in ctx.busy
    BY DEF DataInv, LoopInv, Stage, IsFree, IsGranted, IsOnAir, IsDue, IsRepeated, OnPdcch
  <2>3. ctx.pendingRetx \subseteq Pids
    BY <2>1 DEF StateTypes, Contexts
  <2>4. QED
    BY <2>1, <2>2, <2>3 DEF TypeOK
<1>2. QED
  BY <1>1, DataInvHolds, PTL

\* No byte is lost or counted twice between the UE's buffers and the eNB.
THEOREM BytesBalanceHolds == Spec => []BytesBalance
<1>1. DataInv => BytesBalance
  BY DEF DataInv
<1>2. QED
  BY <1>1, DataInvHolds, PTL

\* A retransmission is granted in the size of the TB that the UE holds.
THEOREM TbIsLockedHolds == Spec => []TbIsLocked
<1>1. DataInv => TbIsLocked
  <2> SUFFICES ASSUME DataInv, pc = "grant", Channel!Visible(grantCh),
                      NEW g, g = Head(grantCh).item,
                      ~Ue!IsNewTx(proc[g.pid], g, FALSE)
               PROVE  g.tb = proc[g.pid].tb
    BY DEF TbIsLocked
  <2>1. DataTypes /\ LoopInv /\ pc # "phich"
    BY DEF DataInv
  <2>2. QED
    BY <2>1, GrantUsed
<1>2. QED
  BY <1>1, DataInvHolds, PTL
-----------------------------------------------------------------------------
(* Grants hold the demand                                                  *)

\* Dividing a product by 8 gives no less than the product of the quotient.
LEMMA QuotientOfProduct ==
  ASSUME NEW a \in Nat, NEW n \in Nat
  PROVE  (a * n) \div 8 >= n * (a \div 8)
<1>1. PICK k \in Nat, r \in Nat : k = a \div 8 /\ a = 8 * k + r
  <2>1. a \div 8 \in Nat /\ a - 8 * (a \div 8) \in Nat
    OBVIOUS
  <2>2. QED
    BY <2>1
<1>2. PICK m \in Nat, s \in Nat : m = n * k /\ s = n * r
  OBVIOUS
<1>3. a * n = 8 * m + s
  BY <1>1, <1>2
<1>4. (8 * m + s) \div 8 >= m
  OBVIOUS
<1>5. QED
  BY <1>1, <1>2, <1>3, <1>4

\* The PRBs that a demand needs, counted by what one of them carries, hold it, if
\* the band has them.
LEMMA NeededPrbsHold ==
  ASSUME NEW c \in Contexts
  PROVE  \/ Sched!NeededPrb(c) = TotalPrb
         \/ Sched!Tbs(c.mcs, Sched!NeededPrb(c)) >= Sched!TotalUlBuffer(c)
<1>1. PICK bits \in Nat : bits = Sched!BitsPerPrb(c.mcs) /\ bits >= 16
  <2>1. c.mcs \in 0 .. 28
    BY ContextFields
  <2>2. Sched!Anchors = Lib!Anchors /\ Sched!MaxMcs = Lib!MaxMcs
    BY DEF Sched!Anchors, Lib!Anchors, Sched!MaxMcs, Lib!MaxMcs
  <2>3. Sched!AnchorOf(c.mcs) = Lib!AnchorOf(c.mcs)
    BY <2>2 DEF Sched!AnchorOf, Lib!AnchorOf
  <2>4. Sched!BitsPerPrb(c.mcs) = Lib!BitsPerPrb(c.mcs)
    BY <2>2, <2>3 DEF Sched!BitsPerPrb, Lib!BitsPerPrb
  <2>5. QED
    BY <2>1, <2>4, Lib!BitsOfMcs
<1>2. PICK one : one = bits \div 8
  OBVIOUS
<1>3. one \in Nat \ {0}
  BY <1>1, <1>2
<1>4. Sched!Tbs(c.mcs, 1) = one /\ \A n : Sched!Tbs(c.mcs, n) = (bits * n) \div 8
  BY <1>1, <1>2 DEF Sched!Tbs
<1>5. PICK req \in Nat : req = Sched!Requested(c)
  BY DemandTyped DEF Sched!Requested, Sched!ProbeBytes
<1>6. Sched!TotalUlBuffer(c) \in Nat /\ Sched!TotalUlBuffer(c) <= req
  BY <1>5, DemandTyped DEF Sched!Requested, Sched!ProbeBytes
<1>7. PICK n : n = (req + one - 1) \div one
  OBVIOUS
<1>8. n \in Nat /\ one * n >= req
  <2>1. \A a \in Nat, b \in Nat \ {0} : a \div b \in Nat /\ b * (a \div b) > a - b
    OBVIOUS
  <2>2. req + one - 1 \in Nat
    BY <1>3
  <2>3. n \in Nat /\ one * n > (req + one - 1) - one
    BY <1>3, <1>7, <2>1, <2>2
  <2>4. one * n \in Nat
    BY <1>3, <2>3
  <2>5. QED
    BY <1>3, <2>3, <2>4
<1>9. Sched!NeededPrb(c) = Sched!Lower(n, TotalPrb)
  BY <1>4, <1>5, <1>7 DEF Sched!NeededPrb
<1>10. CASE Sched!NeededPrb(c) = TotalPrb
  BY <1>10
<1>11. CASE Sched!NeededPrb(c) = n
  <2>1. (bits * n) \div 8 >= n * one
    BY <1>2, <1>8, QuotientOfProduct
  <2>2. (bits * n) \div 8 \in Int /\ n * one = one * n /\ n * one \in Nat
    <3>1. bits * n \in Nat /\ n * one = one * n /\ n * one \in Nat
      BY <1>3, <1>8
    <3>2. QED
      BY <3>1
  <2>3. QED
    BY <1>4, <1>6, <1>8, <1>11, <2>1, <2>2
<1>12. QED
  BY <1>9, <1>10, <1>11 DEF Sched!Lower

\* A decision on a transmission makes no other process busy.
LEMMA EnbReceiveBusy ==
  ASSUME DataTypes, LoopInv, NEW crcOk \in BOOLEAN, EnbReceive(crcOk)
  PROVE  ctx'.busy \subseteq ctx.busy
<1> PICK m : m = Head(puschCh)
  OBVIOUS
<1> PICK p : p = m.item.grant.pid
  OBVIOUS
<1> DEFINE ce == Pdu!Unpack(m.item.pdu).bsr
           v == IF Bsr!HasReport(ce) THEN ViewAfter(ce) ELSE view
           r == Rx!ReceiveTb(rx[p], m.item.grant, m.item.tb, crcOk)
           c == IF Bsr!HasReport(ce) THEN Forwarded(ctx, v) ELSE ctx
<1>1. /\ puschCh # <<>> /\ puschCh' = Tail(puschCh)
      /\ ctx' = Sched!HandleUlCrc(c, p, r.crcOk \/ r.discarded)
  BY DEF EnbReceive, Channel!Visible
<1>2. p \in Pids /\ PuschOf(p) = {m}
  BY <1>1, PuschTaken
<1>3. p \in ctx.busy
  <2>1. Stage(p) /\ PuschOf(p) # {}
    BY <1>2 DEF LoopInv
  <2>2. QED
    BY <2>1 DEF Stage, IsFree, IsGranted, IsOnAir, IsDue, IsRepeated, OnPdcch,
                NothingOnAir
<1>4. \A d \in Contexts : \A l : [d EXCEPT !.ulBuffer = l].busy = d.busy
  BY DEF Contexts
<1>5. ctx \in Contexts
  BY TypesBefore
<1>6. c.busy = ctx.busy /\ \E l : c = [ctx EXCEPT !.ulBuffer = l]
  <2>1. ctx = [ctx EXCEPT !.ulBuffer = ctx.ulBuffer]
    BY <1>5 DEF Contexts
  <2> HIDE DEF ce, v
  <2>2. \E l : c = [ctx EXCEPT !.ulBuffer = l]
    BY <2>1 DEF Forwarded
  <2>3. QED
    BY <1>4, <1>5, <2>2
<1> HIDE DEF ce, v, r, c
<1>7. ctx'.busy \subseteq c.busy \union {p}
  <2>1. PICK done : done = (r.crcOk \/ r.discarded)
    OBVIOUS
  <2>2. PICK l : c = [ctx EXCEPT !.ulBuffer = l]
    BY <1>6
  <2>3. DOMAIN c = DOMAIN ctx /\ DOMAIN ctx =
          {"mcs", "srPending", "ulBuffer", "busy", "pendingRetx", "ndi", "harqTb",
           "samples", "granted"}
    BY <1>5, <2>2 DEF Contexts
  <2>4. CASE r.crcOk \/ r.discarded
    <3>1. ctx'.busy = c.busy \ {p}
      BY <1>1, <2>3, <2>4 DEF Sched!HandleUlCrc
    <3>2. QED
      BY <3>1
  <2>5. CASE ~(r.crcOk \/ r.discarded)
    <3>1. ctx'.busy = c.busy \union {p}
      BY <1>1, <2>3, <2>5 DEF Sched!HandleUlCrc
    <3>2. QED
      BY <3>1
  <2>6. QED
    BY <2>4, <2>5
<1>8. QED
  BY <1>3, <1>6, <1>7

\* A new TB holds all that the UE was known to have, or takes the whole band.
THEOREM GrantHoldsDemandHolds == Spec => GrantHoldsDemand
<1> DEFINE Holds ==
      \A p \in ctx'.busy \ ctx.busy :
        \/ ctx'.harqTb[p].tbs >= Sched!TotalUlBuffer(ctx)
        \/ ctx'.harqTb[p].nPrb = TotalPrb
<1>1. ASSUME DataInv, Next PROVE Holds
  <2>1. DataTypes /\ LoopInv
    BY <1>1 DEF DataInv
  <2>2. CASE EnbSchedule
    <3>1. CASE ctx' = ctx
      BY <3>1
    <3>2. ASSUME NEW p \in Pids, (p \in ctx.pendingRetx /\ Repeats(p)) \/ Starts(p)
          PROVE  Holds
      <4>1. CASE Repeats(p)
        BY <4>1 DEF Repeats
      <4>2. CASE Starts(p)
        <5>1. PICK tb \in TbRecords :
                /\ ctx'.harqTb = [ctx.harqTb EXCEPT ![p] = tb]
                /\ tb.nPrb = Sched!NeededPrb(ctx)
                /\ tb.tbs = Sched!Tbs(ctx.mcs, tb.nPrb)
          BY <4>2 DEF Starts
        <5>2. ctx \in Contexts /\ ctx.harqTb \in [Pids -> TbRecords]
          BY <2>1, TypesBefore, ContextFields
        <5>3. tb.nPrb = TotalPrb \/ tb.tbs >= Sched!TotalUlBuffer(ctx)
          BY <5>1, <5>2, NeededPrbsHold
        <5>4. ctx'.harqTb[p] = tb /\ ctx'.busy = ctx.busy \union {p}
          BY <3>2, <4>2, <5>1, <5>2 DEF Starts
        <5>5. QED
          BY <5>3, <5>4
      <4>3. QED
        BY <3>2, <4>1, <4>2
    <3>3. QED
      BY <2>1, <2>2, <3>1, <3>2, Scheduled
  <2>3. CASE \E crcOk \in BOOLEAN : EnbReceive(crcOk)
    BY <2>1, <2>3, EnbReceiveBusy
  <2>4. CASE EnbSr \/ EnbCqi
    <3>1. ctx'.busy = ctx.busy
      <4>1. CASE EnbSr
        <5>1. Channel!Visible(srCh) /\ ctx' = Sched!HandleSr(ctx, Head(srCh).item)
          BY <4>1 DEF EnbSr
        <5>2. Head(srCh).item \in SrItems /\ ctx \in Contexts
          BY <2>1, <5>1, TakenItem, TypesBefore DEF DataTypes, ChannelTypes
        <5>3. QED
          BY <5>1, <5>2, SrHandled
      <4>2. CASE EnbCqi
        <5>1. PICK cqi \in 0 .. 15 : ctx' = Sched!HandleCqi(ctx, cqi)
          BY <4>2, DataAssumption DEF EnbCqi
        <5>2. QED
          BY <2>1, <5>1, TypesBefore, CqiHandled
      <4>3. QED
        BY <2>4, <4>1, <4>2
    <3>2. QED
      BY <3>1
  <2>5. CASE \/ UeFeedback \/ UeSnapshot \/ UeDataArrived \/ UeRunTti
             \/ UeGrant \/ UeGrantDone \/ EnbSrDone \/ NextTti
    <3>1. ctx' = ctx
      BY <2>5 DEF UeFeedback, UeSnapshot, UeDataArrived, UeRunTti, UeGrant, UeGrantDone,
                  EnbSrDone, NextTti, enbVars
    <3>2. QED
      BY <3>1
  <2>6. QED
    BY <1>1, <2>2, <2>3, <2>4, <2>5 DEF Next
<1>2. DataInv /\ [Next]_vars => [Holds]_vars
  BY <1>1
<1>3. QED
  BY <1>2, DataInvHolds, PTL DEF Spec, GrantHoldsDemand
-----------------------------------------------------------------------------
(* Logical channel prioritisation                                          *)

\* Of no bytes, nothing is taken.
LEMMA TakesNothing ==
  ASSUME NEW f \in OfChannels
  PROVE  \A c \in Channels : Lib!Taken(f, 0)[c] = 0
<1> PICK n \in Nat : n = NofChannels
  BY ChannelSets
<1>1. Channels = 0 .. n - 1 /\ f \in [0 .. n - 1 -> Nat]
  BY DEF Channels, OfChannels
<1>2. \A c \in 0 .. n - 1 : Lib!Taken(f, 0)[c] = Lib!Lower(f[c], Lib!LeftFor(f, c, 0))
  BY <1>1, Lib!TakenTyped
<1>3. ASSUME NEW c \in Channels PROVE Lib!LeftFor(f, c, 0) = 0
  <2>1. PICK S : S = {j \in DOMAIN f : j < c}
    OBVIOUS
  <2>2. S \subseteq Channels /\ \A j \in S : f[j] \in Nat /\ f[j] \in Int
    BY <2>1 DEF OfChannels
  <2>3. Lib!IsFiniteSet(S)
    BY <2>2, ChannelSets
  <2>4. Lib!SumOver(f, S) \in Nat
    BY <2>2, <2>3, Lib!SumTyped
  <2>5. Lib!SumFunctionOnSet(f, S) = Lib!SumOver(f, S)
    BY DEF Lib!SumFunctionOnSet, Lib!FoldFunctionOnSet, Lib!MapThenFoldSet,
           Lib!SumOver, Lib!IsSum
  <2>6. Lib!LeftFor(f, c, 0) = Lib!Higher(0, 0 - Lib!SumFunctionOnSet(f, S))
    BY <2>1 DEF Lib!LeftFor
  <2>7. QED
    BY <2>4, <2>5, <2>6 DEF Lib!Higher
<1>4. \A c \in Channels : f[c] \in Nat
  BY DEF OfChannels
<1>5. QED
  BY <1>1, <1>2, <1>3, <1>4 DEF Lib!Lower

\* A TB serves the channels by their tokens first, then by their priority, and
\* has room left only when there is nothing more to send.
LEMMA ConsumeInOrder ==
  ASSUME NEW b \in Buffers, BucketsFit(b), NEW bytes \in Nat,
         NEW d, d = Buffer!Consume(b, bytes)
  PROVE  /\ \A c \in Channels :
              b.tokens[c] - d.tokens[c] =
                Buffer!Lower(b.new[c] - d.new[c], b.tokens[c])
         /\ \A c \in Channels :
              b.new[c] - d.new[c] > Buffer!Lower(b.tokens[c], b.new[c]) =>
                /\ \A e \in Channels :
                     b.new[e] - d.new[e] >= Buffer!Lower(b.tokens[e], b.new[e])
                /\ \A e \in Channels : e < c => d.new[e] = 0
         /\ Buffer!Total(b) - Buffer!Total(d) <= bytes
         /\ Buffer!Total(b) - Buffer!Total(d) < bytes => Buffer!WithData(d) = {}
<1>1. /\ d \in Buffers
      /\ Buffer!Total(b) - Buffer!Total(d) = Buffer!Lower(bytes, Buffer!Total(b))
      /\ Buffer!Total(b) \in Nat /\ Buffer!Total(d) \in Nat
      /\ \A c \in Channels : b.new[c] \in Nat /\ d.new[c] \in Nat /\ b.tokens[c] \in Nat
  <2>1. /\ d \in Buffers
        /\ Buffer!Total(b) - Buffer!Total(d) = Buffer!Lower(bytes, Buffer!Total(b))
    BY ConsumeTotal
  <2>2. /\ Buffer!Total(b) \in Nat /\ Buffer!Total(d) \in Nat
        /\ \A c \in Channels : b.new[c] \in Nat /\ d.new[c] \in Nat
    BY <2>1, BufferTotals
  <2>3. \A c \in Channels : b.tokens[c] \in Nat
    BY DEF Buffers, OfChannels
  <2>4. QED
    BY <2>1, <2>2, <2>3
<1>2. /\ Buffer!Total(b) - Buffer!Total(d) <= bytes
      /\ Buffer!Total(b) - Buffer!Total(d) < bytes => Buffer!WithData(d) = {}
  <2>1. Buffer!Total(b) - Buffer!Total(d) <= bytes
    BY <1>1 DEF Buffer!Lower
  <2>2. ASSUME Buffer!Total(b) - Buffer!Total(d) < bytes PROVE Buffer!WithData(d) = {}
    <3>1. Buffer!Total(d) = 0
      BY <1>1, <2>2 DEF Buffer!Lower
    <3>2. PICK f : f = d.new
      OBVIOUS
    <3>3. Lib!SumOver(f, Channels) = 0 /\ \A c \in Channels : f[c] \in Nat
      BY <1>1, <3>1, <3>2, BufferTotals
    <3>4. \A c \in Channels : ~(f[c] > 0)
      <4>1. Lib!IsFiniteSet(Channels)
        BY ChannelSets
      <4>2. Lib!SumOver(f, Channels) > 0 <=> \E c \in Channels : f[c] > 0
        BY <3>3, <4>1, Lib!SumPositive
      <4>3. QED
        BY <3>3, <4>2
    <3>5. QED
      BY <1>1, <3>2, <3>4, BufferTotals
  <2>3. QED
    BY <2>1, <2>2
<1> DEFINE x == Buffer!Consume(b, bytes)
           entitled == [c \in Channels |-> Buffer!Lower(b.tokens[c], b.new[c])]
<1>3. PICK first \in OfChannels, second \in OfChannels :
        LET left     == bytes - Lib!SumOver(first, Channels)
            rest     == [c \in Channels |-> b.new[c] - first[c]]
        IN  /\ first = Lib!Taken(entitled, bytes)
            /\ entitled \in OfChannels
            /\ rest \in OfChannels /\ left \in Nat
            /\ second = Lib!Taken(rest, left)
            /\ \A c \in Channels :
                 /\ first[c] <= entitled[c] /\ second[c] <= rest[c]
                 /\ x.tokens[c] = b.tokens[c] - first[c]
                 /\ x.new[c] = b.new[c] - (first[c] + second[c])
  BY ConsumeStep
<1>4. x = d
  OBVIOUS
<1> HIDE DEF x
<1> DEFINE rest == [c \in Channels |-> b.new[c] - first[c]]
           left == bytes - Lib!SumOver(first, Channels)
<1>5. /\ rest \in OfChannels /\ left \in Nat /\ entitled \in OfChannels
      /\ first = Lib!Taken(entitled, bytes) /\ second = Lib!Taken(rest, left)
  BY <1>3
<1>6. \A c \in Channels :
        /\ rest[c] = b.new[c] - first[c]
        /\ entitled[c] = Buffer!Lower(b.tokens[c], b.new[c])
  OBVIOUS
<1>7. \A c \in Channels :
        /\ first[c] \in Nat /\ second[c] \in Nat /\ entitled[c] \in Nat
        /\ first[c] <= entitled[c] /\ second[c] <= rest[c]
        /\ d.tokens[c] = b.tokens[c] - first[c]
        /\ d.new[c] = b.new[c] - (first[c] + second[c])
  BY <1>3, <1>4 DEF OfChannels
<1>8. left = bytes - Lib!SumOver(first, Channels)
  OBVIOUS
<1>9. /\ NofChannels \in Nat /\ Channels = 0 .. NofChannels - 1
      /\ OfChannels = [0 .. NofChannels - 1 -> Nat]
  BY ChannelSets DEF Channels, OfChannels
<1>10. Lib!SumOver(first, Channels) \in Nat
  <2>1. Lib!IsFiniteSet(Channels)
    BY ChannelSets
  <2>2. \A c \in Channels : first[c] \in Nat /\ first[c] \in Int
    BY <1>7
  <2>3. QED
    BY <2>1, <2>2, Lib!SumTyped
<1> HIDE DEF entitled, rest, left
<1>11. CASE left = 0
  <2>1. \A c \in Channels : second[c] = 0
    <3>1. second = Lib!Taken(rest, 0)
      BY <1>5, <1>11
    <3>2. QED
      BY <1>5, <3>1, TakesNothing
  <2>2. \A c \in Channels :
          /\ b.new[c] - d.new[c] = first[c] /\ b.tokens[c] - d.tokens[c] = first[c]
          /\ first[c] <= b.tokens[c] /\ first[c] <= Buffer!Lower(b.tokens[c], b.new[c])
    BY <1>1, <1>6, <1>7, <2>1 DEF Buffer!Lower
  <2>3. \A c \in Channels : Buffer!Lower(b.tokens[c], b.new[c]) \in Nat
    BY <1>1 DEF Buffer!Lower
  <2>4. \A c \in Channels : ~(b.new[c] - d.new[c] > Buffer!Lower(b.tokens[c], b.new[c]))
    BY <1>7, <2>2, <2>3
  <2>5. \A c \in Channels : b.tokens[c] - d.tokens[c] =
                              Buffer!Lower(b.new[c] - d.new[c], b.tokens[c])
    BY <1>1, <1>7, <2>2 DEF Buffer!Lower
  <2>6. QED
    BY <1>2, <2>4, <2>5
<1>12. CASE left > 0
  <2>1. \A c \in Channels : first[c] = entitled[c]
    <3>1. Lib!SumOver(first, Channels) < bytes
      BY <1>8, <1>10, <1>12
    <3>2. entitled \in [0 .. NofChannels - 1 -> Nat]
      BY <1>5, <1>9
    <3>3. Lib!SumOver(Lib!Taken(entitled, bytes), 0 .. NofChannels - 1) < bytes
      BY <1>5, <1>9, <3>1
    <3>4. \A c \in 0 .. NofChannels - 1 : Lib!Taken(entitled, bytes)[c] = entitled[c]
      BY <1>9, <3>2, <3>3, Lib!TakenAll
    <3>5. QED
      BY <1>5, <1>9, <3>4
  <2>2. \A c \in Channels : b.tokens[c] - d.tokens[c] =
                              Buffer!Lower(b.new[c] - d.new[c], b.tokens[c])
    BY <1>1, <1>6, <1>7, <2>1 DEF Buffer!Lower
  <2>3. \A c \in Channels : b.new[c] - d.new[c] = entitled[c] + second[c]
    BY <1>1, <1>7, <2>1
  <2>4. \A c \in Channels : b.new[c] - d.new[c] >= Buffer!Lower(b.tokens[c], b.new[c])
    BY <1>6, <1>7, <2>3
  <2>5. ASSUME NEW c \in Channels, NEW e \in Channels, e < c,
               b.new[c] - d.new[c] > Buffer!Lower(b.tokens[c], b.new[c])
        PROVE  d.new[e] = 0
    <3>1. second[c] > 0
      BY <1>6, <1>7, <2>3, <2>5
    <3>2. second[e] = rest[e]
      <4>1. rest \in [0 .. NofChannels - 1 -> Nat] /\ c \in 0 .. NofChannels - 1
            /\ e \in 0 .. NofChannels - 1 /\ Lib!Taken(rest, left)[c] > 0
        BY <1>5, <1>9, <3>1
      <4>2. Lib!Taken(rest, left)[e] = rest[e]
        BY <1>5, <1>9, <2>5, <4>1, Lib!TakenInOrder
      <4>3. QED
        BY <1>5, <4>2
    <3>3. QED
      BY <1>1, <1>6, <1>7, <3>2
  <2>6. QED
    BY <1>2, <2>2, <2>4, <2>5
<1>13. QED
  BY <1>5, <1>11, <1>12

\* Every TB that takes bytes from the buffers honours the prioritisation.
THEOREM LcpHolds == Spec => LcpHonoured
<1> DEFINE Lcp ==
      \A p \in Pids : payload'[p] > payload[p] =>
        LET took(c)     == buf.new[c] - buf'.new[c]
            entitled(c) == Buffer!Lower(buf.tokens[c], buf.new[c])
            beyond      == {c \in Channels : took(c) > entitled(c)}
        IN  /\ \A c \in Channels : buf.tokens[c] - buf'.tokens[c] =
                                     Buffer!Lower(took(c), buf.tokens[c])
            /\ beyond # {} => \A c \in Channels : took(c) >= entitled(c)
            /\ \A c \in beyond, d \in Channels : d < c => buf'.new[d] = 0
            /\ payload'[p] <= proc'[p].tb
            /\ payload'[p] < proc'[p].tb => Buffer!WithData(buf') = {}
<1>1. ASSUME DataInv, Next PROVE Lcp
  <2>1. /\ DataTypes /\ LoopInv /\ payload \in [Pids -> Nat]
        /\ proc \in [Pids -> UeProcesses]
        /\ buf \in Buffers /\ BucketsFit(buf)
    BY <1>1, TypesBefore DEF DataInv
  <2>2. CASE UeGrant
    <3> PICK g : g = Head(grantCh).item
      OBVIOUS
    <3> PICK p : p = g.pid
      OBVIOUS
    <3> DEFINE h == Ue!NewGrantUl(proc[p], g, FALSE)
               isNew == h.action.kind = "new"
    <3>1. /\ pc # "phich" /\ Channel!Visible(grantCh)
          /\ proc' = [proc EXCEPT ![p] = h.proc]
          /\ buf' = IF isNew THEN Buffer!Consume(buf, h.action.tb) ELSE buf
          /\ payload' = IF isNew THEN [payload EXCEPT ![p] =
                                         Buffer!Total(buf) - Buffer!Total(buf')]
                        ELSE payload
      BY <2>2 DEF UeGrant
    <3>2. /\ g \in GrantItems /\ p \in Pids
          /\ h.proc.tb = g.tb /\ h.action.tb = g.tb
      BY <2>1, <3>1, GrantUsed
    <3> HIDE DEF h
    <3>3. proc'[p].tb = g.tb /\ g.tb \in Nat
      BY <2>1, <3>1, <3>2, GrantFields
    <3>4. CASE ~isNew
      BY <2>1, <3>1, <3>4
    <3>5. CASE isNew
      <4>1. buf' = Buffer!Consume(buf, g.tb)
        BY <3>1, <3>2, <3>5
      <4>2. /\ payload'[p] = Buffer!Total(buf) - Buffer!Total(buf')
            /\ \A o \in Pids : o # p => payload'[o] = payload[o]
        BY <2>1, <3>1, <3>2, <3>5
      <4>3. /\ \A c \in Channels :
                 buf.tokens[c] - buf'.tokens[c] =
                   Buffer!Lower(buf.new[c] - buf'.new[c], buf.tokens[c])
            /\ \A c \in Channels :
                 buf.new[c] - buf'.new[c] > Buffer!Lower(buf.tokens[c], buf.new[c]) =>
                   /\ \A e \in Channels :
                        buf.new[e] - buf'.new[e] >= Buffer!Lower(buf.tokens[e], buf.new[e])
                   /\ \A e \in Channels : e < c => buf'.new[e] = 0
            /\ Buffer!Total(buf) - Buffer!Total(buf') <= g.tb
            /\ Buffer!Total(buf) - Buffer!Total(buf') < g.tb => Buffer!WithData(buf') = {}
        BY <2>1, <3>3, <4>1, ConsumeInOrder
      <4>4. ASSUME NEW o \in Pids, payload'[o] > payload[o]
            PROVE  o = p
        BY <2>1, <4>2, <4>4
      <4>5. payload'[p] <= proc'[p].tb
            /\ (payload'[p] < proc'[p].tb => Buffer!WithData(buf') = {})
        BY <3>3, <4>2, <4>3
      <4>6. QED
        BY <4>3, <4>4, <4>5
    <3>6. QED
      BY <3>4, <3>5
  <2>3. CASE ~UeGrant
    <3>1. \A p \in Pids : ~(payload'[p] > payload[p])
      <4>1. CASE UeFeedback
        <5>1. \/ payload' = payload
              \/ payload' = [payload EXCEPT ![Head(phichCh).item.pid] = 0]
          BY <4>1 DEF UeFeedback
        <5>2. QED
          BY <2>1, <5>1
      <4>2. CASE \E crcOk \in BOOLEAN : EnbReceive(crcOk)
        <5>1. \/ payload' = payload
              \/ payload' = [payload EXCEPT ![Head(puschCh).item.grant.pid] = 0]
          BY <4>2 DEF EnbReceive
        <5>2. QED
          BY <2>1, <5>1
      <4>3. CASE \/ UeSnapshot \/ UeDataArrived \/ UeRunTti \/ UeGrantDone
                 \/ EnbSr \/ EnbCqi \/ EnbSrDone \/ EnbSchedule \/ NextTti
        <5>1. payload' = payload
          BY <4>3 DEF UeSnapshot, UeDataArrived, UeRunTti, UeGrantDone, EnbSr, EnbCqi,
                      EnbSrDone, EnbSchedule, NextTti, ghostVars
        <5>2. QED
          BY <2>1, <5>1
      <4>4. QED
        BY <1>1, <2>3, <4>1, <4>2, <4>3 DEF Next
    <3>2. QED
      BY <3>1
  <2>4. QED
    BY <2>2, <2>3
<1>2. DataInv /\ [Next]_vars => [Lcp]_vars
  BY <1>1
<1>3. QED
  BY <1>2, DataInvHolds, PTL DEF Spec, LcpHonoured
-----------------------------------------------------------------------------
(* Reports grant the demand                                                *)

\* The levels do not fall.
LEMMA LevelsRise ==
  \A j \in 0 .. 63 : \A i \in 0 .. j : Table!IndexToBytes(i) <= Table!IndexToBytes(j)
<1> DEFINE B(i) == Table!IndexToBytes(i)
           K == {j \in 0 .. 63 : \A i \in 0 .. j : B(i) <= B(j)}
<1>1. \A i \in 0 .. 62 : B(i) <= B(i + 1)
  <2>1. \A i \in 1 .. 63 : Table!SizeTable[i] <= Table!SizeTable[i + 1]
    BY DEF Table!SizeTable
  <2>2. \A i \in 0 .. 63 : B(i) = Table!SizeTable[i + 1]
    BY DEF Table!IndexToBytes, Table!MaxIndex
  <2> HIDE DEF B
  <2>3. ASSUME NEW i \in 0 .. 62 PROVE B(i) <= B(i + 1)
    <3>1. i + 1 \in 1 .. 63 /\ i \in 0 .. 63 /\ i + 1 \in 0 .. 63
      OBVIOUS
    <3>2. QED
      BY <2>1, <2>2, <3>1
  <2>4. QED
    BY <2>3
<1>2. \A i \in 0 .. 63 : B(i) \in Nat
  BY Levels
<1> HIDE DEF B
<1>3. 0 \in K
  BY <1>2
<1>4. ASSUME NEW k \in Nat, k < 63, k \in K PROVE k + 1 \in K
  <2>1. k \in 0 .. 62 /\ B(k) <= B(k + 1) /\ B(k) \in Nat /\ B(k + 1) \in Nat
    BY <1>1, <1>2, <1>4
  <2>2. ASSUME NEW i \in 0 .. k + 1 PROVE B(i) <= B(k + 1)
    <3>1. CASE i = k + 1
      BY <2>1, <3>1
    <3>2. CASE i # k + 1
      <4>1. i \in 0 .. k /\ i \in 0 .. 63
        BY <2>1, <3>2
      <4>2. B(i) <= B(k) /\ B(i) \in Nat
        BY <1>2, <1>4, <4>1
      <4>3. QED
        BY <2>1, <4>2
    <3>3. QED
      BY <3>1, <3>2
  <2>3. QED
    BY <2>1, <2>2
<1>5. \A j \in 0 .. 63 : j \in K
  <2> HIDE DEF K
  <2>1. QED
    BY <1>3, <1>4, Lib!InductionUpTo
<1>6. QED
  BY <1>5 DEF B

\* The level of an amount holds it, up to the last level, and no lower one does;
\* a level is its own.
LEMMA LevelOfBytes ==
  ASSUME NEW n \in Nat
  PROVE  LET i == Table!BytesToIndex(n)
         IN  /\ i \in 0 .. 63
             /\ Table!IndexToBytes(i) >= Buffer!Lower(n, Table!IndexToBytes(63))
             /\ \A j \in 0 .. 63 : Table!IndexToBytes(j) < Table!IndexToBytes(i) =>
                                     Table!IndexToBytes(j) < n
             /\ \A j \in 0 .. 63 : n = Table!IndexToBytes(j) => Table!IndexToBytes(i) = n
<1> DEFINE B(j) == Table!IndexToBytes(j)
           i == Table!BytesToIndex(n)
           levels == {j \in 0 .. 63 : n <= B(j)}
<1>1. i = IF levels = {} THEN 63 ELSE CHOOSE j \in levels : \A k \in levels : j <= k
  BY DEF Table!BytesToIndex, Table!MaxIndex
<1>2. \A j \in 0 .. 63 : B(j) \in Nat
  BY Levels
<1>3. \A j \in 0 .. 63 : \A k \in 0 .. j : B(k) <= B(j)
  BY LevelsRise
<1> HIDE DEF B, i
<1>4. \A j \in 0 .. 63 : j \in levels <=> n <= B(j)
  OBVIOUS
<1>5. levels \in SUBSET Nat /\ \A j \in levels : j \in 0 .. 63
  OBVIOUS
<1> HIDE DEF levels
<1>6. CASE levels = {}
  <2>1. i = 63 /\ 63 \in 0 .. 63
    BY <1>1, <1>6
  <2>2. \A j \in 0 .. 63 : B(j) < n
    BY <1>2, <1>4, <1>6
  <2>3. B(63) >= Buffer!Lower(n, B(63))
    BY <1>2, <2>1 DEF Buffer!Lower
  <2>4. \A j \in 0 .. 63 : n # B(j)
    BY <1>2, <2>2
  <2>5. QED
    BY <2>1, <2>2, <2>3, <2>4 DEF i, B
<1>7. CASE levels # {}
  <2>1. i \in levels /\ \A k \in levels : i <= k
    <3>1. \E j \in levels : \A k \in levels : j <= k
      BY <1>5, <1>7, Lib!LeastNatural
    <3>2. QED
      BY <1>1, <1>7, <3>1
  <2>2. i \in 0 .. 63 /\ n <= B(i) /\ B(i) \in Nat
    BY <1>2, <1>4, <1>5, <2>1
  <2>3. B(i) >= Buffer!Lower(n, B(63))
    BY <1>2, <2>2 DEF Buffer!Lower
  <2>4. ASSUME NEW j \in 0 .. 63, B(j) < B(i) PROVE B(j) < n
    <3>1. ~(i <= j)
      <4>1. i <= j => i \in 0 .. j
        BY <2>2
      <4>2. i <= j => B(i) <= B(j)
        BY <1>3, <4>1
      <4>3. B(j) \in Nat
        BY <1>2
      <4>4. QED
        BY <2>2, <2>4, <4>2, <4>3
    <3>2. j \notin levels
      BY <2>1, <3>1
    <3>3. QED
      BY <1>2, <1>4, <3>2
  <2>5. ASSUME NEW j \in 0 .. 63, n = B(j) PROVE B(i) = n
    <3>1. j \in levels
      BY <1>2, <1>4, <2>5
    <3>2. i <= j
      BY <2>1, <3>1
    <3>3. i \in 0 .. j
      BY <2>2, <3>2
    <3>4. B(i) <= B(j)
      BY <1>3, <3>3
    <3>5. QED
      BY <2>2, <2>5, <3>4
  <2>6. QED
    BY <2>2, <2>3, <2>4, <2>5 DEF i, B
<1>8. QED
  BY <1>6, <1>7

\* What a report says of an LCG is the level of what its channels hold.
Says(ce) ==
  \A l \in DOMAIN ce.reports :
    l \in Lcgs /\ ce.reports[l] = Table!BytesToIndex(Buffer!OfLcg(buf.new, l))

\* The report of a grant is of that kind.
LEMMA ReportSays ==
  ASSUME buf \in Buffers, NEW size
  PROVE  Says(Report(size).ce)
<1>1. Says(Bsr!NoReport)
  BY DEF Says, Bsr!NoReport
<1>2. ASSUME NEW b, NEW n PROVE Says(Bsr!Generate(b, buf, n).ce)
  <2> DEFINE f == Bsr!Format(b.trigger, n, Bsr!Cardinality(Bsr!Buffer!WithData(buf)))
             R == [l \in Bsr!Reported(f, buf) |->
                     Table!BytesToIndex(Buffer!OfLcg(buf.new, l))]
  <2>1. Bsr!Generate(b, buf, n).ce \in {Bsr!NoReport, [format |-> f, reports |-> R]}
    BY SameBuffer DEF Bsr!Generate
  <2>2. Bsr!Reported(f, buf) \subseteq Lcgs
    BY ReportedLcgs
  <2> HIDE DEF f
  <2>3. Says([format |-> f, reports |-> R])
    BY <2>2 DEF Says
  <2> HIDE DEF R
  <2>4. QED
    BY <1>1, <2>1, <2>3
<1>3. Says(Bsr!OnGrant(bsr, buf, size).ce)
  BY <1>1, <1>2 DEF Bsr!OnGrant
<1>4. \A b, n : Says(Bsr!GeneratePadding(b, buf, n).ce)
  BY <1>1, <1>2 DEF Bsr!GeneratePadding
<1>5. QED
  BY <1>3, <1>4 DEF Report

\* A report grants what the LCGs that it names hold, and little more.
THEOREM ReportCoversHolds == Spec => []ReportCovers
<1>1. DataTypes => ReportCovers
  <2> SUFFICES ASSUME DataTypes PROVE ReportCovers
    OBVIOUS
  <2> DEFINE ce     == Report(Head(grantCh).item.tb).ce
             v      == ViewAfter(ce)
             demand == Forwarded(Sched!NewContext, v).ulBuffer
             B(i)   == Table!IndexToBytes(i)
  <2>1. buf \in Buffers
    BY TypesBefore
  <2>2. ASSUME NEW l \in DOMAIN ce.reports
        PROVE  /\ demand[l] >= Buffer!Lower(Buffer!LcgSizes(buf)[l], B(63))
               /\ \A i \in 0 .. 63 : B(i) < demand[l] =>
                                       B(i) < Buffer!LcgSizes(buf)[l]
    <3>1. l \in Lcgs /\ ce.reports[l] = Table!BytesToIndex(Buffer!OfLcg(buf.new, l))
      <4>1. Says(ce)
        BY <2>1, ReportSays
      <4> HIDE DEF ce
      <4>2. QED
        BY <2>2, <4>1 DEF Says
    <3> HIDE DEF ce
    <3>2. PICK n \in Nat : n = Buffer!OfLcg(buf.new, l)
      <4>1. buf.new \in OfChannels
        BY <2>1 DEF Buffers
      <4>2. QED
        BY <4>1, LcgAmount
    <3>3. Buffer!LcgSizes(buf)[l] = n
      BY <3>1, <3>2 DEF Buffer!LcgSizes
    <3>4. PICK k : k = Table!BytesToIndex(n)
      OBVIOUS
    <3>5. /\ k \in 0 .. 63 /\ B(k) >= Buffer!Lower(n, B(63))
          /\ \A i \in 0 .. 63 : B(i) < B(k) => B(i) < n
      BY <3>4, LevelOfBytes
    <3>6. v[l] = B(k)
      BY <2>2, <3>1, <3>2, <3>4 DEF ViewAfter
    <3>7. demand[l] = IF v[l] > 0 THEN B(Table!BytesToIndex(v[l])) ELSE 0
      <4> HIDE DEF v
      <4>1. PICK u : u = [m \in Lcgs |->
                            IF v[m] > 0 THEN B(Table!BytesToIndex(v[m]))
                            ELSE Sched!NewContext.ulBuffer[m]]
        OBVIOUS
      <4>2. demand = u
        BY <4>1 DEF Forwarded, Sched!NewContext
      <4>3. Sched!NewContext.ulBuffer[l] = 0
        BY <3>1 DEF Sched!NewContext
      <4> HIDE DEF demand, B
      <4>4. QED
        BY <3>1, <4>1, <4>2, <4>3
    <3>8. B(k) \in Nat /\ B(Table!BytesToIndex(B(k))) = B(k)
      <4>1. B(k) \in Nat
        BY <3>5, Levels
      <4>2. PICK m \in Nat : m = B(k)
        BY <4>1
      <4>3. B(Table!BytesToIndex(m)) = m
        BY <3>5, <4>2, LevelOfBytes
      <4>4. QED
        BY <4>2, <4>3
    <3> HIDE DEF v, demand, B
    <3>9. demand[l] = B(k)
      BY <3>6, <3>7, <3>8
    <3>10. QED
      BY <3>3, <3>5, <3>9
  <2> HIDE DEF B, ce, demand
  <2>3. \A l \in DOMAIN ce.reports :
          /\ demand[l] >= Buffer!Lower(Buffer!LcgSizes(buf)[l], B(63))
          /\ \A i \in 0 .. 63 : B(i) < demand[l] => B(i) < Buffer!LcgSizes(buf)[l]
    BY <2>2
  <2>4. QED
    BY <2>3 DEF ReportCovers, B, ce, demand
<1>2. QED
  BY <1>1, TypesHold, PTL
-----------------------------------------------------------------------------
(* The SR and its reason                                                   *)

\* An SR is pending only while a Regular BSR is triggered.
SrHasReason == sr.state = "PENDING" => bsr.trigger = "REGULAR"

\* The step of the BSR procedure keeps a Regular trigger, and starts an SR only
\* with one.
LEMMA RegularStays ==
  ASSUME NEW b \in BsrProcedures, NEW u, NEW grant
  PROVE  LET r == Bsr!Step(b, u, grant)
         IN  b.trigger = "REGULAR" \/ r.startSr => r.bsr.trigger = "REGULAR"
<1> DEFINE counted == Bsr!CountDown(b)
           periodic == Bsr!PeriodicExpiry(counted)
           retx == Bsr!RetxExpiry(periodic, u, grant)
           Kept(r) == b.trigger = "REGULAR" \/ r.startSr => r.bsr.trigger = "REGULAR"
<1>1. DOMAIN counted = DOMAIN b /\ counted.trigger = b.trigger /\ "trigger" \in DOMAIN b
  BY DEF Bsr!CountDown, BsrProcedures
<1> HIDE DEF counted
<1>2. /\ DOMAIN periodic = DOMAIN b
      /\ b.trigger = "REGULAR" => periodic.trigger = "REGULAR"
  BY <1>1 DEF Bsr!PeriodicExpiry
<1> HIDE DEF periodic
<1>3. \A r : /\ DOMAIN r.bsr = DOMAIN b => Bsr!Regular(r, grant).bsr.trigger = "REGULAR"
  BY <1>1 DEF Bsr!Regular
<1>4. Kept(retx) /\ DOMAIN retx.bsr = DOMAIN b
  <2> DEFINE expired == periodic.retxOn /\ periodic.retx = 0
             r == [bsr |-> IF expired THEN [periodic EXCEPT !.retx = RetxTimer] ELSE periodic,
                   startSr |-> FALSE]
  <2>1. r.startSr = FALSE /\ DOMAIN r.bsr = DOMAIN b /\ r.bsr.trigger = periodic.trigger
    BY <1>1, <1>2
  <2>2. retx = IF expired /\ Bsr!Buffer!WithData(u) # {} THEN Bsr!Regular(r, grant) ELSE r
    BY DEF Bsr!RetxExpiry
  <2> HIDE DEF r, expired
  <2>3. \A x : DOMAIN Bsr!Regular(x, grant).bsr = DOMAIN x.bsr
    BY DEF Bsr!Regular
  <2>4. QED
    BY <1>2, <1>3, <2>1, <2>2, <2>3
<1> HIDE DEF retx
<1>5. Bsr!Step(b, u, grant) = IF Bsr!Buffer!NewData(u) \/ Bsr!Buffer!HighestGrew(u)
                              THEN Bsr!Regular(retx, grant) ELSE retx
  BY DEF Bsr!Step, retx, periodic, counted
<1>6. QED
  BY <1>3, <1>4, <1>5

\* No SR outlives its reason: a report that needs no SR any more ends the SR with
\* it, since process_ul_grant tells the SR manager of every grant, whatever
\* becomes of the report; and only a Regular trigger starts an SR.
THEOREM SrHasReasonHolds == Spec => []SrHasReason
<1>1. Init => SrHasReason
  BY DEF Init, SrHasReason, Sr!IdleSr
<1>2. ASSUME DataTypes, SrHasReason, [Next]_vars
      PROVE  SrHasReason'
  <2>1. sr \in SrProcedures /\ bsr \in BsrProcedures
    BY <1>2 DEF DataTypes, StateTypes
  <2>2. CASE UeRunTti
    <3>1. PICK adjusted \in AdjustedSr :
            LET b == Bsr!Step(bsr, buf, Channel!Visible(grantCh))
            IN  /\ bsr' = b.bsr
                /\ sr' = Sr!Step(IF b.startSr THEN Sr!Start(adjusted) ELSE adjusted).sr
      BY <2>2 DEF UeRunTti
    <3> DEFINE b == Bsr!Step(bsr, buf, Channel!Visible(grantCh))
               t == IF b.startSr THEN Sr!Start(adjusted) ELSE adjusted
    <3>2. bsr' = b.bsr /\ sr' = Sr!Step(t).sr
      BY <3>1
    <3>3. adjusted \in SrProcedures /\ adjusted.state = sr.state
      <4>1. \A period \in NewSrPeriods : period \in Nat
        BY DataAssumption
      <4>2. QED
        BY <2>1, <4>1, SrSteps DEF AdjustedSr
    <3>4. bsr.trigger = "REGULAR" \/ b.startSr => b.bsr.trigger = "REGULAR"
      BY <2>1, RegularStays
    <3> HIDE DEF b
    <3>5. t \in SrProcedures /\ (t.state = "PENDING" => b.bsr.trigger = "REGULAR")
      BY <1>2, <3>3, <3>4, SrSteps DEF SrHasReason
    <3> HIDE DEF t
    <3>6. QED
      BY <3>2, <3>5, SrSteps DEF SrHasReason
  <2>3. CASE UeGrant
    BY <2>1, <2>3, SrSteps DEF UeGrant, SrHasReason
  <2>4. CASE NextTti
    BY <1>2, <2>1, <2>4, SrSteps DEF NextTti, SrHasReason
  <2>5. CASE UNCHANGED <<sr, bsr>>
    BY <1>2, <2>5 DEF SrHasReason
  <2>6. QED
    BY <1>2, <2>2, <2>3, <2>4, <2>5
       DEF Next, vars, ueVars, UeFeedback, UeSnapshot, UeDataArrived, UeGrantDone, EnbSr,
           EnbCqi, EnbSrDone, EnbSchedule, EnbReceive
<1>3. QED
  BY <1>1, <1>2, TypesHold, PTL DEF Spec
-----------------------------------------------------------------------------
(* A Regular trigger has its SR, as long as an attempt is left and no grant *)
(* is there instead.                                                       *)

\* generate_bsr leaves no Regular trigger behind when a long report fits, and
\* makes none.
LEMMA GenerateClears ==
  ASSUME NEW b \in BsrProcedures, NEW u, NEW space,
         b.trigger # "REGULAR" \/ (space \in Int /\ space >= Bsr!LongSize)
  PROVE  Bsr!Generate(b, u, space).bsr.trigger # "REGULAR"
<1> DEFINE f == Bsr!Format(b.trigger, space, Bsr!Cardinality(Bsr!Buffer!WithData(u)))
           reset == [b EXCEPT !.trigger = "NONE",
                              !.periodicOn = @ \/ PeriodicTimer > 0,
                              !.periodic = PeriodicTimer]
           needs == IF f = "LONG" THEN Bsr!LongSize ELSE Bsr!ShortSize
<1>1. reset.trigger = "NONE"
  BY DEF BsrProcedures
<1>2. Bsr!Generate(b, u, space).bsr =
        IF space < needs \/ f = "TRUNCATED" THEN b ELSE reset
  BY DEF Bsr!Generate
<1>3. space \in Int /\ space >= Bsr!LongSize => ~(space < needs) /\ f # "TRUNCATED"
  BY DEF Bsr!Format, Bsr!LongSize, Bsr!ShortSize
<1> HIDE DEF f, reset, needs
<1>4. QED
  BY <1>1, <1>2, <1>3

\* A grant that holds a long report ends the Regular trigger, by the report
\* or because all the data fits.
LEMMA GrantEndsRegular ==
  ASSUME bsr \in BsrProcedures, buf \in Buffers,
         NEW size \in Nat, size >= Bsr!LongSize
  PROVE  Bsr!TtiEnd(Report(size).bsr, Report(size).ce).trigger # "REGULAR"
<1> DEFINE r == Bsr!OnGrant(bsr, buf, size)
           total == Buffer!UpperBound(buf)
<1>1. r.bsr \in BsrProcedures /\ r.bsr.trigger # "REGULAR"
  <2>1. CASE bsr.trigger \notin {"PERIODIC", "REGULAR"}
    <3>1. r.bsr = bsr
      BY <2>1 DEF Bsr!OnGrant
    <3>2. QED
      BY <2>1, <3>1
  <2>2. CASE /\ bsr.trigger \in {"PERIODIC", "REGULAR"}
             /\ size >= Bsr!Buffer!UpperBound(buf)
    <3>1. r.bsr = [bsr EXCEPT !.trigger = "NONE"]
      BY <2>2 DEF Bsr!OnGrant
    <3>2. QED
      BY <3>1 DEF BsrProcedures
  <2>3. CASE /\ bsr.trigger \in {"PERIODIC", "REGULAR"}
             /\ ~(size >= Bsr!Buffer!UpperBound(buf))
    <3>1. r = Bsr!Generate(bsr, buf, size)
      BY <2>3 DEF Bsr!OnGrant
    <3>2. QED
      BY <3>1, GenerateClears, GeneratedReport
  <2>4. QED
    BY <2>1, <2>2, <2>3
<1>2. Report(size).bsr.trigger # "REGULAR" /\ Report(size).bsr \in BsrProcedures
  <2> HIDE DEF r
  <2>1. Report(size) =
          IF ~Bsr!HasReport(r.ce) /\ total > 0 /\ size > total
          THEN Bsr!GeneratePadding(r.bsr, buf, size - total) ELSE r
    BY DEF Report, r
  <2>2. Bsr!GeneratePadding(r.bsr, buf, size - total).bsr.trigger # "REGULAR"
    <3> DEFINE b == [r.bsr EXCEPT !.trigger = IF @ = "NONE" THEN "PADDING" ELSE @]
    <3>1. b \in BsrProcedures /\ b.trigger # "REGULAR"
      BY <1>1 DEF BsrProcedures
    <3> HIDE DEF b
    <3>2. Bsr!Generate(b, buf, size - total).bsr.trigger # "REGULAR"
      BY <3>1, GenerateClears
    <3>3. QED
      BY <1>1, <3>2 DEF Bsr!GeneratePadding, b
  <2>3. QED
    BY <1>1, <2>1, <2>2, ReportTyped
<1>3. QED
  BY <1>2 DEF Bsr!TtiEnd, BsrProcedures

\* With an attempt left, an SR that is needed or pending is pending after the step.
LEMMA SrKeepsTrying ==
  ASSUME NEW s \in SrProcedures, SrEnabled, s.counter < DsrTransMax
  PROVE  /\ Sr!Start(s).state = "PENDING" /\ Sr!Start(s).counter < DsrTransMax
         /\ s.state = "PENDING" => Sr!Step(s).sr.state = "PENDING"
         /\ \A period : Sr!Adjusted(s, period).counter = s.counter
<1>1. s.state \in {"IDLE", "PENDING"} /\ s.counter \in 0 .. DsrTransMax
  BY DEF SrProcedures
<1>2. Sr!Start(s).state = "PENDING" /\ Sr!Start(s).counter < DsrTransMax
  <2>1. CASE s.state = "IDLE"
    <3>1. Sr!Start(s) = [s EXCEPT !.state = "PENDING", !.counter = 0]
      BY <2>1 DEF Sr!Start
    <3>2. [s EXCEPT !.state = "PENDING"] \in SrProcedures
      BY SrFields
    <3>3. \A x \in SrProcedures : /\ [x EXCEPT !.counter = 0].state = x.state
                                  /\ [x EXCEPT !.counter = 0].counter = 0
      BY DEF SrProcedures
    <3>4. [s EXCEPT !.state = "PENDING", !.counter = 0]
            = [[s EXCEPT !.state = "PENDING"] EXCEPT !.counter = 0]
      OBVIOUS
    <3>5. [s EXCEPT !.state = "PENDING"].state = "PENDING"
      BY DEF SrProcedures
    <3> DEFINE x == [s EXCEPT !.state = "PENDING"]
    <3>6. x \in SrProcedures /\ x.state = "PENDING" /\ Sr!Start(s) = [x EXCEPT !.counter = 0]
      BY <3>1, <3>2, <3>4, <3>5
    <3> HIDE DEF x
    <3>7. Sr!Start(s).state = "PENDING" /\ Sr!Start(s).counter = 0
      BY <3>3, <3>6
    <3>8. 0 < DsrTransMax
      BY <1>1, DataAssumption
    <3>9. QED
      BY <3>7, <3>8
  <2>2. CASE s.state = "PENDING"
    BY <2>2 DEF Sr!Start
  <2>3. QED
    BY <1>1, <2>1, <2>2
<1>3. s.state = "PENDING" => Sr!Step(s).sr.state = "PENDING"
  <2> SUFFICES ASSUME s.state = "PENDING" PROVE Sr!Step(s).sr.state = "PENDING"
    OBVIOUS
  <2> DEFINE x == [s EXCEPT !.prohibit = IF @ > 0 THEN @ - 1 ELSE 0]
  <2>1. x.counter < DsrTransMax /\ x.state = "PENDING"
    BY DEF SrProcedures
  <2>2. Sr!Sent(x).sr.state = "PENDING"
    BY DEF Sr!Sent, SrProcedures
  <2>3. Sr!NoSr(x).sr.state = "PENDING"
    BY <2>1 DEF Sr!NoSr
  <2>4. Sr!Step(s) \in {Sr!Sent(x), Sr!NoSr(x)}
    BY <2>1 DEF Sr!Step
  <2>5. QED
    BY <2>2, <2>3, <2>4
<1>4. \A period : Sr!Adjusted(s, period).counter = s.counter
  BY DEF Sr!Adjusted, SrProcedures
<1>5. QED
  BY <1>2, <1>3, <1>4

\* The step of the BSR procedure asks for an SR when it makes a trigger Regular
\* and no grant is at hand.
LEMMA RegularAsks ==
  ASSUME NEW b \in BsrProcedures, NEW u
  PROVE  LET r == Bsr!Step(b, u, FALSE)
         IN  r.bsr.trigger = "REGULAR" => b.trigger = "REGULAR" \/ r.startSr
<1> DEFINE counted == Bsr!CountDown(b)
           periodic == Bsr!PeriodicExpiry(counted)
           retx == Bsr!RetxExpiry(periodic, u, FALSE)
           Asks(r) == r.bsr.trigger = "REGULAR" => b.trigger = "REGULAR" \/ r.startSr
<1>1. counted.trigger = b.trigger /\ DOMAIN counted = DOMAIN b /\ "trigger" \in DOMAIN b
  BY DEF Bsr!CountDown, BsrProcedures
<1> HIDE DEF counted
<1>2. periodic.trigger = "REGULAR" => b.trigger = "REGULAR"
  BY <1>1 DEF Bsr!PeriodicExpiry
<1> HIDE DEF periodic
<1>3. \A r : Asks(Bsr!Regular(r, FALSE))
  BY DEF Bsr!Regular
<1>4. Asks(retx)
  <2> DEFINE expired == periodic.retxOn /\ periodic.retx = 0
             r == [bsr |-> IF expired THEN [periodic EXCEPT !.retx = RetxTimer] ELSE periodic,
                   startSr |-> FALSE]
  <2>1. Asks(r)
    BY <1>2
  <2>2. retx = IF expired /\ Bsr!Buffer!WithData(u) # {} THEN Bsr!Regular(r, FALSE) ELSE r
    BY DEF Bsr!RetxExpiry
  <2> HIDE DEF r, expired, Asks, retx
  <2>3. QED
    BY <1>3, <2>1, <2>2
<1>5. Bsr!Step(b, u, FALSE) = IF Bsr!Buffer!NewData(u) \/ Bsr!Buffer!HighestGrew(u)
                              THEN Bsr!Regular(retx, FALSE) ELSE retx
  BY DEF Bsr!Step, retx, periodic, counted
<1> HIDE DEF retx
<1>6. Asks(Bsr!Step(b, u, FALSE))
  <2> HIDE DEF Asks
  <2>1. QED
    BY <1>3, <1>4, <1>5
<1>7. QED
  BY <1>6

\* A TTI without a grant keeps the SR of a Regular trigger while an attempt is left,
\* and starts one for a new trigger.
LEMMA RunTtiKeepsSr ==
  ASSUME DataTypes, UeRunTti, ~Channel!Visible(grantCh),
         SrEnabled, sr.counter < DsrTransMax,
         bsr.trigger = "REGULAR" => sr.state = "PENDING"
  PROVE  bsr'.trigger = "REGULAR" => sr'.state = "PENDING"
<1>1. sr \in SrProcedures /\ bsr \in BsrProcedures
  BY TypesBefore DEF DataTypes, StateTypes
<1>2. PICK adjusted \in AdjustedSr :
        LET b == Bsr!Step(bsr, buf, Channel!Visible(grantCh))
        IN  /\ bsr' = b.bsr
            /\ sr' = Sr!Step(IF b.startSr THEN Sr!Start(adjusted) ELSE adjusted).sr
  BY DEF UeRunTti
<1> DEFINE b == Bsr!Step(bsr, buf, FALSE)
           t == IF b.startSr THEN Sr!Start(adjusted) ELSE adjusted
<1>3. bsr' = b.bsr /\ sr' = Sr!Step(t).sr
  <2>1. Channel!Visible(grantCh) = FALSE
    BY DEF Channel!Visible
  <2>2. QED
    BY <1>2, <2>1
<1>4. /\ adjusted \in SrProcedures /\ adjusted.state = sr.state
      /\ adjusted.counter < DsrTransMax
  <2>1. \A period \in NewSrPeriods : period \in Nat
    BY DataAssumption
  <2>2. QED
    BY <1>1, <2>1, SrSteps, SrKeepsTrying DEF AdjustedSr
<1>5. t \in SrProcedures /\ t.counter < DsrTransMax
  BY <1>4, SrSteps, SrKeepsTrying
<1>6. t.state = "PENDING" => sr'.state = "PENDING"
  BY <1>3, <1>5, SrKeepsTrying
<1>7. bsr.trigger = "REGULAR" \/ b.startSr => t.state = "PENDING"
  <2>1. b.startSr => t = Sr!Start(adjusted)
    OBVIOUS
  <2>2. ~b.startSr => t = adjusted
    OBVIOUS
  <2> HIDE DEF t, b
  <2>3. QED
    BY <1>4, <2>1, <2>2, SrKeepsTrying
<1> HIDE DEF t
<1>8. b.bsr.trigger = "REGULAR" => bsr.trigger = "REGULAR" \/ b.startSr
  BY <1>1, RegularAsks
<1> HIDE DEF b
<1>9. QED
  BY <1>3, <1>6, <1>7, <1>8

\* A grant with room for a long report leaves no Regular trigger behind.
LEMMA GrantWithRoom ==
  ASSUME DataTypes, UeGrant
  PROVE  bsr'.trigger = "REGULAR" => Head(grantCh).item.tb < Bsr!LongSize
<1> DEFINE size == Head(grantCh).item.tb
<1>1. bsr \in BsrProcedures /\ buf \in Buffers
  BY TypesBefore DEF DataTypes, StateTypes
<1>2. bsr' = Bsr!TtiEnd(Report(size).bsr, Report(size).ce)
  BY DEF UeGrant
<1>3. size \in Nat
  <2>1. grantCh \in Seq(Channel!Messages(GrantItems)) /\ grantCh # <<>>
    BY DEF DataTypes, ChannelTypes, UeGrant, Channel!Visible
  <2>2. Head(grantCh) \in Channel!Messages(GrantItems)
    BY <2>1
  <2>3. QED
    BY <2>2 DEF Channel!Messages, GrantItems
<1> HIDE DEF size
<1>4. size >= Bsr!LongSize => bsr'.trigger # "REGULAR"
  BY <1>1, <1>2, <1>3, GrantEndsRegular
<1>5. QED
  BY <1>3, <1>4 DEF Bsr!LongSize, size

\* SR and Regular BSR go together, in every step and with any SR resource, timers
\* and grants: set_trigger starts the SR or leaves the report to the grant at hand,
\* step() ends it only with its last attempt, and the grant that ends it carries
\* the report if it has room.
THEOREM SrGoesWithRegularHolds == Spec => SrGoesWithRegular
<1> DEFINE Kept == sr'.state = "PENDING" => bsr'.trigger = "REGULAR"
           Asked == Unasked' => \/ Unasked \/ pc = "grant"
                                \/ pc = "arrivals" /\ NoAttemptLeft
                                \/ pc = "arrivals" /\ Channel!Visible(grantCh)
           Ended == (pc = "grant" /\ grantCh' # grantCh /\ bsr'.trigger = "REGULAR") =>
                      Head(grantCh).item.tb < Bsr!LongSize
<1>1. ASSUME DataTypes, Next PROVE Asked
  <2>1. CASE UeRunTti
    <3> SUFFICES ASSUME ~Channel!Visible(grantCh), ~NoAttemptLeft, ~Unasked
                 PROVE  ~Unasked'
      BY <2>1 DEF UeRunTti
    <3>1. sr \in SrProcedures /\ DsrTransMax \in Nat
      BY <1>1, DataAssumption DEF DataTypes, StateTypes
    <3>2. sr.state \in {"IDLE", "PENDING"} /\ sr.counter \in 0 .. DsrTransMax
      BY <3>1 DEF SrProcedures
    <3>3. SrEnabled /\ sr.counter < DsrTransMax
      BY <3>1, <3>2 DEF NoAttemptLeft
    <3>4. bsr.trigger = "REGULAR" => sr.state = "PENDING"
      BY <3>2 DEF Unasked
    <3>5. bsr'.trigger = "REGULAR" => sr'.state = "PENDING"
      BY <1>1, <2>1, <3>3, <3>4, RunTtiKeepsSr
    <3>6. QED
      BY <3>5 DEF Unasked
  <2>2. CASE UeGrant
    BY <2>2 DEF UeGrant
  <2>3. CASE NextTti
    <3>1. sr \in SrProcedures
      BY <1>1 DEF DataTypes, StateTypes
    <3>2. bsr' = bsr /\ sr'.state = sr.state
      BY <2>3, <3>1, SrSteps DEF NextTti
    <3>3. QED
      BY <3>2 DEF Unasked
  <2>4. CASE UNCHANGED <<sr, bsr>>
    BY <2>4 DEF Unasked
  <2>5. QED
    BY <1>1, <2>1, <2>2, <2>3, <2>4
       DEF Next, ueVars, UeFeedback, UeSnapshot, UeDataArrived, UeGrantDone, EnbSr,
           EnbCqi, EnbSrDone, EnbSchedule, EnbReceive
<1>2. ASSUME DataTypes, Next PROVE Ended
  <2>1. CASE UeGrant
    BY <1>2, <2>1, GrantWithRoom
  <2>2. CASE UeGrantDone
    BY <2>2 DEF UeGrantDone, channelVars
  <2>3. CASE pc # "grant"
    BY <2>3
  <2>4. QED
    BY <1>2, <2>1, <2>2, <2>3
       DEF Next, UeFeedback, UeSnapshot, UeDataArrived, UeRunTti, EnbSr, EnbCqi,
           EnbSrDone, EnbSchedule, EnbReceive, NextTti
<1>3. SrHasReason' => Kept
  BY DEF SrHasReason
<1>4. DataTypes /\ SrHasReason' /\ [Next]_vars => [Kept /\ Asked /\ Ended]_vars
  BY <1>1, <1>2, <1>3
<1>5. QED
  BY <1>4, TypesHold, SrHasReasonHolds, PTL DEF Spec, SrGoesWithRegular
=============================================================================
