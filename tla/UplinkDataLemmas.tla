------------------------- MODULE UplinkDataLemmas -------------------------
(***************************************************************************)
(* What the procedures of UplinkData do to their records: the buffers of   *)
(* the UE, the SR and BSR managers of the two ends, the MAC PDU, the HARQ  *)
(* processes, the scheduler's picture of the UE, and the channels between  *)
(* them. For every number of channels, LCGs and processes.                 *)
(***************************************************************************)
EXTENDS UplinkData, FiniteSetTheorems, TLAPS

Lib == INSTANCE ProofLibrary
-----------------------------------------------------------------------------
(* The buffers of the UE                                                   *)

Buffers == [old : OfChannels, new : OfChannels, tokens : OfChannels]

\* The amounts of the library are those of the buffers.
LEMMA BufferAmounts ==
  /\ \A f, S : Buffer!SumFunctionOnSet(f, S) = Lib!SumOver(f, S)
  /\ \A f : Buffer!Sum(f) = Lib!SumOver(f, DOMAIN f)
  /\ \A f, bytes : /\ Buffer!Taken(f, bytes) = Lib!Taken(f, bytes)
                   /\ Buffer!Drained(f, bytes) = Lib!Drained(f, bytes)
  /\ \A a, b : Buffer!Lower(a, b) = Lib!Lower(a, b)
<1>1. \A f, S : /\ Buffer!SumFunctionOnSet(f, S) = Lib!SumOver(f, S)
                /\ Lib!SumFunctionOnSet(f, S) = Lib!SumOver(f, S)
  BY DEF Buffer!SumFunctionOnSet, Buffer!FoldFunctionOnSet, Buffer!MapThenFoldSet,
     Lib!SumFunctionOnSet, Lib!FoldFunctionOnSet, Lib!MapThenFoldSet,
     Lib!SumOver, Lib!IsSum
<1>2. \A f : Buffer!Sum(f) = Lib!SumOver(f, DOMAIN f)
  BY <1>1 DEF Buffer!Sum, Buffer!SumFunction
<1>3. \A f, k, bytes : Buffer!LeftFor(f, k, bytes) = Lib!LeftFor(f, k, bytes)
  BY <1>1 DEF Buffer!LeftFor, Lib!LeftFor, Buffer!Higher, Lib!Higher
<1>4. \A a, b : Buffer!Lower(a, b) = Lib!Lower(a, b)
  BY DEF Buffer!Lower, Lib!Lower
<1>5. \A f, bytes : Buffer!Taken(f, bytes) = Lib!Taken(f, bytes)
  BY <1>3, <1>4 DEF Buffer!Taken, Lib!Taken
<1>6. \A f, bytes : Buffer!Drained(f, bytes) = Lib!Drained(f, bytes)
  BY <1>5 DEF Buffer!Drained, Lib!Drained, Buffer!Minus, Lib!Minus
<1>7. QED
  BY <1>1, <1>2, <1>4, <1>5, <1>6

\* There is a channel, and every set of them is finite.
LEMMA ChannelSets ==
  /\ 0 \in Channels /\ NofChannels \in Nat
  /\ \A S : S \subseteq Channels => IsFiniteSet(S) /\ Lib!IsFiniteSet(S)
  /\ LcgOf \in [Channels -> Lcgs]
<1>1. 0 \in Channels /\ NofChannels \in Nat /\ LcgOf \in [Channels -> Lcgs]
  BY DataAssumption DEF Channels, Lcgs
<1>2. IsFiniteSet(Channels)
  BY <1>1, FS_Interval DEF Channels
<1>3. \A S : S \subseteq Channels => IsFiniteSet(S)
  BY <1>2, FS_Subset
<1>4. QED
  BY <1>1, <1>3 DEF IsFiniteSet, Lib!IsFiniteSet

\* What an LCG holds: an amount, and more than nothing exactly if one of its
\* channels holds more than nothing.
LEMMA LcgAmount ==
  ASSUME NEW f \in OfChannels, NEW l
  PROVE  /\ Buffer!OfLcg(f, l) \in Nat
         /\ Buffer!OfLcg(f, l) > 0 <=> \E c \in Channels : LcgOf[c] = l /\ f[c] > 0
<1> DEFINE S == {c \in Channels : LcgOf[c] = l}
<1>1. S \subseteq Channels /\ Lib!IsFiniteSet(S) /\ \A c \in S : f[c] \in Nat
  BY ChannelSets DEF OfChannels
<1>2. Buffer!OfLcg(f, l) = Lib!SumOver(f, S)
  BY BufferAmounts DEF Buffer!OfLcg
<1>3. \A c \in Channels : c \in S <=> LcgOf[c] = l
  OBVIOUS
<1> HIDE DEF S
<1>4. Lib!SumOver(f, S) \in Nat
  BY <1>1, Lib!SumTyped
<1>5. Lib!SumOver(f, S) > 0 <=> \E c \in S : f[c] > 0
  BY <1>1, Lib!SumPositive
<1>6. QED
  BY <1>1, <1>2, <1>3, <1>4, <1>5

\* What a buffer holds in all, and in each LCG.
LEMMA BufferTotals ==
  ASSUME NEW b \in Buffers
  PROVE  /\ Buffer!Total(b) \in Nat
         /\ Buffer!Total(b) = Lib!SumOver(b.new, Channels)
         /\ Buffer!LcgSizes(b) \in OfLcgs
         /\ (\E c \in Channels : b.new[c] > 0) =>
              Buffer!LcgSizes(b) \in SrItems /\ Buffer!WithData(b) # {}
         /\ Buffer!WithData(b) # {} => \E c \in Channels : b.new[c] > 0
         /\ \A c \in Channels : b.new[c] \in Nat /\ b.old[c] \in Nat
<1>1. b.new \in OfChannels /\ DOMAIN b.new = Channels /\ b.old \in OfChannels
  BY DEF Buffers, OfChannels
<1>2. \A c \in Channels : b.new[c] \in Nat /\ b.old[c] \in Nat
  BY <1>1 DEF OfChannels
<1>3. Buffer!Total(b) = Lib!SumOver(b.new, Channels)
  BY <1>1, BufferAmounts DEF Buffer!Total
<1>4. Buffer!Total(b) \in Nat
  BY <1>2, <1>3, ChannelSets, Lib!SumTyped
<1>5. Buffer!LcgSizes(b) = [l \in Lcgs |-> Buffer!OfLcg(b.new, l)]
  BY DEF Buffer!LcgSizes
<1>6. Buffer!LcgSizes(b) \in OfLcgs
  BY <1>1, <1>5, LcgAmount DEF OfLcgs
<1>7. ASSUME NEW c \in Channels, b.new[c] > 0
      PROVE  Buffer!LcgSizes(b) \in SrItems /\ Buffer!WithData(b) # {}
  <2>1. LcgOf[c] \in Lcgs /\ Buffer!OfLcg(b.new, LcgOf[c]) > 0
    BY <1>1, <1>7, ChannelSets, LcgAmount
  <2>2. QED
    BY <1>5, <1>6, <2>1 DEF SrItems, Buffer!WithData
<1>8. Buffer!WithData(b) # {} => \E c \in Channels : b.new[c] > 0
  BY <1>1, LcgAmount DEF Buffer!WithData
<1>9. QED
  BY <1>2, <1>3, <1>4, <1>6, <1>7, <1>8

\* No bucket holds more than its size.
BucketsFit(b) == \A c \in Channels : b.tokens[c] <= BucketSize[c]

\* The first of all channels.
LEMMA FirstChannel == Buffer!First(Channels) \in Channels
<1>1. \E c \in Channels : \A d \in Channels : c <= d
  BY ChannelSets DEF Channels
<1>2. QED
  BY <1>1 DEF Buffer!First

\* A snapshot, an arrival, a TTI and a discarded TB leave a buffer whose
\* channels hold no less than before.
LEMMA BufferGrows ==
  ASSUME NEW b \in Buffers, BucketsFit(b)
  PROVE  /\ Buffer!UpdateOld(b) \in Buffers /\ BucketsFit(Buffer!UpdateOld(b))
         /\ Buffer!UpdateOld(b).new = b.new
         /\ Buffer!TokensAdded(b) \in Buffers /\ BucketsFit(Buffer!TokensAdded(b))
         /\ Buffer!TokensAdded(b).new = b.new
         /\ \A c \in Channels, bytes \in Nat :
              LET d == Buffer!Arrived(b, c, bytes)
              IN  /\ d \in Buffers /\ BucketsFit(d)
                  /\ d.new = [b.new EXCEPT ![c] = @ + bytes]
         /\ \A bytes \in Nat :
              LET d == Buffer!Restore(b, bytes)
              IN  /\ d \in Buffers /\ BucketsFit(d)
                  /\ d.new = [b.new EXCEPT ![Buffer!First(Channels)] = @ + bytes]
<1>1. /\ Buffer!UpdateOld(b) \in Buffers /\ BucketsFit(Buffer!UpdateOld(b))
      /\ Buffer!UpdateOld(b).new = b.new
  BY DEF Buffer!UpdateOld, Buffers, BucketsFit
<1>2. ASSUME NEW c \in Channels, NEW bytes \in Nat,
             NEW d, d = [b EXCEPT !.new[c] = @ + bytes]
      PROVE  /\ d \in Buffers /\ BucketsFit(d)
             /\ d.new = [b.new EXCEPT ![c] = @ + bytes]
  <2>1. [b.new EXCEPT ![c] = @ + bytes] \in OfChannels
    BY DEF Buffers, OfChannels
  <2>2. d = [b EXCEPT !.new = [b.new EXCEPT ![c] = @ + bytes]]
    BY <1>2
  <2>3. QED
    BY <2>1, <2>2 DEF Buffers, BucketsFit
<1>3. /\ Buffer!TokensAdded(b) \in Buffers /\ BucketsFit(Buffer!TokensAdded(b))
      /\ Buffer!TokensAdded(b).new = b.new
  <2> DEFINE t == [c \in Channels |-> Buffer!Lower(b.tokens[c] + Pbr[c], BucketSize[c])]
  <2>1. \A c \in Channels : Pbr[c] \in Nat /\ BucketSize[c] \in Nat /\ b.tokens[c] \in Nat
    BY DataAssumption DEF Channels, Buffers, OfChannels
  <2>2. t \in OfChannels /\ \A c \in Channels : t[c] <= BucketSize[c]
    BY <2>1 DEF OfChannels, Buffer!Lower
  <2>3. Buffer!TokensAdded(b) = [b EXCEPT !.tokens = t]
    BY DEF Buffer!TokensAdded
  <2> HIDE DEF t
  <2>4. QED
    BY <2>2, <2>3 DEF Buffers, BucketsFit
<1>4. QED
  BY <1>1, <1>2, <1>3, FirstChannel DEF Buffer!Arrived, Buffer!Restore

\* A sum of amounts with one of them raised.
LEMMA TotalRaised ==
  ASSUME NEW b \in Buffers, NEW d \in Buffers, NEW c \in Channels, NEW bytes \in Nat,
         d.new = [b.new EXCEPT ![c] = @ + bytes]
  PROVE  /\ Buffer!Total(d) = Buffer!Total(b) + bytes
         /\ (\E e \in Channels : b.new[e] > 0) => \E e \in Channels : d.new[e] > 0
<1>1. \A e \in Channels : b.new[e] \in Nat /\ d.new[e] \in Nat
  BY BufferTotals
<1>2. /\ d.new[c] = b.new[c] + bytes
      /\ \A e \in Channels : e # c => d.new[e] = b.new[e]
  BY DEF Buffers, OfChannels
<1>3. Lib!SumOver(d.new, Channels) = Lib!SumOver(b.new, Channels) - b.new[c] + d.new[c]
  <2>1. PICK f, g : f = b.new /\ g = d.new
    OBVIOUS
  <2>2. /\ \A e \in Channels : f[e] \in Int /\ (e # c => g[e] = f[e])
        /\ g[c] \in Int
    BY <1>1, <1>2, <2>1
  <2>3. Lib!SumOver(g, Channels) = Lib!SumOver(f, Channels) - f[c] + g[c]
    BY <2>2, ChannelSets, Lib!SumChange
  <2>4. QED
    BY <2>1, <2>3
<1>4. /\ Buffer!Total(d) = Lib!SumOver(d.new, Channels) /\ Buffer!Total(d) \in Nat
      /\ Buffer!Total(b) = Lib!SumOver(b.new, Channels) /\ Buffer!Total(b) \in Nat
  BY BufferTotals
<1>5. Buffer!Total(d) = Buffer!Total(b) + bytes
  BY <1>1, <1>2, <1>3, <1>4
<1>6. ASSUME NEW e \in Channels, b.new[e] > 0
      PROVE  \E a \in Channels : d.new[a] > 0
  BY <1>1, <1>2, <1>6
<1>7. QED
  BY <1>5, <1>6
-----------------------------------------------------------------------------
(* The scheduling request                                                  *)

\* A change of the fields of an SR procedure leaves it one.
LEMMA SrFields ==
  /\ \A s \in SrProcedures, state \in {"IDLE", "PENDING"} :
       [s EXCEPT !.state = state] \in SrProcedures
  /\ \A s \in SrProcedures, n \in 0 .. DsrTransMax :
       [s EXCEPT !.counter = n] \in SrProcedures
  /\ \A s \in SrProcedures, n \in 0 .. SrProhibit :
       [s EXCEPT !.prohibit = n] \in SrProcedures
  /\ \A s \in SrProcedures, n \in 0 .. Sr!Longest :
       [s EXCEPT !.age = n] \in SrProcedures
  /\ \A s \in SrProcedures, n \in MinSrPeriod .. MaxSrPeriod :
       [s EXCEPT !.period = n] \in SrProcedures
  /\ \A s \in SrProcedures :
       /\ s.state \in {"IDLE", "PENDING"} /\ s.counter \in 0 .. DsrTransMax
       /\ s.prohibit \in 0 .. SrProhibit /\ s.age \in 0 .. Sr!Longest
<1>1. \A s \in SrProcedures, state \in {"IDLE", "PENDING"} :
        [s EXCEPT !.state = state] \in SrProcedures
  BY DEF SrProcedures
<1>2. \A s \in SrProcedures, n \in 0 .. DsrTransMax :
        [s EXCEPT !.counter = n] \in SrProcedures
  BY DEF SrProcedures
<1>3. \A s \in SrProcedures, n \in 0 .. SrProhibit :
        [s EXCEPT !.prohibit = n] \in SrProcedures
  BY DEF SrProcedures
<1>4. \A s \in SrProcedures, n \in 0 .. Sr!Longest :
        [s EXCEPT !.age = n] \in SrProcedures
  BY DEF SrProcedures
<1>5. \A s \in SrProcedures, n \in MinSrPeriod .. MaxSrPeriod :
        [s EXCEPT !.period = n] \in SrProcedures
  BY DEF SrProcedures
<1>6. \A s \in SrProcedures :
        /\ s.state \in {"IDLE", "PENDING"} /\ s.counter \in 0 .. DsrTransMax
        /\ s.prohibit \in 0 .. SrProhibit /\ s.age \in 0 .. Sr!Longest
  BY DEF SrProcedures
<1>7. QED
  BY <1>1, <1>2, <1>3, <1>4, <1>5, <1>6

\* The bounds of the SR procedure.
LEMMA SrBounds ==
  /\ DsrTransMax \in Nat /\ SrProhibit \in Nat /\ Sr!Longest \in Nat
  /\ MinSrPeriod \in Nat /\ MaxSrPeriod \in Nat /\ MinSrPeriod <= MaxSrPeriod
  /\ Sr!IdleSr \in SrProcedures /\ Sr!IdleSr.state = "IDLE"
  /\ 0 \in 0 .. DsrTransMax /\ 0 \in 0 .. SrProhibit
  /\ SrProhibit \in 0 .. SrProhibit /\ 0 \in 0 .. Sr!Longest
<1>1. /\ DsrTransMax \in Nat /\ SrProhibit \in Nat /\ SrPeriod \in Nat
      /\ MinSrPeriod \in Nat /\ MaxSrPeriod \in Nat /\ MinSrPeriod <= MaxSrPeriod
  BY DataAssumption
<1>2. Sr!Longest \in Nat
  BY <1>1 DEF Sr!Longest
<1>3. Sr!IdleSr \in SrProcedures /\ Sr!IdleSr.state = "IDLE"
  BY <1>1, <1>2 DEF Sr!IdleSr, SrProcedures
<1>4. /\ 0 \in 0 .. DsrTransMax /\ 0 \in 0 .. SrProhibit
      /\ SrProhibit \in 0 .. SrProhibit /\ 0 \in 0 .. Sr!Longest
  BY <1>1, <1>2
<1>5. QED
  BY <1>1, <1>2, <1>3, <1>4

\* Every step of the SR procedure leaves it one; only a start has it pending.
LEMMA SrSteps ==
  ASSUME NEW s \in SrProcedures
  PROVE  /\ Sr!Start(s) \in SrProcedures
         /\ Sr!GrantReceived(s) \in SrProcedures /\ Sr!GrantReceived(s).state = "IDLE"
         /\ Sr!Aged(s) \in SrProcedures /\ Sr!Aged(s).state = s.state
         /\ \A period \in Nat : /\ Sr!Adjusted(s, period) \in SrProcedures
                                 /\ Sr!Adjusted(s, period).state = s.state
         /\ Sr!Step(s).sr \in SrProcedures
         /\ Sr!Step(s).sent \in BOOLEAN
         /\ Sr!Step(s).sr.state = "PENDING" => s.state = "PENDING"
         /\ Sr!Step(s).sent => s.state = "PENDING"
<1>1. Sr!Start(s) \in SrProcedures
  <2>1. \A x \in SrProcedures : [x EXCEPT !.counter = 0] \in SrProcedures
    BY SrFields, SrBounds
  <2>2. [[s EXCEPT !.state = "PENDING"] EXCEPT !.counter = 0] \in SrProcedures
    BY <2>1, SrFields
  <2>3. QED
    BY <2>2 DEF Sr!Start
<1>2. Sr!GrantReceived(s) \in SrProcedures /\ Sr!GrantReceived(s).state = "IDLE"
  <2> DEFINE r == [s EXCEPT !.state = "IDLE", !.counter = 0, !.prohibit = 0]
  <2>1. \A x \in SrProcedures : /\ [x EXCEPT !.counter = 0] \in SrProcedures
                                /\ [x EXCEPT !.prohibit = 0] \in SrProcedures
    BY SrFields, SrBounds
  <2>2. [s EXCEPT !.state = "IDLE"] \in SrProcedures
    BY SrFields
  <2>3. [[[s EXCEPT !.state = "IDLE"] EXCEPT !.counter = 0] EXCEPT !.prohibit = 0]
          \in SrProcedures
    BY <2>1, <2>2
  <2>4. r \in SrProcedures /\ r.state = "IDLE"
    BY <2>3 DEF SrProcedures
  <2> HIDE DEF r
  <2>5. Sr!GrantReceived(s) = IF s.state = "PENDING" THEN r ELSE s
    BY DEF Sr!GrantReceived, r
  <2>6. QED
    BY <2>4, <2>5, SrFields
<1>3. Sr!Aged(s) \in SrProcedures /\ Sr!Aged(s).state = s.state
  <2>1. (IF s.age < Sr!Longest THEN s.age + 1 ELSE s.age) \in 0 .. Sr!Longest
    BY SrFields, SrBounds
  <2>2. QED
    BY <2>1, SrFields DEF Sr!Aged, SrProcedures
<1>4. ASSUME NEW period \in Nat
      PROVE  /\ Sr!Adjusted(s, period) \in SrProcedures
             /\ Sr!Adjusted(s, period).state = s.state
  <2>1. Sr!Clamped(period) \in MinSrPeriod .. MaxSrPeriod
    BY SrBounds DEF Sr!Clamped
  <2>2. /\ [s EXCEPT !.period = Sr!Clamped(period)] \in SrProcedures
        /\ [s EXCEPT !.period = Sr!Clamped(period)].state = s.state
    BY <2>1, SrFields DEF SrProcedures
  <2>3. QED
    BY <2>2 DEF Sr!Adjusted
<1>5. /\ Sr!Step(s).sr \in SrProcedures /\ Sr!Step(s).sent \in BOOLEAN
      /\ Sr!Step(s).sr.state = "PENDING" => s.state = "PENDING"
      /\ Sr!Step(s).sent => s.state = "PENDING"
  <2> DEFINE x == [s EXCEPT !.prohibit = IF @ > 0 THEN @ - 1 ELSE 0]
  <2>1. CASE s.state # "PENDING"
    <3>1. Sr!Step(s) = [sr |-> s, sent |-> FALSE]
      BY <2>1 DEF Sr!Step, Sr!NoSr
    <3>2. QED
      BY <2>1, <3>1
  <2>2. CASE s.state = "PENDING"
    <3>1. x \in SrProcedures
      <4>1. (IF s.prohibit > 0 THEN s.prohibit - 1 ELSE 0) \in 0 .. SrProhibit
        BY SrFields, SrBounds
      <4>2. QED
        BY <4>1, SrFields
    <3>2. /\ Sr!NoSr(x).sr = x /\ Sr!NoSr(x).sent = FALSE
      BY DEF Sr!NoSr
    <3>3. Sr!Failed(x).sr \in SrProcedures /\ Sr!Failed(x).sent = FALSE
      <4> HIDE DEF x
      <4>1. \A y \in SrProcedures : [y EXCEPT !.counter = 0] \in SrProcedures
        BY SrFields, SrBounds
      <4>2. [[x EXCEPT !.state = "IDLE"] EXCEPT !.counter = 0] \in SrProcedures
        BY <3>1, <4>1, SrFields
      <4>3. QED
        BY <4>2 DEF Sr!Failed, Sr!NoSr
    <3>4. ASSUME x.counter < DsrTransMax
          PROVE  Sr!Sent(x).sr \in SrProcedures /\ Sr!Sent(x).sent = TRUE
      <4> HIDE DEF x
      <4>1. x.counter + 1 \in 0 .. DsrTransMax
        BY <3>1, <3>4, SrFields, SrBounds
      <4>2. [x EXCEPT !.counter = @ + 1] \in SrProcedures
        BY <3>1, <4>1, SrFields
      <4>3. \A y \in SrProcedures : /\ [y EXCEPT !.age = 0] \in SrProcedures
                                    /\ [y EXCEPT !.prohibit = SrProhibit] \in SrProcedures
        BY SrFields, SrBounds
      <4>4. [[[x EXCEPT !.counter = @ + 1] EXCEPT !.age = 0] EXCEPT !.prohibit = SrProhibit]
              \in SrProcedures
        BY <4>2, <4>3
      <4>5. QED
        BY <4>4 DEF Sr!Sent
    <3>5. Sr!Step(s) \in {Sr!Failed(x), Sr!NoSr(x)} \/
          (x.counter < DsrTransMax /\ Sr!Step(s) = Sr!Sent(x))
      BY <2>2 DEF Sr!Step
    <3> HIDE DEF x
    <3>6. QED
      BY <2>2, <3>1, <3>2, <3>3, <3>4, <3>5
  <2>3. QED
    BY <2>1, <2>2
<1>6. QED
  BY <1>1, <1>2, <1>3, <1>4, <1>5
-----------------------------------------------------------------------------
(* The levels of a report                                                  *)

\* The levels are 64 amounts, and only the first is nothing.
LEMMA Levels ==
  /\ \A i \in 0 .. 63 : Table!IndexToBytes(i) \in Nat
  /\ \A i \in 1 .. 63 : Table!IndexToBytes(i) > 0
  /\ Table!IndexToBytes(0) = 0
<1>1. \A i \in 1 .. 64 : Table!SizeTable[i] \in Nat
  BY DEF Table!SizeTable
<1>2. \A i \in 2 .. 64 : Table!SizeTable[i] > 0
  BY DEF Table!SizeTable
<1>3. Table!SizeTable[1] = 0
  BY DEF Table!SizeTable
<1>4. \A i \in 0 .. 63 : Table!IndexToBytes(i) = Table!SizeTable[i + 1]
  BY DEF Table!IndexToBytes, Table!MaxIndex
<1>5. QED
  BY <1>1, <1>2, <1>3, <1>4

\* An amount has an index, which is 0 only if it is nothing.
LEMMA IndexOfBytes ==
  ASSUME NEW bytes \in Nat
  PROVE  /\ Table!BytesToIndex(bytes) \in 0 .. 63
         /\ bytes > 0 => Table!IndexToBytes(Table!BytesToIndex(bytes)) > 0
<1> DEFINE levels == {i \in 0 .. 63 : bytes <= Table!IndexToBytes(i)}
<1>1. Table!BytesToIndex(bytes) = IF levels = {} THEN 63
                                  ELSE CHOOSE i \in levels : \A j \in levels : i <= j
  BY DEF Table!BytesToIndex, Table!MaxIndex
<1>2. levels \in SUBSET Nat /\ \A i \in levels : i \in 0 .. 63 /\ bytes <= Table!IndexToBytes(i)
  OBVIOUS
<1> HIDE DEF levels
<1>3. CASE levels = {}
  BY <1>1, <1>3, Levels
<1>4. CASE levels # {}
  <2>1. Table!BytesToIndex(bytes) \in levels
    <3>1. \E i \in levels : \A j \in levels : i <= j
      BY <1>2, <1>4, Lib!LeastNatural
    <3>2. QED
      BY <1>1, <1>4, <3>1
  <2>2. bytes <= Table!IndexToBytes(Table!BytesToIndex(bytes))
    BY <1>2, <2>1
  <2>3. Table!BytesToIndex(bytes) \in 0 .. 63
    BY <1>2, <2>1
  <2>4. Table!IndexToBytes(Table!BytesToIndex(bytes)) \in Nat
    BY <2>3, Levels
  <2>5. QED
    BY <2>2, <2>3, <2>4
<1>5. QED
  BY <1>3, <1>4
-----------------------------------------------------------------------------
(* The buffer status report                                                *)

\* What a report may be: the index of an amount for each LCG that it names.
IsReport(ce) ==
  /\ ce.format \in {"NONE", "SHORT", "LONG", "TRUNCATED"}
  /\ ce.format = "NONE" => ~Bsr!HasReport(ce)
  /\ DOMAIN ce.reports \subseteq Nat
  /\ \A l \in DOMAIN ce.reports : ce.reports[l] \in 0 .. 63

\* The BSR procedure looks at the buffers and the levels as the model does.
LEMMA SameBuffer ==
  /\ \A f, l : Bsr!Buffer!OfLcg(f, l) = Buffer!OfLcg(f, l)
  /\ \A b : /\ Bsr!Buffer!WithData(b) = Buffer!WithData(b)
            /\ Bsr!Buffer!MaxPriority(b) = Buffer!MaxPriority(b)
  /\ \A n : Bsr!Table!BytesToIndex(n) = Table!BytesToIndex(n)
<1>1. \A f, l : Bsr!Buffer!OfLcg(f, l) = Buffer!OfLcg(f, l)
  BY DEF Bsr!Buffer!OfLcg, Buffer!OfLcg, Bsr!Buffer!SumFunctionOnSet,
     Buffer!SumFunctionOnSet, Bsr!Buffer!FoldFunctionOnSet, Buffer!FoldFunctionOnSet,
     Bsr!Buffer!MapThenFoldSet, Buffer!MapThenFoldSet
<1>2. \A b : Bsr!Buffer!WithData(b) = Buffer!WithData(b)
  BY <1>1 DEF Bsr!Buffer!WithData, Buffer!WithData
<1>3. \A b : Bsr!Buffer!MaxPriority(b) = Buffer!MaxPriority(b)
  BY DEF Bsr!Buffer!MaxPriority, Buffer!MaxPriority, Bsr!Buffer!First, Buffer!First
<1>4. \A n : Bsr!Table!BytesToIndex(n) = Table!BytesToIndex(n)
  BY DEF Bsr!Table!BytesToIndex, Table!BytesToIndex, Bsr!Table!IndexToBytes,
     Table!IndexToBytes, Bsr!Table!MaxIndex, Table!MaxIndex, Bsr!Table!SizeTable,
     Table!SizeTable
<1>5. QED
  BY <1>1, <1>2, <1>3, <1>4

\* A change of the fields of a BSR procedure leaves it one.
LEMMA BsrFields ==
  /\ PeriodicTimer \in 0 .. PeriodicTimer /\ RetxTimer \in 0 .. RetxTimer
  /\ \A b \in BsrProcedures, trigger \in {"NONE", "REGULAR", "PERIODIC", "PADDING"} :
       [b EXCEPT !.trigger = trigger] \in BsrProcedures
  /\ \A b \in BsrProcedures, n \in 0 .. PeriodicTimer :
       [b EXCEPT !.periodic = n] \in BsrProcedures
  /\ \A b \in BsrProcedures, n \in 0 .. RetxTimer :
       [b EXCEPT !.retx = n] \in BsrProcedures
  /\ \A b \in BsrProcedures, on \in BOOLEAN :
       /\ [b EXCEPT !.periodicOn = on] \in BsrProcedures
       /\ [b EXCEPT !.retxOn = on] \in BsrProcedures
  /\ \A b \in BsrProcedures :
       /\ b.trigger \in {"NONE", "REGULAR", "PERIODIC", "PADDING"}
       /\ b.periodicOn \in BOOLEAN /\ b.retxOn \in BOOLEAN
       /\ b.periodic \in 0 .. PeriodicTimer /\ b.retx \in 0 .. RetxTimer
<1>1. PeriodicTimer \in Nat /\ RetxTimer \in Nat
  BY DataAssumption
<1>2. \A b \in BsrProcedures, trigger \in {"NONE", "REGULAR", "PERIODIC", "PADDING"} :
        [b EXCEPT !.trigger = trigger] \in BsrProcedures
  BY DEF BsrProcedures
<1>3. \A b \in BsrProcedures, n \in 0 .. PeriodicTimer :
        [b EXCEPT !.periodic = n] \in BsrProcedures
  BY DEF BsrProcedures
<1>4. \A b \in BsrProcedures, n \in 0 .. RetxTimer :
        [b EXCEPT !.retx = n] \in BsrProcedures
  BY DEF BsrProcedures
<1>5. \A b \in BsrProcedures, on \in BOOLEAN :
        /\ [b EXCEPT !.periodicOn = on] \in BsrProcedures
        /\ [b EXCEPT !.retxOn = on] \in BsrProcedures
  BY DEF BsrProcedures
<1>6. \A b \in BsrProcedures :
        /\ b.trigger \in {"NONE", "REGULAR", "PERIODIC", "PADDING"}
        /\ b.periodicOn \in BOOLEAN /\ b.retxOn \in BOOLEAN
        /\ b.periodic \in 0 .. PeriodicTimer /\ b.retx \in 0 .. RetxTimer
  BY DEF BsrProcedures
<1>7. PeriodicTimer \in 0 .. PeriodicTimer /\ RetxTimer \in 0 .. RetxTimer
  BY <1>1
<1>8. QED
  BY <1>2, <1>3, <1>4, <1>5, <1>6, <1>7

\* The BSR procedure starts an SR only if there is data.
LEMMA BsrStep ==
  ASSUME NEW b \in BsrProcedures, NEW u \in Buffers, NEW grant \in BOOLEAN
  PROVE  LET r == Bsr!Step(b, u, grant)
         IN  /\ r.bsr \in BsrProcedures
             /\ r.startSr => \E c \in Channels : u.new[c] > 0
<1> DEFINE counted == Bsr!CountDown(b)
           periodic == Bsr!PeriodicExpiry(counted)
           retx == Bsr!RetxExpiry(periodic, u, grant)
<1>1. counted \in BsrProcedures
  <2>1. /\ (IF b.periodicOn /\ b.periodic > 0 THEN b.periodic - 1 ELSE b.periodic)
             \in 0 .. PeriodicTimer
        /\ (IF b.retxOn /\ b.retx > 0 THEN b.retx - 1 ELSE b.retx) \in 0 .. RetxTimer
    BY BsrFields
  <2>2. QED
    BY <2>1 DEF Bsr!CountDown, BsrProcedures
<1> HIDE DEF counted
<1>2. periodic \in BsrProcedures
  <2>1. (IF counted.trigger = "NONE" THEN "PERIODIC" ELSE counted.trigger)
          \in {"NONE", "REGULAR", "PERIODIC", "PADDING"}
    BY <1>1, BsrFields
  <2>2. [counted EXCEPT !.periodic = PeriodicTimer] \in BsrProcedures
    BY <1>1, BsrFields
  <2>3. [[counted EXCEPT !.periodic = PeriodicTimer] EXCEPT !.trigger =
           IF counted.trigger = "NONE" THEN "PERIODIC" ELSE counted.trigger]
          \in BsrProcedures
    BY <2>1, <2>2, BsrFields
  <2>4. QED
    BY <1>1, <2>3 DEF Bsr!PeriodicExpiry
<1> HIDE DEF periodic
<1>3. \A r : /\ r.bsr \in BsrProcedures => Bsr!Regular(r, grant).bsr \in BsrProcedures
  <2>1. "REGULAR" \in {"NONE", "REGULAR", "PERIODIC", "PADDING"}
    OBVIOUS
  <2>2. QED
    BY <2>1, BsrFields DEF Bsr!Regular
<1>4. /\ retx.bsr \in BsrProcedures
      /\ retx.startSr => \E c \in Channels : u.new[c] > 0
  <2> DEFINE expired == periodic.retxOn /\ periodic.retx = 0
             r == [bsr |-> IF expired THEN [periodic EXCEPT !.retx = RetxTimer] ELSE periodic,
                   startSr |-> FALSE]
  <2>1. r.bsr \in BsrProcedures
    BY <1>2, BsrFields
  <2>2. retx = IF expired /\ Buffer!WithData(u) # {} THEN Bsr!Regular(r, grant) ELSE r
    BY SameBuffer DEF Bsr!RetxExpiry
  <2>3. r.startSr = FALSE
    OBVIOUS
  <2> HIDE DEF r, expired
  <2>4. Buffer!WithData(u) # {} => \E c \in Channels : u.new[c] > 0
    BY BufferTotals
  <2>5. QED
    BY <1>3, <2>1, <2>2, <2>3, <2>4
<1> HIDE DEF retx
<1>5. Bsr!Buffer!NewData(u) \/ Bsr!Buffer!HighestGrew(u) => \E c \in Channels : u.new[c] > 0
  <2>1. \A c \in Channels : u.new[c] \in Nat /\ u.old[c] \in Nat
    BY BufferTotals
  <2>2. QED
    BY <2>1 DEF Bsr!Buffer!NewData, Bsr!Buffer!HighestGrew
<1>6. Bsr!Step(b, u, grant) = IF Bsr!Buffer!NewData(u) \/ Bsr!Buffer!HighestGrew(u)
                              THEN Bsr!Regular(retx, grant) ELSE retx
  BY DEF Bsr!Step, retx, periodic, counted
<1>7. QED
  BY <1>3, <1>4, <1>5, <1>6

\* A report names LCGs.
LEMMA ReportedLcgs ==
  ASSUME NEW u, NEW f
  PROVE  Bsr!Reported(f, u) \subseteq Lcgs
<1>1. 0 \in Lcgs /\ \A c \in Channels : LcgOf[c] \in Lcgs
  <2>1. 0 \in Lcgs
    BY DataAssumption DEF Lcgs
  <2>2. QED
    BY <2>1, ChannelSets
<1>2. Buffer!MaxPriority(u) \in Lcgs
  <2>1. CASE {c \in Channels : u.new[c] > 0} = {}
    BY <1>1, <2>1, ChannelSets DEF Buffer!MaxPriority
  <2>2. CASE {c \in Channels : u.new[c] > 0} # {}
    <3> DEFINE some == {c \in Channels : u.new[c] > 0}
    <3>1. some \in SUBSET Nat /\ some # {} /\ some \subseteq Channels
      <4>1. Channels \subseteq Nat
        BY DataAssumption DEF Channels
      <4>2. QED
        BY <2>2, <4>1
    <3>2. Buffer!MaxPriority(u) = LcgOf[Buffer!First(some)]
      BY <3>1 DEF Buffer!MaxPriority
    <3> HIDE DEF some
    <3>3. \E c \in some : \A d \in some : c <= d
      BY <3>1, Lib!LeastNatural
    <3>4. Buffer!First(some) \in some
      BY <3>3 DEF Buffer!First
    <3>5. QED
      BY <1>1, <3>1, <3>2, <3>4
  <2>3. QED
    BY <2>1, <2>2
<1>3. Buffer!WithData(u) \subseteq Lcgs
  BY DEF Buffer!WithData
<1>4. QED
  BY <1>2, <1>3, SameBuffer DEF Bsr!Reported

\* A report names LCGs, with the index of what each of them holds.
LEMMA GeneratedReport ==
  ASSUME NEW b \in BsrProcedures, NEW u \in Buffers, NEW space
  PROVE  LET r == Bsr!Generate(b, u, space)
         IN  r.bsr \in BsrProcedures /\ IsReport(r.ce)
<1> DEFINE f == Bsr!Format(b.trigger, space, Bsr!Cardinality(Bsr!Buffer!WithData(u)))
           ce == [format  |-> f,
                  reports |-> [l \in Bsr!Reported(f, u) |->
                                 Table!BytesToIndex(Buffer!OfLcg(u.new, l))]]
           reset == [b EXCEPT !.trigger = "NONE",
                              !.periodicOn = @ \/ PeriodicTimer > 0,
                              !.periodic = PeriodicTimer]
<1>1. reset \in BsrProcedures
  <2>1. (b.periodicOn \/ PeriodicTimer > 0) \in BOOLEAN
    OBVIOUS
  <2>2. [b EXCEPT !.trigger = "NONE"] \in BsrProcedures
    BY BsrFields
  <2>3. [[b EXCEPT !.trigger = "NONE"] EXCEPT !.periodicOn =
           b.periodicOn \/ PeriodicTimer > 0] \in BsrProcedures
    BY <2>1, <2>2, BsrFields
  <2>4. [[[b EXCEPT !.trigger = "NONE"] EXCEPT !.periodicOn =
           b.periodicOn \/ PeriodicTimer > 0] EXCEPT !.periodic = PeriodicTimer]
          \in BsrProcedures
    BY <2>3, BsrFields
  <2>5. QED
    BY <2>4
<1>2. f \in {"SHORT", "LONG", "TRUNCATED"}
  BY DEF Bsr!Format
<1>3. Bsr!Reported(f, u) \subseteq Lcgs
  BY ReportedLcgs
<1>4. \A l \in Lcgs : Table!BytesToIndex(Buffer!OfLcg(u.new, l)) \in 0 .. 63
  <2>1. u.new \in OfChannels
    BY DEF Buffers
  <2>2. \A l \in Lcgs : Buffer!OfLcg(u.new, l) \in Nat
    BY <2>1, LcgAmount
  <2>3. QED
    BY <2>2, IndexOfBytes
<1>5. Bsr!Generate(b, u, space).bsr \in {b, reset}
  BY DEF Bsr!Generate
<1>6. Bsr!Generate(b, u, space).ce \in {ce, [format |-> "NONE", reports |-> <<>>]}
  BY SameBuffer DEF Bsr!Generate, Bsr!NoReport
<1>7. IsReport(ce)
  <2>1. /\ ce.format = f
        /\ ce.reports = [l \in Bsr!Reported(f, u) |->
                           Table!BytesToIndex(Buffer!OfLcg(u.new, l))]
    OBVIOUS
  <2> HIDE DEF ce, f
  <2>2. Lcgs \subseteq Nat
    BY DataAssumption DEF Lcgs
  <2>3. QED
    BY <1>2, <1>3, <1>4, <2>1, <2>2 DEF IsReport
<1>8. IsReport([format |-> "NONE", reports |-> <<>>])
  BY DEF IsReport, Bsr!HasReport
<1>9. QED
  BY <1>1, <1>5, <1>6, <1>7, <1>8

\* The report that goes with a grant, and the BSR procedure it leaves.
LEMMA ReportTyped ==
  ASSUME bsr \in BsrProcedures, buf \in Buffers, NEW size
  PROVE  LET r == Report(size)
         IN  /\ r.bsr \in BsrProcedures /\ IsReport(r.ce)
             /\ Bsr!TtiEnd(r.bsr, r.ce) \in BsrProcedures
<1> DEFINE Typed(r) == r.bsr \in BsrProcedures /\ IsReport(r.ce)
           none(b)  == [bsr |-> b, ce |-> Bsr!NoReport]
<1>1. IsReport(Bsr!NoReport)
  BY DEF IsReport, Bsr!NoReport, Bsr!HasReport
<1>2. \A b \in BsrProcedures : Typed(none(b))
  BY <1>1
<1>3. \A b \in BsrProcedures : \A n : Typed(Bsr!Generate(b, buf, n))
  BY GeneratedReport
<1> HIDE DEF Typed
<1>4. Typed(Bsr!OnGrant(bsr, buf, size))
  <2>1. [bsr EXCEPT !.trigger = "NONE"] \in BsrProcedures
    BY BsrFields
  <2>2. QED
    BY <1>2, <1>3, <2>1 DEF Bsr!OnGrant
<1>5. ASSUME NEW b \in BsrProcedures, NEW n PROVE Typed(Bsr!GeneratePadding(b, buf, n))
  <2>1. (IF b.trigger = "NONE" THEN "PADDING" ELSE b.trigger)
          \in {"NONE", "REGULAR", "PERIODIC", "PADDING"}
    BY BsrFields
  <2>2. [b EXCEPT !.trigger = IF b.trigger = "NONE" THEN "PADDING" ELSE b.trigger]
          \in BsrProcedures
    BY <2>1, BsrFields
  <2>3. QED
    BY <1>2, <1>3, <2>2 DEF Bsr!GeneratePadding
<1>6. Typed(Report(size))
  <2>1. Bsr!OnGrant(bsr, buf, size).bsr \in BsrProcedures
    BY <1>4 DEF Typed
  <2>2. QED
    BY <1>4, <1>5, <2>1 DEF Report
<1>7. ASSUME NEW b \in BsrProcedures, NEW ce PROVE Bsr!TtiEnd(b, ce) \in BsrProcedures
  <2>1. [b EXCEPT !.retxOn = TRUE] \in BsrProcedures
    BY BsrFields
  <2>2. [[b EXCEPT !.retxOn = TRUE] EXCEPT !.retx = RetxTimer] \in BsrProcedures
    BY <2>1, BsrFields
  <2>3. QED
    BY <2>2 DEF Bsr!TtiEnd
<1>8. QED
  BY <1>6, <1>7 DEF Typed
-----------------------------------------------------------------------------
(* The PDU                                                                 *)

PduParts == [lcid : Nat, body : Seq(Nat)]

\* A report is encoded in bytes.
LEMMA EncodedReport ==
  ASSUME NEW ce, IsReport(ce)
  PROVE  /\ Pdu!EncodeBsr(ce) \in Seq(Nat)
         /\ Pdu!EncodeBsr(ce) # <<>> => Pdu!Lcid[ce.format] \in Nat
<1> DEFINE idx(l) == IF l \in DOMAIN ce.reports THEN ce.reports[l] ELSE 0
           bits   == 64 * (64 * (64 * idx(0) + idx(1)) + idx(2)) + idx(3)
           one    == CHOOSE l \in DOMAIN ce.reports : TRUE
<1>1. \A l \in 0 .. 3 : idx(l) \in Nat
  BY DEF IsReport
<1>2. bits \in Nat
  <2> HIDE DEF idx
  <2>1. QED
    BY <1>1
<1>3. /\ bits \div 65536 \in Nat /\ (bits \div 256) % 256 \in Nat
      /\ bits % 256 \in Nat
  <2> HIDE DEF bits
  <2>1. QED
    BY <1>2
<1>4. <<bits \div 65536, (bits \div 256) % 256, bits % 256>> \in Seq(Nat)
  <2> HIDE DEF bits
  <2>1. QED
    BY <1>3
<1>5. ASSUME DOMAIN ce.reports # {}
      PROVE  <<64 * (one % Pdu!BsrLcgs) + (ce.reports[one] % 64)>> \in Seq(Nat)
  <2>1. one \in DOMAIN ce.reports
    BY <1>5
  <2> HIDE DEF one
  <2>2. one \in Nat /\ ce.reports[one] \in Nat
    BY <2>1 DEF IsReport
  <2>3. 64 * (one % 4) + (ce.reports[one] % 64) \in Nat
    BY <2>2
  <2>4. QED
    BY <2>3 DEF Pdu!BsrLcgs
<1>6. Pdu!EncodeBsr(ce) =
        IF ce.format = "LONG"
        THEN <<bits \div 65536, (bits \div 256) % 256, bits % 256>>
        ELSE IF DOMAIN ce.reports = {} THEN <<>>
        ELSE <<64 * (one % Pdu!BsrLcgs) + (ce.reports[one] % 64)>>
  BY DEF Pdu!EncodeBsr
<1> HIDE DEF bits, one
<1>7. Pdu!EncodeBsr(ce) # <<>> => ce.format \in {"SHORT", "LONG", "TRUNCATED"}
  BY <1>6 DEF IsReport, Bsr!HasReport
<1>8. \A f \in {"SHORT", "LONG", "TRUNCATED"} : Pdu!Lcid[f] \in Nat
  BY DEF Pdu!Lcid
<1>9. QED
  BY <1>4, <1>5, <1>6, <1>7, <1>8

\* The sums of the PDU are those of the library.
LEMMA PduSum == \A f : Pdu!SumFunction(f) = Lib!SumOver(f, DOMAIN f)
  BY DEF Pdu!SumFunction, Pdu!SumFunctionOnSet, Pdu!FoldFunctionOnSet,
     Pdu!MapThenFoldSet, Lib!SumOver, Lib!IsSum

\* What the UE packs for a report is a sequence of bytes.
LEMMA PackedReport ==
  ASSUME NEW size \in Nat, NEW ce, IsReport(ce)
  PROVE  Pdu!PackReport(size, ce) \in Seq(Nat)
<1> DEFINE first == Pdu!BsrPart(size, ce)
           parts == Pdu!Padded(size, first)
<1>1. first = <<>> \/ \E x \in PduParts : first = <<x>>
  BY EncodedReport DEF Pdu!BsrPart, Pdu!Part, PduParts
<1>2. first \in Seq(PduParts) /\ Len(first) \in {0, 1}
  <2>1. <<>> \in Seq(PduParts) /\ Len(<<>>) = 0
    OBVIOUS
  <2>2. \A x \in PduParts : <<x>> \in Seq(PduParts) /\ Len(<<x>>) = 1
    OBVIOUS
  <2> HIDE DEF first
  <2>3. QED
    BY <1>1, <2>1, <2>2
<1> HIDE DEF first
<1>3. Pdu!WithSdus(size, first, <<>>) = first
  <2> DEFINE base == [parts |-> first, stop |-> FALSE]
             none == DOMAIN <<>>
             Is(iter) == iter = [s \in SUBSET none |->
               IF s = {} THEN base
               ELSE LET x == Pdu!Max(s)
                    IN  Pdu!AddSdu(size, iter[s \ {x}], <<>>[x])]
             iter == CHOOSE iter : Is(iter)
             h == [s \in SUBSET none |-> base]
  <2>1. Pdu!WithSdus(size, first, <<>>) = iter[none].parts
    BY DEF Pdu!WithSdus, Pdu!FoldLeft, Pdu!MapThenFoldSet
  <2>2. none = {}
    OBVIOUS
  <2>3. Is(h)
    BY <2>2
  <2>4. Is(iter)
    <3> HIDE DEF Is, h
    <3>1. QED
      BY <2>3
  <2> HIDE DEF iter
  <2>5. iter[none] = base
    <3> HIDE DEF base
    <3>1. QED
      BY <2>2, <2>4
  <2>6. QED
    BY <2>1, <2>5
<1>4. Pdu!Size(first) \in Int
  <2> DEFINE f == [i \in DOMAIN first |-> 1 + Len(first[i].body)]
  <2>1. Pdu!Size(first) = Lib!SumOver(f, DOMAIN f)
    BY PduSum DEF Pdu!Size
  <2>2. DOMAIN f = 1 .. Len(first) /\ Len(first) \in Nat
    BY <1>2
  <2>3. \A i \in DOMAIN f : f[i] \in Int
    BY <1>2 DEF PduParts
  <2> HIDE DEF f
  <2>4. IsFiniteSet(DOMAIN f)
    BY <2>2, FS_Interval
  <2>5. Lib!IsFiniteSet(DOMAIN f)
    BY <2>4 DEF IsFiniteSet, Lib!IsFiniteSet
  <2>6. QED
    BY <2>1, <2>3, <2>5, Lib!SumTyped
<1>5. parts \in Seq(PduParts) /\ Len(parts) \in {0, 1, 2}
  <2> DEFINE zeros == Pdu!Zeros(size - Pdu!Size(first) - 1)
             pad   == Pdu!Part(Pdu!Lcid.PADDING, zeros)
  <2>1. zeros \in Seq(Nat)
    <3>1. PICK n \in Int : n = size - Pdu!Size(first) - 1
      BY <1>4
    <3>2. Pdu!Zeros(n) \in Seq(Nat)
      <4>1. CASE n \in Nat
        BY <4>1 DEF Pdu!Zeros
      <4>2. CASE n \notin Nat
        <5>1. 1 .. n = 1 .. 0
          BY <4>2
        <5>2. [i \in 1 .. 0 |-> 0] \in Seq(Nat)
          OBVIOUS
        <5>3. QED
          BY <5>1, <5>2 DEF Pdu!Zeros
      <4>3. QED
        BY <4>1, <4>2
    <3>3. QED
      BY <3>1, <3>2
  <2> HIDE DEF zeros
  <2>2. pad \in PduParts
    BY <2>1 DEF Pdu!Part, Pdu!Lcid, PduParts
  <2>3. parts = IF size - Pdu!Size(first) = 0 THEN first ELSE Append(first, pad)
    BY DEF Pdu!Padded, zeros
  <2> HIDE DEF pad, parts
  <2>4. QED
    BY <1>2, <2>2, <2>3
<1> HIDE DEF parts
<1>6. Pdu!Bytes(parts) \in Seq(Nat)
  <2> DEFINE bytes(i) == <<parts[i].lcid + (IF i = Len(parts) THEN 0 ELSE 32)>> \o parts[i].body
             seqs == [i \in DOMAIN parts |-> bytes(i)]
             Is(f) == f = [i \in 1 .. Len(seqs) |->
                             IF i = 1 THEN seqs[i] ELSE f[i - 1] \o seqs[i]]
             flat == CHOOSE f : Is(f)
             h == [i \in 1 .. Len(seqs) |-> IF i = 1 THEN seqs[i] ELSE seqs[1] \o seqs[i]]
  <2>1. Pdu!Bytes(parts) = IF Len(seqs) = 0 THEN seqs ELSE flat[Len(seqs)]
    BY DEF Pdu!Bytes, Pdu!FlattenSeq
  <2>2. \A i \in DOMAIN parts : bytes(i) \in Seq(Nat)
    <3>1. ASSUME NEW i \in DOMAIN parts PROVE bytes(i) \in Seq(Nat)
      <4>1. parts[i] \in PduParts
        BY <1>5
      <4>2. parts[i].lcid + (IF i = Len(parts) THEN 0 ELSE 32) \in Nat /\ parts[i].body \in Seq(Nat)
        BY <4>1 DEF PduParts
      <4>3. QED
        BY <4>2
    <3>2. QED
      BY <3>1
  <2> HIDE DEF bytes
  <2>3. DOMAIN parts = 1 .. Len(parts) /\ Len(parts) \in Nat
    BY <1>5
  <2>4. seqs \in Seq(Seq(Nat)) /\ Len(seqs) = Len(parts)
    <3>1. seqs \in [1 .. Len(parts) -> Seq(Nat)]
      BY <2>2, <2>3
    <3> HIDE DEF seqs
    <3>2. QED
      BY <2>3, <3>1
  <2> HIDE DEF seqs
  <2>5. Len(seqs) \in {0, 1, 2} /\ \A i \in 1 .. Len(seqs) : seqs[i] \in Seq(Nat)
    BY <1>5, <2>4
  <2>6. Is(h)
    <3>1. ASSUME NEW i \in 1 .. Len(seqs), i # 1
          PROVE  i - 1 = 1 /\ 1 \in 1 .. Len(seqs) /\ h[i - 1] = seqs[1]
      BY <2>5, <3>1
    <3>2. ASSUME NEW i \in 1 .. Len(seqs)
          PROVE  h[i] = IF i = 1 THEN seqs[i] ELSE h[i - 1] \o seqs[i]
      BY <3>1
    <3>3. QED
      BY <3>2
  <2>7. Is(flat)
    <3> HIDE DEF Is, h
    <3>1. QED
      BY <2>6
  <2> HIDE DEF flat
  <2>8. \A i \in 1 .. Len(seqs) : flat[i] = IF i = 1 THEN seqs[i] ELSE flat[i - 1] \o seqs[i]
    BY <2>7
  <2> HIDE DEF Is, h
  <2>9. CASE Len(seqs) = 0
    <3>1. seqs = <<>>
      BY <2>4, <2>9
    <3>2. QED
      BY <2>1, <2>9, <3>1
  <2>10. CASE Len(seqs) = 1
    <3>1. flat[1] = seqs[1] /\ seqs[1] \in Seq(Nat)
      BY <2>5, <2>8, <2>10
    <3>2. QED
      BY <2>1, <2>10, <3>1
  <2>11. CASE Len(seqs) = 2
    <3>1. flat[1] = seqs[1] /\ flat[2] = flat[2 - 1] \o seqs[2]
      BY <2>8, <2>11
    <3>2. seqs[1] \in Seq(Nat) /\ seqs[2] \in Seq(Nat)
      BY <2>5, <2>11
    <3>3. flat[2] \in Seq(Nat)
      BY <3>1, <3>2
    <3>4. QED
      BY <2>1, <2>11, <3>3
  <2>12. QED
    BY <2>5, <2>9, <2>10, <2>11
<1>7. QED
  BY <1>3, <1>6 DEF Pdu!PackReport, Pdu!Pack, first, parts
\* What unpack reads at a position, when g tells what it reads behind it.
LcidAt(pdu, pos) == pdu[pos] % 32
RestAt(pdu, pos) == SubSeq(pdu, pos + 1, Len(pdu))
SizeAt(pdu, pos) == Pdu!BodySize(LcidAt(pdu, pos), RestAt(pdu, pos))
NextAt(pdu, pos) == pos + 1 + SizeAt(pdu, pos)
TailAt(pdu, g, pos) ==
  IF (pdu[pos] \div 32) % 2 = 1 THEN g[NextAt(pdu, pos)] ELSE Pdu!Nothing(FALSE)

WithPart(lcid, rest, tail) ==
  IF lcid <= Pdu!MaxDataLcid
  THEN [tail EXCEPT !.sdus = <<[lcid |-> lcid, size |-> rest[1] % 128]>> \o @]
  ELSE IF lcid \in {Pdu!Lcid.LONG, Pdu!Lcid.SHORT, Pdu!Lcid.TRUNCATED}
  THEN [tail EXCEPT !.bsr = IF @ = Pdu!NoCe THEN Pdu!DecodeBsr(lcid, rest) ELSE @]
  ELSE tail

ReadAt(pdu, g, pos) ==
  IF pos > Len(pdu) THEN Pdu!Nothing(TRUE)
  ELSE IF LcidAt(pdu, pos) = Pdu!Lcid.PADDING
  THEN [Pdu!Nothing(FALSE) EXCEPT !.padding = Len(RestAt(pdu, pos))]
  ELSE IF SizeAt(pdu, pos) > Len(RestAt(pdu, pos)) THEN Pdu!Nothing(TRUE)
  ELSE WithPart(LcidAt(pdu, pos), RestAt(pdu, pos), TailAt(pdu, g, pos))

ReadsPdu(pdu, g) == g = [pos \in 1 .. Len(pdu) + 1 |-> ReadAt(pdu, g, pos)]

\* A PDU is read from the first position on.
LEMMA UnpackReads ==
  ASSUME NEW pdu
  PROVE  Pdu!Unpack(pdu) = IF pdu = <<>> THEN Pdu!Nothing(FALSE)
                           ELSE (CHOOSE g : ReadsPdu(pdu, g))[1]
  BY DEF Pdu!Unpack, ReadsPdu, ReadAt, WithPart, TailAt, NextAt, SizeAt, RestAt, LcidAt

\* Behind a part that is there the reading goes on inside the PDU or at its end.
LEMMA PartAt ==
  ASSUME NEW pdu \in Seq(Nat), NEW pos \in 1 .. Len(pdu),
         ~(SizeAt(pdu, pos) > Len(RestAt(pdu, pos)))
  PROVE  /\ NextAt(pdu, pos) \in pos + 1 .. Len(pdu) + 1
         /\ LcidAt(pdu, pos) \in Nat
         /\ RestAt(pdu, pos) \in Seq(Nat) /\ Len(RestAt(pdu, pos)) >= 1
         /\ LcidAt(pdu, pos) = Pdu!Lcid.LONG => Len(RestAt(pdu, pos)) >= 3
<1> DEFINE rest == RestAt(pdu, pos)
           lcid == LcidAt(pdu, pos)
<1>1. rest \in Seq(Nat) /\ Len(rest) = Len(pdu) - pos /\ Len(rest) \in Nat
  BY DEF RestAt
<1>2. lcid \in Nat
  BY DEF LcidAt
<1>3. Pdu!Lcid.LONG = 30 /\ Pdu!MaxDataLcid = 10
  BY DEF Pdu!Lcid, Pdu!MaxDataLcid
<1> HIDE DEF rest, lcid
<1>4. /\ SizeAt(pdu, pos) \in Nat /\ SizeAt(pdu, pos) >= 1
      /\ lcid = 30 => SizeAt(pdu, pos) = 3
  <2>1. SizeAt(pdu, pos) = IF lcid <= 10
                           THEN IF rest = <<>> THEN 1 ELSE 1 + (rest[1] % 128)
                           ELSE IF lcid = 30 THEN 3 ELSE 1
    BY <1>3 DEF SizeAt, Pdu!BodySize, rest, lcid
  <2>2. rest # <<>> => rest[1] % 128 \in Nat
    BY <1>1
  <2>3. QED
    BY <1>2, <2>1, <2>2
<1>5. SizeAt(pdu, pos) <= Len(rest) /\ NextAt(pdu, pos) = pos + 1 + SizeAt(pdu, pos)
  BY <1>1, <1>4 DEF rest, NextAt
<1>6. \A n, s, r \in Nat : r = n - pos /\ s >= 1 /\ s <= r =>
                             /\ pos + 1 + s \in pos + 1 .. n + 1
                             /\ r >= 1 /\ (s = 3 => r >= 3)
  OBVIOUS
<1>7. PICK n \in Nat, s \in Nat, r \in Nat :
        n = Len(pdu) /\ s = SizeAt(pdu, pos) /\ r = Len(rest)
  BY <1>1, <1>4
<1>8. /\ NextAt(pdu, pos) \in pos + 1 .. Len(pdu) + 1
      /\ Len(rest) >= 1 /\ (lcid = 30 => Len(rest) >= 3)
  <2>1. r = n - pos /\ s >= 1 /\ s <= r
    BY <1>1, <1>4, <1>5, <1>7
  <2>2. /\ pos + 1 + s \in pos + 1 .. n + 1
        /\ r >= 1 /\ (s = 3 => r >= 3)
    BY <1>6, <2>1
  <2>3. QED
    BY <1>4, <1>5, <1>7, <2>2
<1>9. QED
  BY <1>1, <1>2, <1>3, <1>8 DEF rest, lcid

\* What is read at a position depends on what is behind it only.
LEMMA ReadsForward ==
  ASSUME NEW pdu \in Seq(Nat), NEW pos \in 1 .. Len(pdu) + 1, NEW g, NEW h,
         \A q \in pos + 1 .. Len(pdu) + 1 : h[q] = g[q]
  PROVE  ReadAt(pdu, h, pos) = ReadAt(pdu, g, pos)
<1>1. CASE pos > Len(pdu) \/ SizeAt(pdu, pos) > Len(RestAt(pdu, pos))
  BY <1>1 DEF ReadAt
<1>2. CASE ~(pos > Len(pdu)) /\ ~(SizeAt(pdu, pos) > Len(RestAt(pdu, pos)))
  <2>1. pos \in 1 .. Len(pdu)
    BY <1>2
  <2>2. NextAt(pdu, pos) \in pos + 1 .. Len(pdu) + 1
    BY <1>2, <2>1, PartAt
  <2>3. TailAt(pdu, h, pos) = TailAt(pdu, g, pos)
    BY <2>2 DEF TailAt
  <2>4. QED
    BY <2>3 DEF ReadAt
<1>3. QED
  BY <1>1, <1>2

\* There is a reading of every PDU.
LEMMA ReadingExists ==
  ASSUME NEW pdu \in Seq(Nat)
  PROVE  \E g : ReadsPdu(pdu, g)
<1> DEFINE n == Len(pdu)
           Reads(g, k) == \A pos \in n + 2 - k .. n + 1 :
                            pos \in 1 .. n + 1 => g[pos] = ReadAt(pdu, g, pos)
           K == {k \in 0 .. n + 1 : \E g : Reads(g, k)}
<1>1. n \in Nat /\ n + 1 \in Nat
  OBVIOUS
<1>2. 0 \in K
  <2>1. \A g : Reads(g, 0)
    BY <1>1
  <2> HIDE DEF Reads
  <2>2. QED
    BY <1>1, <2>1
<1>3. ASSUME NEW k \in Nat, k < n + 1, k \in K PROVE k + 1 \in K
  <2>1. PICK g : Reads(g, k)
    <3> HIDE DEF Reads
    <3>1. QED
      BY <1>3
  <2> DEFINE here == n + 1 - k
             h == [pos \in 1 .. n + 1 |-> IF pos = here THEN ReadAt(pdu, g, pos) ELSE g[pos]]
  <2>2. here \in 1 .. n + 1
    BY <1>1, <1>3
  <2>3. \A pos \in 1 .. n + 1 : h[pos] = IF pos = here THEN ReadAt(pdu, g, pos) ELSE g[pos]
    OBVIOUS
  <2> HIDE DEF h
  <2>4. ASSUME NEW pos \in here .. n + 1 PROVE h[pos] = ReadAt(pdu, h, pos)
    <3>1. pos \in 1 .. n + 1 /\ \A q \in pos + 1 .. n + 1 : h[q] = g[q]
      BY <1>1, <2>2, <2>3
    <3>2. ReadAt(pdu, h, pos) = ReadAt(pdu, g, pos)
      BY <3>1, ReadsForward
    <3>3. CASE pos = here
      BY <2>3, <3>1, <3>2, <3>3
    <3>4. CASE pos # here
      <4>1. pos \in n + 2 - k .. n + 1
        BY <1>1, <1>3, <2>4, <3>4
      <4>2. QED
        BY <2>1, <2>3, <3>1, <3>2, <3>4, <4>1
    <3>5. QED
      BY <3>3, <3>4
  <2>5. n + 2 - (k + 1) = here
    BY <1>1, <1>3
  <2> HIDE DEF here
  <2>6. Reads(h, k + 1)
    BY <2>4, <2>5
  <2> HIDE DEF Reads
  <2>7. k + 1 \in 0 .. n + 1
    BY <1>1, <1>3
  <2>8. QED
    BY <2>6, <2>7
<1>4. n + 1 \in K
  <2> HIDE DEF K, n
  <2>1. \A k \in 0 .. n + 1 : k \in K
    BY <1>1, <1>2, <1>3, Lib!InductionUpTo
  <2>2. QED
    BY <1>1, <2>1
<1>5. PICK g : Reads(g, n + 1)
  <2> HIDE DEF Reads
  <2>1. QED
    BY <1>4
<1> DEFINE r == [pos \in 1 .. n + 1 |-> g[pos]]
<1>6. \A pos \in 1 .. n + 1 : r[pos] = g[pos] /\ g[pos] = ReadAt(pdu, g, pos)
  <2>1. n + 2 - (n + 1) = 1
    BY <1>1
  <2>2. QED
    BY <1>5, <2>1
<1> HIDE DEF Reads, K
<1>7. ASSUME NEW pos \in 1 .. n + 1 PROVE g[pos] = ReadAt(pdu, r, pos)
  <2>1. \A q \in pos + 1 .. n + 1 : r[q] = g[q]
    BY <1>1, <1>6
  <2>2. ReadAt(pdu, r, pos) = ReadAt(pdu, g, pos)
    BY <2>1, ReadsForward
  <2>3. QED
    BY <1>6, <2>2
<1>8. r = [pos \in 1 .. n + 1 |-> ReadAt(pdu, r, pos)]
  BY <1>7
<1>9. QED
  BY <1>8 DEF ReadsPdu

\* What has been read of a PDU, with a report that may be none.
Reading(b, s, q, m) == [bsr |-> b, sdus |-> s, padding |-> q, more |-> m]
IsRead(x) == \E b, s, q, m : IsReport(b) /\ x = Reading(b, s, q, m)

\* The parts of what has been read.
LEMMA ReadingFields ==
  ASSUME NEW b, NEW s, NEW q, NEW m, NEW v
  PROVE  /\ Reading(b, s, q, m).bsr = b
         /\ [Reading(b, s, q, m) EXCEPT !.bsr = v] = Reading(v, s, q, m)
         /\ [Reading(b, s, q, m) EXCEPT !.sdus = v] = Reading(b, v, q, m)
         /\ [Reading(b, s, q, m) EXCEPT !.padding = v] = Reading(b, s, v, m)
  BY DEF Reading

\* A PDU of which nothing has been read, with or without its padding.
LEMMA NothingRead ==
  ASSUME NEW more
  PROVE  /\ IsRead(Pdu!Nothing(more))
         /\ \A v : IsRead([Pdu!Nothing(more) EXCEPT !.padding = v])
<1>1. IsReport(Pdu!NoCe)
  BY DEF IsReport, Bsr!HasReport, Pdu!NoCe
<1>2. Pdu!Nothing(more) = Reading(Pdu!NoCe, <<>>, 0, more)
  BY DEF Pdu!Nothing, Reading
<1>3. ASSUME NEW v
      PROVE  IsRead([Pdu!Nothing(more) EXCEPT !.padding = v])
  <2>1. [Pdu!Nothing(more) EXCEPT !.padding = v] = Reading(Pdu!NoCe, <<>>, v, more)
    BY DEF Pdu!Nothing, Reading
  <2>2. QED
    BY <1>1, <2>1 DEF IsRead
<1>4. IsRead(Pdu!Nothing(more))
  BY <1>1, <1>2 DEF IsRead
<1>5. QED
  BY <1>3, <1>4

\* A part that is read leaves what was read behind it a reading.
LEMMA PartRead ==
  ASSUME NEW lcid \in Nat, NEW rest \in Seq(Nat), Len(rest) >= 1,
         lcid = Pdu!Lcid.LONG => Len(rest) >= 3, NEW tail, IsRead(tail)
  PROVE  IsRead(WithPart(lcid, rest, tail))
<1>1. PICK b, s, q, m : IsReport(b) /\ tail = Reading(b, s, q, m)
  BY DEF IsRead
<1>2. IsReport(Pdu!DecodeBsr(lcid, rest))
  <2>1. CASE lcid = Pdu!Lcid.LONG
    <3> DEFINE word == 65536 * rest[1] + 256 * rest[2] + rest[3]
               ce   == [format  |-> "LONG",
                        reports |-> [l \in 0 .. 3 |-> (word \div Pdu!IndexUnit[l + 1]) % 64]]
    <3>1. word \in Nat
      <4>1. rest[1] \in Nat /\ rest[2] \in Nat /\ rest[3] \in Nat
        BY <2>1
      <4>2. PICK x \in Nat, y \in Nat, z \in Nat :
              x = rest[1] /\ y = rest[2] /\ z = rest[3]
        BY <4>1
      <4>3. word = 65536 * x + 256 * y + z
        BY <4>2
      <4>4. 65536 * x + 256 * y + z \in Nat
        OBVIOUS
      <4>5. QED
        BY <4>3, <4>4
    <3>2. Pdu!DecodeBsr(lcid, rest) = ce
      BY <2>1 DEF Pdu!DecodeBsr, Pdu!BsrLcgs
    <3> HIDE DEF word
    <3>3. \A l \in 0 .. 3 : Pdu!IndexUnit[l + 1] \in {262144, 4096, 64, 1}
      BY DEF Pdu!IndexUnit
    <3>4. \A w \in Nat, u \in {262144, 4096, 64, 1} : (w \div u) % 64 \in 0 .. 63
      OBVIOUS
    <3>5. ASSUME NEW l \in 0 .. 3
          PROVE  (word \div Pdu!IndexUnit[l + 1]) % 64 \in 0 .. 63
      <4>1. PICK u \in {262144, 4096, 64, 1} : u = Pdu!IndexUnit[l + 1]
        BY <3>3
      <4>2. (word \div u) % 64 \in 0 .. 63
        BY <3>1, <3>4
      <4>3. QED
        BY <4>1, <4>2
    <3>6. /\ ce.format = "LONG"
          /\ ce.reports = [l \in 0 .. 3 |-> (word \div Pdu!IndexUnit[l + 1]) % 64]
      OBVIOUS
    <3> HIDE DEF ce
    <3>7. DOMAIN ce.reports = 0 .. 3 /\ \A l \in 0 .. 3 : ce.reports[l] \in 0 .. 63
      BY <3>5, <3>6
    <3>8. IsReport(ce)
      <4>1. /\ ce.format \in {"NONE", "SHORT", "LONG", "TRUNCATED"}
            /\ ce.format # "NONE"
        BY <3>6
      <4>2. DOMAIN ce.reports \subseteq Nat
        BY <3>7
      <4>3. \A l \in DOMAIN ce.reports : ce.reports[l] \in 0 .. 63
        BY <3>7
      <4>4. QED
        BY <4>1, <4>2, <4>3 DEF IsReport
    <3>9. QED
      BY <3>2, <3>8
  <2>2. CASE lcid # Pdu!Lcid.LONG
    <3> DEFINE f  == IF lcid = Pdu!Lcid.TRUNCATED THEN "TRUNCATED" ELSE "SHORT"
               ce == [format |-> f, reports |-> [l \in {rest[1] \div 64} |-> rest[1] % 64]]
    <3>1. rest[1] \in Nat
      OBVIOUS
    <3>2. rest[1] \div 64 \in Nat /\ rest[1] % 64 \in 0 .. 63
      <4>1. \A x \in Nat : x \div 64 \in Nat /\ x % 64 \in 0 .. 63
        OBVIOUS
      <4>2. QED
        BY <3>1, <4>1
    <3>3. Pdu!DecodeBsr(lcid, rest) = ce
      BY <2>2 DEF Pdu!DecodeBsr
    <3>4. /\ ce.format = f
          /\ ce.reports = [l \in {rest[1] \div 64} |-> rest[1] % 64]
      OBVIOUS
    <3>5. f \in {"TRUNCATED", "SHORT"}
      OBVIOUS
    <3> HIDE DEF ce, f
    <3>6. DOMAIN ce.reports \subseteq Nat /\ \A l \in DOMAIN ce.reports : ce.reports[l] \in 0 .. 63
      BY <3>2, <3>4
    <3>7. IsReport(ce)
      BY <3>4, <3>5, <3>6 DEF IsReport
    <3>8. QED
      BY <3>3, <3>7
  <2>3. QED
    BY <2>1, <2>2
<1>5. tail.bsr = b
  BY <1>1, ReadingFields
<1>6. ASSUME NEW v PROVE IsRead([tail EXCEPT !.sdus = v])
  <2>1. [tail EXCEPT !.sdus = v] = Reading(b, v, q, m)
    BY <1>1, ReadingFields
  <2>2. QED
    BY <1>1, <2>1 DEF IsRead
<1>7. ASSUME NEW v, IsReport(v) PROVE IsRead([tail EXCEPT !.bsr = v])
  <2>1. [tail EXCEPT !.bsr = v] = Reading(v, s, q, m)
    BY <1>1, ReadingFields
  <2>2. QED
    BY <1>7, <2>1 DEF IsRead
<1>8. QED
  BY <1>1, <1>2, <1>5, <1>6, <1>7 DEF WithPart

\* What the eNB unpacks, of any bytes, is a report.
LEMMA UnpackedReport ==
  ASSUME NEW pdu \in Seq(Nat)
  PROVE  IsReport(Pdu!Unpack(pdu).bsr)
<1> DEFINE n == Len(pdu)
           g == CHOOSE g : ReadsPdu(pdu, g)
<1>1. \A more : IsRead(Pdu!Nothing(more))
  BY NothingRead
<1>2. \A pos \in 1 .. n + 1 : g[pos] = ReadAt(pdu, g, pos)
  <2>1. ReadsPdu(pdu, g)
    BY ReadingExists
  <2> HIDE DEF g
  <2>2. QED
    BY <2>1 DEF ReadsPdu
<1> HIDE DEF g
<1>3. ASSUME NEW pos \in 1 .. n + 1, \A q \in pos + 1 .. n + 1 : IsRead(g[q])
      PROVE  IsRead(g[pos])
  <2>1. CASE pos > n \/ LcidAt(pdu, pos) = Pdu!Lcid.PADDING
             \/ SizeAt(pdu, pos) > Len(RestAt(pdu, pos))
    <3>1. \A v : IsRead([Pdu!Nothing(FALSE) EXCEPT !.padding = v])
      BY NothingRead
    <3>2. QED
      BY <1>1, <1>2, <2>1, <3>1 DEF ReadAt
  <2>2. CASE ~(pos > n) /\ LcidAt(pdu, pos) # Pdu!Lcid.PADDING
             /\ ~(SizeAt(pdu, pos) > Len(RestAt(pdu, pos)))
    <3>1. pos \in 1 .. n
      BY <2>2
    <3>2. /\ NextAt(pdu, pos) \in pos + 1 .. n + 1 /\ LcidAt(pdu, pos) \in Nat
          /\ RestAt(pdu, pos) \in Seq(Nat) /\ Len(RestAt(pdu, pos)) >= 1
          /\ LcidAt(pdu, pos) = Pdu!Lcid.LONG => Len(RestAt(pdu, pos)) >= 3
      BY <2>2, <3>1, PartAt
    <3>3. IsRead(TailAt(pdu, g, pos))
      BY <1>1, <1>3, <3>2 DEF TailAt
    <3>4. IsRead(WithPart(LcidAt(pdu, pos), RestAt(pdu, pos), TailAt(pdu, g, pos)))
      BY <3>2, <3>3, PartRead
    <3>5. QED
      BY <1>2, <2>2, <3>4 DEF ReadAt
  <2>3. QED
    BY <2>1, <2>2
<1> DEFINE K == {k \in 0 .. n : IsRead(g[n + 1 - k]) /\
                                \A q \in n + 1 - k .. n + 1 : IsRead(g[q])}
<1>4. n \in Nat
  OBVIOUS
<1> HIDE DEF n
<1>5. 0 \in K
  <2>1. n + 1 \in 1 .. n + 1 /\ n + 1 - 0 = n + 1
    BY <1>4
  <2>2. IsRead(g[n + 1])
    BY <1>3, <1>4, <2>1
  <2>3. \A q \in n + 1 - 0 .. n + 1 : q = n + 1
    BY <1>4
  <2>4. QED
    BY <1>4, <2>1, <2>2, <2>3
<1>6. ASSUME NEW k \in Nat, k < n, k \in K PROVE k + 1 \in K
  <2> DEFINE here == n + 1 - (k + 1)
  <2>1. here \in 1 .. n + 1 /\ here + 1 = n + 1 - k /\ k + 1 \in 0 .. n
    BY <1>4, <1>6
  <2>2. \A q \in here + 1 .. n + 1 : IsRead(g[q])
    BY <1>6, <2>1
  <2>3. IsRead(g[here])
    BY <1>3, <2>1, <2>2
  <2>4. \A q \in here .. n + 1 : q = here \/ q \in here + 1 .. n + 1
    BY <1>4, <2>1
  <2> HIDE DEF here
  <2>5. \A q \in here .. n + 1 : IsRead(g[q])
    BY <2>2, <2>3, <2>4
  <2>6. QED
    BY <2>1, <2>3, <2>5 DEF here
<1>7. IsRead(g[1])
  <2>1. n \in K
    <3> HIDE DEF K
    <3>1. \A k \in 0 .. n : k \in K
      BY <1>4, <1>5, <1>6, Lib!InductionUpTo
    <3>2. QED
      BY <1>4, <3>1
  <2>2. n + 1 - n = 1
    BY <1>4
  <2>3. QED
    BY <2>1, <2>2
<1>8. Pdu!Unpack(pdu) = IF pdu = <<>> THEN Pdu!Nothing(FALSE) ELSE g[1]
  BY UnpackReads DEF g
<1>9. IsRead(Pdu!Unpack(pdu))
  BY <1>1, <1>7, <1>8
<1>10. \A x : IsRead(x) => IsReport(x.bsr)
  BY ReadingFields DEF IsRead
<1>11. QED
  BY <1>9, <1>10
-----------------------------------------------------------------------------
(* What a TB takes from the buffers                                        *)

\* A TB takes bytes from the channels, up to its size and while there are any:
\* first what the tokens of each channel let through, then more, in order.
LEMMA ConsumeStep ==
  ASSUME NEW b \in Buffers, BucketsFit(b), NEW bytes \in Nat
  PROVE  LET d == Buffer!Consume(b, bytes)
         IN  /\ d \in Buffers /\ BucketsFit(d)
             /\ \E first \in OfChannels, second \in OfChannels :
                  LET entitled == [c \in Channels |-> Buffer!Lower(b.tokens[c], b.new[c])]
                      left     == bytes - Lib!SumOver(first, Channels)
                      rest     == [c \in Channels |-> b.new[c] - first[c]]
                  IN  /\ first = Lib!Taken(entitled, bytes)
                      /\ entitled \in OfChannels
                      /\ rest \in OfChannels /\ left \in Nat
                      /\ second = Lib!Taken(rest, left)
                      /\ \A c \in Channels :
                           /\ first[c] <= entitled[c] /\ second[c] <= rest[c]
                           /\ d.tokens[c] = b.tokens[c] - first[c]
                           /\ d.new[c] = b.new[c] - (first[c] + second[c])
<1> DEFINE entitled == [c \in Channels |-> Buffer!Lower(b.tokens[c], b.new[c])]
           first == Lib!Taken(entitled, bytes)
           rest  == [c \in Channels |-> b.new[c] - first[c]]
           left  == bytes - Lib!SumOver(first, Channels)
           second == Lib!Taken(rest, left)
           d == Buffer!Consume(b, bytes)
<1>1. /\ NofChannels \in Nat /\ Channels = 0 .. NofChannels - 1
      /\ OfChannels = [0 .. NofChannels - 1 -> Nat]
  BY ChannelSets DEF Channels, OfChannels
<1>2. /\ b.new \in OfChannels /\ b.tokens \in OfChannels /\ b.old \in OfChannels
      /\ DOMAIN b.new = Channels /\ DOMAIN b.tokens = Channels
      /\ \A c \in Channels : b.new[c] \in Nat /\ b.tokens[c] \in Nat
  BY DEF Buffers, OfChannels
<1>3. entitled \in OfChannels /\ \A c \in Channels : entitled[c] <= b.new[c] /\ entitled[c] <= b.tokens[c]
  BY <1>2 DEF OfChannels, Buffer!Lower
<1> HIDE DEF entitled
<1>4. first \in OfChannels /\ \A c \in Channels : first[c] <= entitled[c]
  BY <1>1, <1>3, Lib!TakenTyped
<1>5. left \in Nat
  <2>1. NofChannels \in 0 .. NofChannels
    BY <1>1
  <2>2. /\ Lib!SumOver(entitled, 0 .. NofChannels - 1) \in Nat
        /\ Lib!SumOver(first, 0 .. NofChannels - 1) =
             Lib!Lower(bytes, Lib!SumOver(entitled, 0 .. NofChannels - 1))
    BY <1>1, <1>3, <2>1, Lib!TakenSum
  <2> HIDE DEF first
  <2>3. QED
    BY <1>1, <2>2 DEF Lib!Lower
<1>6. d = [b EXCEPT !.new = Lib!Drained(rest, left), !.tokens = [c \in Channels |-> b.tokens[c] - first[c]]]
  <2>1. Buffer!Taken(entitled, bytes) = first /\ DOMAIN first = Channels
    BY <1>4, BufferAmounts DEF OfChannels
  <2>2. Buffer!Minus(b.new, first) = rest
    BY <1>2 DEF Buffer!Minus
  <2>3. Buffer!Minus(b.tokens, first) = [c \in Channels |-> b.tokens[c] - first[c]]
    BY <1>2 DEF Buffer!Minus
  <2>4. Buffer!Sum(first) = Lib!SumOver(first, Channels)
    BY <2>1, BufferAmounts
  <2> HIDE DEF first, rest
  <2>5. Buffer!Drained(rest, left) = Lib!Drained(rest, left)
    BY BufferAmounts
  <2>6. QED
    BY <2>1, <2>2, <2>3, <2>4, <2>5 DEF Buffer!Consume, entitled
<1> HIDE DEF first
<1>7. rest \in OfChannels
  <2>1. \A c \in Channels : first[c] \in Nat /\ first[c] <= b.new[c]
    <3>1. \A c \in Channels : first[c] \in Nat /\ entitled[c] \in Nat
      BY <1>3, <1>4 DEF OfChannels
    <3>2. QED
      BY <1>2, <1>3, <1>4, <3>1
  <2>2. \A c \in Channels : b.new[c] - first[c] \in Nat
    BY <1>2, <2>1
  <2>3. QED
    BY <2>2 DEF OfChannels
<1>8. rest = [c \in Channels |-> b.new[c] - first[c]]
  OBVIOUS
<1> HIDE DEF left
<1>9. /\ second \in OfChannels /\ \A c \in Channels : second[c] <= rest[c]
      /\ Lib!Drained(rest, left) \in OfChannels
      /\ \A c \in Channels : Lib!Drained(rest, left)[c] = rest[c] - second[c]
  <2> HIDE DEF rest
  <2>1. left \in Int
    BY <1>5
  <2>2. QED
    BY <1>1, <1>7, <2>1, Lib!TakenTyped, Lib!DrainedTyped
<1> HIDE DEF rest, second, d
<1>10. \A c \in Channels : /\ b.new[c] \in Nat /\ b.tokens[c] \in Nat /\ first[c] \in Nat
                           /\ second[c] \in Nat /\ entitled[c] \in Nat
                           /\ rest[c] = b.new[c] - first[c]
                           /\ BucketSize[c] \in Nat /\ b.tokens[c] <= BucketSize[c]
  <2>1. \A c \in Channels : BucketSize[c] \in Nat
    BY DataAssumption DEF Channels
  <2>2. QED
    BY <1>2, <1>3, <1>4, <1>8, <1>9, <2>1 DEF OfChannels, BucketsFit
<1> DEFINE tokens == [c \in Channels |-> b.tokens[c] - first[c]]
<1>11. tokens \in OfChannels /\ \A c \in Channels : tokens[c] <= BucketSize[c] /\ tokens[c] = b.tokens[c] - first[c]
  <2>1. \A c \in Channels : b.tokens[c] - first[c] \in Nat /\ b.tokens[c] - first[c] <= BucketSize[c]
    BY <1>3, <1>4, <1>10
  <2>2. QED
    BY <2>1 DEF OfChannels
<1> HIDE DEF tokens
<1>12. d = [b EXCEPT !.new = Lib!Drained(rest, left), !.tokens = tokens]
  BY <1>6 DEF tokens
<1>13. d \in Buffers /\ BucketsFit(d)
  BY <1>9, <1>11, <1>12 DEF Buffers, BucketsFit
<1>14. \A c \in Channels : /\ d.tokens[c] = b.tokens[c] - first[c]
                           /\ d.new[c] = b.new[c] - (first[c] + second[c])
  <2>1. d.tokens = tokens /\ d.new = Lib!Drained(rest, left)
    BY <1>12 DEF Buffers
  <2>2. \A x, y, z \in Nat : (x - y) - z = x - (y + z)
    OBVIOUS
  <2>3. QED
    BY <1>9, <1>10, <1>11, <2>1, <2>2
<1>15. QED
  BY <1>3, <1>4, <1>5, <1>7, <1>9, <1>13, <1>14 DEF d, left, rest, second, first, entitled

\* A TB takes what the buffers have, up to its size.
LEMMA ConsumeTotal ==
  ASSUME NEW b \in Buffers, BucketsFit(b), NEW bytes \in Nat
  PROVE  LET d == Buffer!Consume(b, bytes)
         IN  /\ d \in Buffers /\ BucketsFit(d)
             /\ Buffer!Total(b) - Buffer!Total(d) = Buffer!Lower(bytes, Buffer!Total(b))
<1> DEFINE d == Buffer!Consume(b, bytes)
           entitled == [c \in Channels |-> Buffer!Lower(b.tokens[c], b.new[c])]
<1>1. d \in Buffers /\ BucketsFit(d)
  BY ConsumeStep
<1>2. PICK first \in OfChannels, second \in OfChannels :
        LET left     == bytes - Lib!SumOver(first, Channels)
            rest     == [c \in Channels |-> b.new[c] - first[c]]
        IN  /\ first = Lib!Taken(entitled, bytes)
            /\ entitled \in OfChannels
            /\ rest \in OfChannels /\ left \in Nat
            /\ second = Lib!Taken(rest, left)
            /\ \A c \in Channels :
                 /\ first[c] <= entitled[c] /\ second[c] <= rest[c]
                 /\ d.tokens[c] = b.tokens[c] - first[c]
                 /\ d.new[c] = b.new[c] - (first[c] + second[c])
  BY ConsumeStep
<1> DEFINE rest == [c \in Channels |-> b.new[c] - first[c]]
           left == bytes - Lib!SumOver(first, Channels)
           S(f) == Lib!SumOver(f, Channels)
<1> HIDE DEF entitled, d
<1>3. \A c \in Channels : rest[c] = b.new[c] - first[c]
  OBVIOUS
<1>4. rest \in OfChannels /\ left \in Nat /\ second = Lib!Taken(rest, left)
  BY <1>2
<1> HIDE DEF rest
<1>5. Lib!IsFiniteSet(Channels)
  BY ChannelSets
<1>6. S(rest) \in Nat /\ S(second) = Lib!Lower(left, S(rest))
  <2> HIDE DEF left
  <2>1. /\ NofChannels \in Nat /\ Channels = 0 .. NofChannels - 1
        /\ OfChannels = [0 .. NofChannels - 1 -> Nat]
    BY ChannelSets DEF Channels, OfChannels
  <2>2. NofChannels \in 0 .. NofChannels
    BY <2>1
  <2>3. \A k \in 0 .. NofChannels :
          /\ Lib!SumOver(rest, 0 .. k - 1) \in Nat
          /\ Lib!SumOver(Lib!Taken(rest, left), 0 .. k - 1) =
               Lib!Lower(left, Lib!SumOver(rest, 0 .. k - 1))
    <3>1. NofChannels \in Nat /\ rest \in [0 .. NofChannels - 1 -> Nat] /\ left \in Nat
      BY <1>4, <2>1
    <3>2. QED
      BY <3>1, Lib!TakenSum
  <2>4. QED
    BY <1>4, <2>1, <2>2, <2>3
<1>7. \A c \in Channels : b.new[c] \in Nat /\ first[c] \in Nat /\ second[c] \in Nat /\ rest[c] \in Nat
                          /\ d.new[c] \in Nat
  BY <1>1, <1>4, BufferTotals DEF OfChannels
<1>8. /\ Buffer!Total(b) = S(b.new) /\ Buffer!Total(d) = S(d.new)
      /\ S(b.new) \in Nat /\ S(d.new) \in Nat
  BY <1>1, BufferTotals
<1>9. PICK f, g : f = b.new /\ g = d.new
  OBVIOUS
<1>10. S(rest) = S(f) - S(first)
  <2>1. \A c \in Channels : f[c] \in Int /\ first[c] \in Int /\ rest[c] = f[c] - first[c]
    BY <1>3, <1>7, <1>9
  <2>2. QED
    BY <1>5, <2>1, Lib!SumMinus
<1>11. S(g) = S(rest) - S(second)
  <2>1. \A c \in Channels : rest[c] \in Int /\ second[c] \in Int /\ g[c] = rest[c] - second[c]
    BY <1>2, <1>3, <1>7, <1>9
  <2>2. QED
    BY <1>5, <2>1, Lib!SumMinus
<1>12. S(first) \in Nat
  BY <1>5, <1>7, Lib!SumTyped
<1>13. left = bytes - S(first)
  OBVIOUS
<1> HIDE DEF left, S
<1>14. S(f) - S(g) = Lib!Lower(bytes, S(f))
  BY <1>4, <1>6, <1>8, <1>9, <1>10, <1>11, <1>12, <1>13 DEF Lib!Lower
<1>15. QED
  BY <1>1, <1>8, <1>9, <1>14, BufferAmounts DEF d
-----------------------------------------------------------------------------
(* The processes of the two ends                                           *)

\* A change of the fields of a process leaves it one.
LEMMA UeFields ==
  /\ \A q \in UeProcesses, x \in BOOLEAN :
       /\ [q EXCEPT !.acked = x] \in UeProcesses
       /\ [q EXCEPT !.received = x] \in UeProcesses
       /\ [q EXCEPT !.configured = x] \in UeProcesses
       /\ [q EXCEPT !.ndi = x] \in UeProcesses
  /\ \A q \in UeProcesses, x \in Nat :
       [q EXCEPT !.txNb = x] \in UeProcesses /\ [q EXCEPT !.tb = x] \in UeProcesses
  /\ \A q \in UeProcesses, x \in 0 .. 3 :
       [q EXCEPT !.irv = x] \in UeProcesses /\ [q EXCEPT !.nacks = x] \in UeProcesses
  /\ \A q \in UeProcesses :
       /\ q.txNb \in Nat /\ q.irv \in 0 .. 3 /\ q.nacks \in 0 .. 3 /\ q.tb \in Nat
       /\ q.configured \in BOOLEAN /\ q.acked \in BOOLEAN /\ q.received \in BOOLEAN
       /\ q.ndi \in BOOLEAN /\ q.rv = Ue!NoRv /\ q.maxTx = MaxHarqTx
<1>1. \A q \in UeProcesses, x \in BOOLEAN :
       /\ [q EXCEPT !.acked = x] \in UeProcesses
       /\ [q EXCEPT !.received = x] \in UeProcesses
  BY DEF UeProcesses
<1>2. \A q \in UeProcesses, x \in BOOLEAN :
       /\ [q EXCEPT !.configured = x] \in UeProcesses
       /\ [q EXCEPT !.ndi = x] \in UeProcesses
  BY DEF UeProcesses
<1>3. \A q \in UeProcesses, x \in Nat :
       [q EXCEPT !.txNb = x] \in UeProcesses /\ [q EXCEPT !.tb = x] \in UeProcesses
  BY DEF UeProcesses
<1>4. \A q \in UeProcesses, x \in 0 .. 3 :
       [q EXCEPT !.irv = x] \in UeProcesses /\ [q EXCEPT !.nacks = x] \in UeProcesses
  BY DEF UeProcesses, Ue!NackLimit
<1>5. \A q \in UeProcesses :
       /\ q.txNb \in Nat /\ q.irv \in 0 .. 3 /\ q.nacks \in 0 .. 3 /\ q.tb \in Nat
       /\ q.configured \in BOOLEAN /\ q.acked \in BOOLEAN /\ q.received \in BOOLEAN
       /\ q.ndi \in BOOLEAN /\ q.rv = Ue!NoRv /\ q.maxTx = MaxHarqTx
  BY DEF UeProcesses, Ue!NackLimit
<1>6. QED
  BY <1>1, <1>2, <1>3, <1>4, <1>5

\* An idle process is a process of the UE.
LEMMA IdleProcess ==
  /\ Ue!IdleProcess \in UeProcesses /\ Ue!IdleProcess.configured = FALSE
  /\ [Ue!IdleProcess EXCEPT !.maxTx = MaxHarqTx] = Ue!IdleProcess
<1>1. MaxHarqTx \in Nat
  BY DataAssumption
<1>2. Ue!IdleProcess \in UeProcesses
  BY <1>1 DEF UeProcesses, Ue!IdleProcess, Ue!NackLimit, Ue!NoRv, NoTb
<1>3. Ue!IdleProcess.configured = FALSE
  BY DEF Ue!IdleProcess
<1>4. [Ue!IdleProcess EXCEPT !.maxTx = MaxHarqTx] = Ue!IdleProcess
  <2>1. \A q \in UeProcesses : [q EXCEPT !.maxTx = MaxHarqTx] = q
    BY DEF UeProcesses
  <2>2. QED
    BY <1>2, <2>1
<1>5. QED
  BY <1>2, <1>3, <1>4

\* Feedback frees a process, discards its TB or has it wait for a grant.
LEMMA PhichProcess ==
  ASSUME NEW q \in UeProcesses, NEW ack \in BOOLEAN
  PROVE  LET r == Ue!ApplyPhich(q, ack)
         IN  /\ r.proc \in UeProcesses
             /\ r.action.kind = "discard" => r.action.tb = q.tb
             /\ ack /\ Ue!InFlight(q) =>
                  /\ r.action.kind = "none" /\ Ue!StateOf(r.proc) = "INACTIVE"
                  /\ r.proc.ndi = q.ndi /\ r.proc.configured /\ r.proc.tb = q.tb
             /\ ~ack /\ Ue!InFlight(q) /\ q.txNb >= MaxHarqTx =>
                  /\ r.action.kind = "discard" /\ Ue!StateOf(r.proc) = "INACTIVE"
                  /\ ~r.proc.configured
             /\ ~ack /\ Ue!InFlight(q) /\ ~(q.txNb >= MaxHarqTx) =>
                  /\ r.action.kind = "none" /\ Ue!StateOf(r.proc) = "RETX_PENDING"
                  /\ Ue!InFlight(r.proc) /\ r.proc.ndi = q.ndi
                  /\ r.proc.tb = q.tb /\ r.proc.txNb = q.txNb
<1> DEFINE r == Ue!ApplyPhich(q, ack)
           one   == IF q.nacks < 3 THEN q.nacks + 1 ELSE q.nacks
           cleared == [q EXCEPT !.nacks = 0]
           freed == [q EXCEPT !.nacks = 0, !.acked = TRUE, !.received = TRUE]
           counted == [q EXCEPT !.nacks = one]
           marked  == [counted EXCEPT !.received = TRUE]
<1>1. /\ q.maxTx = MaxHarqTx /\ q.nacks \in 0 .. 3 /\ one \in 0 .. 3 /\ 0 \in 0 .. 3
      /\ MaxHarqTx \in Nat
  <2>1. MaxHarqTx \in Nat
    BY DataAssumption
  <2>2. q.maxTx = MaxHarqTx /\ q.nacks \in 0 .. 3
    BY UeFields
  <2>3. QED
    BY <2>1, <2>2
<1>2. freed \in UeProcesses
  <2>1. [cleared EXCEPT !.acked = TRUE] \in UeProcesses
    BY <1>1, UeFields
  <2>2. [[cleared EXCEPT !.acked = TRUE] EXCEPT !.received = TRUE] \in UeProcesses
    BY <2>1, UeFields
  <2>3. QED
    BY <2>2
<1>3. /\ freed.ndi = q.ndi /\ freed.configured = q.configured /\ freed.acked = TRUE
      /\ freed.tb = q.tb
  BY DEF UeProcesses
<1>4. counted \in UeProcesses
  <2> HIDE DEF one
  <2>1. QED
    BY <1>1, UeFields
<1>5. /\ counted.txNb = q.txNb /\ counted.maxTx = q.maxTx
      /\ counted.configured = q.configured /\ counted.acked = q.acked
      /\ counted.tb = q.tb /\ counted.ndi = q.ndi
  <2> HIDE DEF one
  <2>1. QED
    BY DEF UeProcesses
<1>6. marked \in UeProcesses
  <2> HIDE DEF counted
  <2>1. QED
    BY <1>4, UeFields
<1>7. /\ marked.txNb = q.txNb /\ marked.received = TRUE
      /\ marked.configured = q.configured /\ marked.acked = q.acked
      /\ marked.tb = q.tb /\ marked.ndi = q.ndi
  <2> HIDE DEF counted
  <2>1. QED
    BY <1>4, <1>5 DEF UeProcesses
<1>8. Ue!ApplyAck(q) = [proc |-> IF Ue!InFlight(q) THEN freed ELSE q, action |-> Ue!NoAction]
  BY DEF Ue!ApplyAck
<1>9. Ue!ApplyNack(q) =
        IF ~Ue!InFlight(q) THEN [proc |-> counted, action |-> Ue!NoAction]
        ELSE IF q.txNb >= MaxHarqTx
        THEN [proc |-> Ue!IdleProcess,
              action |-> [Ue!NoAction EXCEPT !.kind = "discard", !.tb = q.tb]]
        ELSE [proc |-> marked, action |-> Ue!NoAction]
  <2>1. counted = [q EXCEPT !.nacks = IF @ < Ue!NackLimit THEN @ + 1 ELSE @]
    BY DEF Ue!NackLimit
  <2> HIDE DEF counted
  <2>2. Ue!Exhausted(counted) <=> q.txNb >= MaxHarqTx
    BY <1>1, <1>5 DEF Ue!Exhausted
  <2>3. [Ue!IdleProcess EXCEPT !.maxTx = q.maxTx] = Ue!IdleProcess
    BY <1>1, IdleProcess
  <2> HIDE DEF marked
  <2>4. QED
    BY <2>1, <2>2, <2>3 DEF Ue!ApplyNack, marked
<1> HIDE DEF freed, counted, marked
<1>10. /\ Ue!NoAction.kind = "none"
       /\ [Ue!NoAction EXCEPT !.kind = "discard", !.tb = q.tb].kind = "discard"
       /\ [Ue!NoAction EXCEPT !.kind = "discard", !.tb = q.tb].tb = q.tb
  BY DEF Ue!NoAction
<1>11. r = IF ack THEN Ue!ApplyAck(q) ELSE Ue!ApplyNack(q)
  BY DEF Ue!ApplyPhich
<1> HIDE DEF r
<1>12. Ue!StateOf(freed) = "INACTIVE"
  BY <1>3 DEF Ue!StateOf
<1>13. Ue!StateOf(Ue!IdleProcess) = "INACTIVE"
  BY IdleProcess DEF Ue!StateOf
<1>14. Ue!InFlight(q) => Ue!StateOf(marked) = "RETX_PENDING" /\ Ue!InFlight(marked)
  BY <1>7 DEF Ue!StateOf, Ue!InFlight
<1>15. CASE ack
  <2>1. r.proc = (IF Ue!InFlight(q) THEN freed ELSE q) /\ r.action.kind = "none"
    BY <1>8, <1>10, <1>11, <1>15
  <2>2. QED
    BY <1>2, <1>3, <1>12, <1>15, <2>1 DEF r, Ue!InFlight
<1>16. CASE ~ack /\ ~Ue!InFlight(q)
  <2>1. r.proc = counted /\ r.action.kind = "none"
    BY <1>9, <1>10, <1>11, <1>16
  <2>2. QED
    BY <1>4, <1>16, <2>1 DEF r
<1>17. CASE ~ack /\ Ue!InFlight(q) /\ q.txNb >= MaxHarqTx
  <2>1. r.proc = Ue!IdleProcess /\ r.action.kind = "discard" /\ r.action.tb = q.tb
    BY <1>9, <1>10, <1>11, <1>17
  <2>2. QED
    BY <1>13, <1>17, <2>1, IdleProcess DEF r
<1>18. CASE ~ack /\ Ue!InFlight(q) /\ ~(q.txNb >= MaxHarqTx)
  <2>1. r.proc = marked /\ r.action.kind = "none"
    BY <1>9, <1>10, <1>11, <1>18
  <2>2. QED
    BY <1>6, <1>7, <1>14, <1>18, <2>1 DEF r
<1>19. QED
  BY <1>15, <1>16, <1>17, <1>18

\* What a grant holds.
LEMMA GrantFields ==
  \A g \in GrantItems :
    /\ g.pid \in Pids /\ g.ndiPresent = TRUE /\ g.ndi \in BOOLEAN /\ g.isRar = FALSE
    /\ g.tb \in Nat /\ g.tb > 0 /\ g.rv \in {Ue!NoRv, 0}
<1>1. \A g \in GrantItems :
        g.pid \in Pids /\ g.ndiPresent = TRUE /\ g.ndi \in BOOLEAN /\ g.isRar = FALSE
  BY DEF GrantItems
<1>2. \A g \in GrantItems : g.tb \in Nat \ {0} /\ g.rv \in {Ue!NoRv, 0}
  BY DEF GrantItems
<1>3. QED
  BY <1>1, <1>2

\* A process that takes a grant sends a new TB, or the one that it holds.
LEMMA GrantProcess ==
  ASSUME NEW q \in UeProcesses, NEW g \in GrantItems
  PROVE  LET r == Ue!NewGrantUl(q, g, FALSE)
         IN  /\ r.proc \in UeProcesses
             /\ Ue!IsNewTx(q, g, FALSE) <=> g.ndi # q.ndi \/ ~q.configured
             /\ r.action.kind = IF Ue!IsNewTx(q, g, FALSE) THEN "new" ELSE "retx"
             /\ r.action.tb = g.tb /\ r.proc.tb = g.tb
             /\ Ue!StateOf(r.proc) = "WAITING_FB" /\ Ue!InFlight(r.proc)
             /\ r.proc.ndi = g.ndi
             /\ Ue!IsNewTx(q, g, FALSE) => r.proc.txNb = 1
             /\ ~Ue!IsNewTx(q, g, FALSE) => r.proc.txNb = q.txNb + 1
<1> DEFINE r == Ue!NewGrantUl(q, g, FALSE)
           sent(x, n, i) == [x EXCEPT !.txNb = n, !.rv = Ue!NoRv, !.irv = i]
           new0 == [q EXCEPT !.ndi = g.ndi, !.tb = g.tb, !.rv = g.rv,
                             !.acked = FALSE, !.received = FALSE,
                             !.configured = TRUE, !.txNb = 0, !.irv = 0]
           old0 == [q EXCEPT !.irv = IF g.rv >= 0 THEN Ue!IrvOfRv(g.rv) ELSE @,
                             !.tb = g.tb, !.rv = g.rv,
                             !.acked = FALSE, !.received = FALSE]
           new1 == [q EXCEPT !.ndi = g.ndi, !.tb = g.tb,
                             !.acked = FALSE, !.received = FALSE, !.configured = TRUE]
           old1 == [q EXCEPT !.tb = g.tb, !.acked = FALSE, !.received = FALSE]
<1>1. /\ g.ndiPresent = TRUE /\ g.ndi \in BOOLEAN /\ g.isRar = FALSE
      /\ g.tb \in Nat /\ g.tb > 0 /\ g.rv \in {-1, 0}
  BY GrantFields DEF Ue!NoRv
<1>2. new1 \in UeProcesses /\ old1 \in UeProcesses
  <2>1. \A x \in UeProcesses : [x EXCEPT !.acked = FALSE, !.received = FALSE] \in UeProcesses
    BY DEF UeProcesses
  <2>2. \A x \in UeProcesses : [x EXCEPT !.tb = g.tb] \in UeProcesses
    BY <1>1, UeFields
  <2>3. \A x \in UeProcesses : [x EXCEPT !.ndi = g.ndi, !.configured = TRUE] \in UeProcesses
    BY <1>1 DEF UeProcesses
  <2>4. [[q EXCEPT !.tb = g.tb] EXCEPT !.acked = FALSE, !.received = FALSE] \in UeProcesses
    BY <2>1, <2>2
  <2>5. old1 = [[q EXCEPT !.tb = g.tb] EXCEPT !.acked = FALSE, !.received = FALSE]
    OBVIOUS
  <2>6. new1 = [old1 EXCEPT !.ndi = g.ndi, !.configured = TRUE]
    BY DEF UeProcesses
  <2> HIDE DEF old1
  <2>7. QED
    BY <2>3, <2>4, <2>5, <2>6
<1>3. /\ new1.tb = g.tb /\ new1.ndi = g.ndi /\ new1.configured = TRUE
      /\ new1.acked = FALSE /\ new1.received = FALSE
  BY DEF UeProcesses
<1>4. /\ old1.tb = g.tb /\ old1.ndi = q.ndi /\ old1.configured = q.configured
      /\ old1.acked = FALSE /\ old1.received = FALSE /\ old1.txNb = q.txNb
      /\ old1.irv = q.irv
  BY DEF UeProcesses
<1>5. Ue!IrvOfRv(0) = 0 /\ (0 + 1) % 4 = 1
  BY DEF Ue!IrvOfRv
<1>6. Ue!GenerateTx(new0, "new").proc = sent(new1, 1, 1)
  <2>1. /\ new0.txNb = 0 /\ new0.irv = 0
    BY DEF UeProcesses
  <2>2. Ue!GenerateTx(new0, "new").proc = sent(new0, 1, 1)
    <3> HIDE DEF new0
    <3>1. QED
      BY <1>5, <2>1 DEF Ue!GenerateTx
  <2>3. sent(new0, 1, 1) = sent(new1, 1, 1)
    BY DEF UeProcesses
  <2> HIDE DEF new0, new1, sent
  <2>4. QED
    BY <2>2, <2>3
<1>7. PICK i \in 0 .. 3 : Ue!GenerateTx(old0, "retx").proc = sent(old1, q.txNb + 1, i)
  <2> DEFINE j == IF g.rv >= 0 THEN 0 ELSE q.irv
  <2>1. j \in 0 .. 3
    BY UeFields
  <2>2. old0 = [q EXCEPT !.irv = j, !.tb = g.tb, !.rv = g.rv, !.acked = FALSE, !.received = FALSE]
    <3>1. j = IF g.rv >= 0 THEN Ue!IrvOfRv(g.rv) ELSE q.irv
      <4>1. CASE g.rv = -1
        BY <4>1
      <4>2. CASE g.rv = 0
        BY <1>5, <4>2
      <4>3. QED
        BY <1>1, <4>1, <4>2
    <3> HIDE DEF j
    <3>2. QED
      BY <3>1
  <2> HIDE DEF j, old0
  <2>3. old0.txNb = q.txNb /\ old0.irv = j
    BY <2>2 DEF UeProcesses
  <2>4. Ue!GenerateTx(old0, "retx").proc = sent(old0, q.txNb + 1, (j + 1) % 4)
    BY <2>3 DEF Ue!GenerateTx
  <2>5. sent(old0, q.txNb + 1, (j + 1) % 4) = sent(old1, q.txNb + 1, (j + 1) % 4)
    BY <2>2 DEF UeProcesses
  <2>6. (j + 1) % 4 \in 0 .. 3
    BY <2>1
  <2> HIDE DEF sent, old1
  <2>7. QED
    BY <2>4, <2>5, <2>6
<1> HIDE DEF new1, old1
<1>8. \A x \in UeProcesses, n \in Nat, k \in 0 .. 3 :
        LET s == sent(x, n, k)
        IN  /\ s \in UeProcesses
            /\ s.tb = x.tb /\ s.ndi = x.ndi /\ s.txNb = n
            /\ s.configured = x.configured /\ s.acked = x.acked
            /\ s.received = x.received
  <2> SUFFICES ASSUME NEW x \in UeProcesses, NEW n \in Nat, NEW k \in 0 .. 3
               PROVE  LET s == sent(x, n, k)
                      IN  /\ s \in UeProcesses
                          /\ s.tb = x.tb /\ s.ndi = x.ndi /\ s.txNb = n
                          /\ s.configured = x.configured /\ s.acked = x.acked
                          /\ s.received = x.received
    OBVIOUS
  <2>1. sent(x, n, k) \in UeProcesses
    BY DEF UeProcesses
  <2>2. QED
    BY <2>1 DEF UeProcesses
<1> HIDE DEF sent
<1>9. /\ Ue!GenerateTx(new0, "new").action.kind = "new"
      /\ Ue!GenerateTx(new0, "new").action.tb = g.tb
  <2>1. new0.tb = g.tb
    BY DEF UeProcesses
  <2> HIDE DEF new0
  <2>2. QED
    BY <2>1 DEF Ue!GenerateTx
<1>10. /\ Ue!GenerateTx(old0, "retx").action.kind = "retx"
       /\ Ue!GenerateTx(old0, "retx").action.tb = g.tb
  <2>1. old0.tb = g.tb
    BY DEF UeProcesses
  <2> HIDE DEF old0
  <2>2. QED
    BY <2>1 DEF Ue!GenerateTx
<1>11. Ue!IsNewTx(q, g, FALSE) <=> g.ndi # q.ndi \/ ~q.configured
  BY <1>1 DEF Ue!IsNewTx
<1>12. r = IF Ue!IsNewTx(q, g, FALSE) THEN Ue!GenerateTx(new0, "new")
           ELSE Ue!GenerateTx(old0, "retx")
  <2>1. Ue!WithLimit(q, FALSE) = q
    BY DEF Ue!WithLimit, UeProcesses
  <2>2. /\ Ue!GenerateNewTx(q, g) = Ue!GenerateTx(new0, "new")
        /\ Ue!GenerateRetx(q, g) = Ue!GenerateTx(old0, "retx")
    BY <1>1 DEF Ue!GenerateNewTx, Ue!GenerateRetx
  <2> HIDE DEF new0, old0
  <2>3. g.tb # NoTb /\ g.ndiPresent
    BY <1>1 DEF NoTb
  <2>4. r = IF Ue!IsNewTx(q, g, FALSE) THEN Ue!GenerateNewTx(q, g)
            ELSE IF q.configured THEN Ue!GenerateRetx(q, g)
            ELSE [proc |-> q, action |-> Ue!NoAction]
    BY <2>1, <2>3 DEF Ue!NewGrantUl
  <2>5. Ue!IsNewTx(q, g, FALSE) \/ q.configured
    BY <1>11
  <2>6. QED
    BY <2>2, <2>4, <2>5
<1> HIDE DEF r, new0, old0
<1>13. CASE Ue!IsNewTx(q, g, FALSE)
  <2>1. r.proc = sent(new1, 1, 1) /\ r.action.kind = "new" /\ r.action.tb = g.tb
    BY <1>6, <1>9, <1>12, <1>13
  <2>2. /\ r.proc \in UeProcesses /\ r.proc.txNb = 1
        /\ r.proc.tb = g.tb /\ r.proc.ndi = g.ndi /\ r.proc.configured = TRUE
        /\ r.proc.acked = FALSE /\ r.proc.received = FALSE
    <3>1. 1 \in Nat /\ 1 \in 0 .. 3
      OBVIOUS
    <3>2. LET s == sent(new1, 1, 1)
          IN  /\ s \in UeProcesses
              /\ s.tb = new1.tb /\ s.ndi = new1.ndi /\ s.txNb = 1
              /\ s.configured = new1.configured /\ s.acked = new1.acked
              /\ s.received = new1.received
      BY <1>2, <1>8, <3>1
    <3>3. QED
      BY <1>3, <2>1, <3>2
  <2>3. Ue!StateOf(r.proc) = "WAITING_FB" /\ Ue!InFlight(r.proc)
    BY <2>2 DEF Ue!StateOf, Ue!InFlight
  <2>4. QED
    BY <1>11, <1>13, <2>1, <2>2, <2>3 DEF r
<1>14. CASE ~Ue!IsNewTx(q, g, FALSE)
  <2>1. r.proc = sent(old1, q.txNb + 1, i) /\ r.action.kind = "retx" /\ r.action.tb = g.tb
    BY <1>7, <1>10, <1>12, <1>14
  <2>0. q.txNb + 1 \in Nat
    BY UeFields
  <2>2. g.ndi = q.ndi /\ q.configured
    BY <1>11, <1>14
  <2>3. /\ r.proc \in UeProcesses /\ r.proc.txNb = q.txNb + 1
        /\ r.proc.tb = g.tb /\ r.proc.ndi = g.ndi /\ r.proc.configured
        /\ r.proc.acked = FALSE /\ r.proc.received = FALSE
    <3>1. LET s == sent(old1, q.txNb + 1, i)
          IN  /\ s \in UeProcesses
              /\ s.tb = old1.tb /\ s.ndi = old1.ndi /\ s.txNb = q.txNb + 1
              /\ s.configured = old1.configured /\ s.acked = old1.acked
              /\ s.received = old1.received
      BY <1>2, <1>8, <2>0
    <3>2. QED
      BY <1>4, <2>1, <2>2, <3>1
  <2>4. Ue!StateOf(r.proc) = "WAITING_FB" /\ Ue!InFlight(r.proc)
    BY <2>3 DEF Ue!StateOf, Ue!InFlight
  <2>5. QED
    BY <1>11, <1>14, <2>1, <2>3, <2>4 DEF r
<1>15. QED
  BY <1>13, <1>14

\* A receiving process that has not decoded its last transmission yet.
CombinedProcesses ==
  [state : {"INACTIVE", "RETX_PENDING"}, ndiKnown : BOOLEAN, ndi : BOOLEAN,
   txCount : 0 .. MaxHarqTx, tb : Nat, soft : SUBSET Nat]

\* The receiver takes one more transmission: it starts a TB, or goes on with
\* it, and gives it up at the limit.
LEMMA ReceivedProcess ==
  ASSUME NEW q \in RxProcesses, NEW g \in GrantItems, NEW tb \in Nat, NEW ok \in BOOLEAN,
         NEW r, r = Rx!ReceiveTb(q, g, tb, ok),
         NEW n, n = IF q.ndiKnown /\ q.ndi = g.ndi THEN q.txCount + 1 ELSE 1
  PROVE  /\ r.rx \in RxProcesses /\ r.crcOk = ok
         /\ r.discarded <=> ~ok /\ n >= MaxHarqTx
         /\ ok \/ r.discarded => ~r.rx.ndiKnown /\ r.rx.txCount = 0
         /\ ~ok /\ ~r.discarded =>
              r.rx.ndiKnown /\ r.rx.ndi = g.ndi /\ r.rx.txCount = n
<1> DEFINE c == Rx!Combine(q, g, tb)
<1>1. g.ndi \in BOOLEAN /\ g.tb \in Nat /\ g.ndiPresent = TRUE
  BY GrantFields
<1>2. MaxHarqTx \in Nat \ {0} /\ q.txCount \in 0 .. MaxHarqTx - 1 /\ q.ndiKnown \in BOOLEAN
      /\ q.ndi \in BOOLEAN
  BY DataAssumption DEF RxProcesses
<1>3. n \in 1 .. MaxHarqTx
  BY <1>2
<1>4. c \in CombinedProcesses /\ c.txCount = n /\ c.ndiKnown = TRUE /\ c.ndi = g.ndi
  <2>1. CASE q.ndiKnown /\ q.ndi = g.ndi
    <3>1. c = [q EXCEPT !.txCount = @ + 1, !.soft = @ \union {tb}]
      BY <1>1, <2>1 DEF Rx!Combine, Rx!IsNewTb
    <3> HIDE DEF c
    <3>2. [q EXCEPT !.soft = @ \union {tb}] \in RxProcesses
      BY DEF RxProcesses
    <3>3. \A x \in RxProcesses : [x EXCEPT !.txCount = @ + 1] \in CombinedProcesses
      BY <1>2 DEF RxProcesses, CombinedProcesses
    <3>4. c \in CombinedProcesses
      BY <3>1, <3>2, <3>3
    <3>5. c.ndiKnown = q.ndiKnown /\ c.ndi = q.ndi /\ c.txCount = q.txCount + 1
      BY <3>1 DEF RxProcesses
    <3>6. QED
      BY <1>2, <2>1, <3>4, <3>5
  <2>2. CASE ~(q.ndiKnown /\ q.ndi = g.ndi)
    <3>1. c = [q EXCEPT !.ndiKnown = TRUE, !.ndi = g.ndi, !.tb = g.tb,
                        !.txCount = 1, !.soft = {tb}]
      BY <1>1, <2>2 DEF Rx!Combine, Rx!IsNewTb
    <3> HIDE DEF c
    <3>2. [q EXCEPT !.ndiKnown = TRUE, !.ndi = g.ndi] \in RxProcesses
      BY <1>1 DEF RxProcesses
    <3>3. \A x \in RxProcesses : [x EXCEPT !.tb = g.tb, !.soft = {tb}] \in RxProcesses
      BY <1>1 DEF RxProcesses
    <3>4. \A x \in RxProcesses : [x EXCEPT !.txCount = 1] \in CombinedProcesses
      BY <1>2 DEF RxProcesses, CombinedProcesses
    <3>5. c \in CombinedProcesses
      BY <3>1, <3>2, <3>3, <3>4
    <3>6. c.ndiKnown = TRUE /\ c.ndi = g.ndi /\ c.txCount = 1
      BY <3>1 DEF RxProcesses
    <3>7. QED
      BY <2>2, <3>5, <3>6
  <2>3. QED
    BY <2>1, <2>2
<1> HIDE DEF c
<1>5. /\ r.crcOk = ok
      /\ r.discarded <=> ~ok /\ c.txCount >= MaxHarqTx
      /\ r.rx = IF ok \/ (~ok /\ c.txCount >= MaxHarqTx) THEN Rx!Released(c)
                ELSE [c EXCEPT !.state = "RETX_PENDING"]
  BY DEF Rx!ReceiveTb, Rx!GivesUp, c
<1>6. /\ Rx!Released(c) \in RxProcesses
      /\ Rx!Released(c).ndiKnown = FALSE /\ Rx!Released(c).txCount = 0
  <2>1. [c EXCEPT !.state = "INACTIVE", !.ndiKnown = FALSE] \in CombinedProcesses
    BY <1>4 DEF CombinedProcesses
  <2>2. \A y \in CombinedProcesses : [y EXCEPT !.txCount = 0] \in RxProcesses
    BY <1>2 DEF CombinedProcesses, RxProcesses
  <2>3. \A y \in RxProcesses : [y EXCEPT !.tb = NoTb, !.soft = {}] \in RxProcesses
    BY DEF RxProcesses, NoTb
  <2>4. Rx!Released(c) \in RxProcesses
    BY <2>1, <2>2, <2>3 DEF Rx!Released
  <2>5. Rx!Released(c).ndiKnown = FALSE /\ Rx!Released(c).txCount = 0
    BY <1>4 DEF Rx!Released, CombinedProcesses
  <2>6. QED
    BY <2>4, <2>5
<1>7. n < MaxHarqTx =>
        LET w == [c EXCEPT !.state = "RETX_PENDING"]
        IN  w \in RxProcesses /\ w.ndiKnown = TRUE /\ w.ndi = g.ndi /\ w.txCount = n
  BY <1>2, <1>3, <1>4 DEF CombinedProcesses, RxProcesses
<1>8. n >= MaxHarqTx \/ n < MaxHarqTx
  BY <1>2, <1>3
<1>9. QED
  BY <1>4, <1>5, <1>6, <1>7, <1>8
-----------------------------------------------------------------------------
(* The scheduler's context                                                 *)

\* A change of the fields of a context leaves it one.
LEMMA ContextFields ==
  /\ \A c \in Contexts, x \in 0 .. 28 : [c EXCEPT !.mcs = x] \in Contexts
  /\ \A c \in Contexts, x \in BOOLEAN : [c EXCEPT !.srPending = x] \in Contexts
  /\ \A c \in Contexts, x \in OfLcgs : [c EXCEPT !.ulBuffer = x] \in Contexts
  /\ \A c \in Contexts, x \in SUBSET Pids :
       [c EXCEPT !.busy = x] \in Contexts /\ [c EXCEPT !.pendingRetx = x] \in Contexts
  /\ \A c \in Contexts, x \in [Pids -> BOOLEAN] : [c EXCEPT !.ndi = x] \in Contexts
  /\ \A c \in Contexts, x \in [Pids -> TbRecords] : [c EXCEPT !.harqTb = x] \in Contexts
  /\ \A c \in Contexts :
       /\ c.mcs \in 0 .. 28 /\ c.srPending \in BOOLEAN /\ c.ulBuffer \in OfLcgs
       /\ c.busy \in SUBSET Pids /\ c.pendingRetx \in SUBSET Pids
       /\ c.ndi \in [Pids -> BOOLEAN] /\ c.harqTb \in [Pids -> TbRecords]
       /\ c.samples = 0 /\ c.granted = 0
<1>1. \A c \in Contexts, x \in 0 .. 28 : [c EXCEPT !.mcs = x] \in Contexts
  BY DEF Contexts
<1>2. \A c \in Contexts, x \in BOOLEAN : [c EXCEPT !.srPending = x] \in Contexts
  BY DEF Contexts
<1>3. \A c \in Contexts, x \in OfLcgs : [c EXCEPT !.ulBuffer = x] \in Contexts
  BY DEF Contexts
<1>4. \A c \in Contexts, x \in SUBSET Pids : [c EXCEPT !.busy = x] \in Contexts
  BY DEF Contexts
<1>5. \A c \in Contexts, x \in SUBSET Pids : [c EXCEPT !.pendingRetx = x] \in Contexts
  BY DEF Contexts
<1>6. \A c \in Contexts, x \in [Pids -> BOOLEAN] : [c EXCEPT !.ndi = x] \in Contexts
  BY DEF Contexts
<1>7. \A c \in Contexts, x \in [Pids -> TbRecords] : [c EXCEPT !.harqTb = x] \in Contexts
  BY DEF Contexts
<1>8. \A c \in Contexts :
       /\ c.mcs \in 0 .. 28 /\ c.srPending \in BOOLEAN /\ c.ulBuffer \in OfLcgs
       /\ c.busy \in SUBSET Pids /\ c.pendingRetx \in SUBSET Pids
  BY DEF Contexts
<1>9. \A c \in Contexts :
       /\ c.ndi \in [Pids -> BOOLEAN] /\ c.harqTb \in [Pids -> TbRecords]
       /\ c.samples = 0 /\ c.granted = 0
  BY DEF Contexts
<1>10. QED
  BY <1>1, <1>2, <1>3, <1>4, <1>5, <1>6, <1>7, <1>8, <1>9

\* No MCS has less than two bytes in a PRB.
LEMMA TbsOfMcs ==
  ASSUME NEW mcs \in 0 .. 28, NEW n \in Nat \ {0}
  PROVE  Sched!Tbs(mcs, n) \in Nat \ {0}
<1>1. Sched!Anchors = Lib!Anchors /\ Sched!MaxMcs = Lib!MaxMcs
  BY DEF Sched!Anchors, Lib!Anchors, Sched!MaxMcs, Lib!MaxMcs
<1>2. Sched!AnchorOf(mcs) = Lib!AnchorOf(mcs)
  BY <1>1 DEF Sched!AnchorOf, Lib!AnchorOf
<1>3. Sched!BitsPerPrb(mcs) = Lib!BitsPerPrb(mcs)
  BY <1>1, <1>2 DEF Sched!BitsPerPrb, Lib!BitsPerPrb
<1>4. PICK bits \in Nat : bits = Sched!BitsPerPrb(mcs) /\ bits >= 16
  BY <1>3, Lib!BitsOfMcs
<1>5. Sched!Tbs(mcs, n) = (bits * n) \div 8
  BY <1>4 DEF Sched!Tbs
<1>6. bits * n \in Nat /\ bits * n >= 16
  <2>1. \A a \in Nat, k \in Nat : a * (k + 1) = a * k + a /\ a * k \in Nat
    OBVIOUS
  <2>2. PICK k \in Nat : n = k + 1
    <3>1. n - 1 \in Nat /\ n = (n - 1) + 1
      OBVIOUS
    <3>2. QED
      BY <3>1
  <2>3. bits * n = bits * k + bits /\ bits * k \in Nat
    BY <2>1, <2>2
  <2>4. QED
    BY <1>4, <2>3
<1>7. \A a \in Nat : a >= 16 => a \div 8 \in Nat \ {0}
  OBVIOUS
<1>8. QED
  BY <1>5, <1>6, <1>7

\* What an SNR and a CQI say is an MCS of the table.
LEMMA McsChosen ==
  /\ Sched!McsOfSnr(200) \in 0 .. 28
  /\ \A cqi \in 1 .. 15 : Sched!McsOfCqi(cqi) \in 0 .. 28
<1> DEFINE S == {0} \union {m \in 0 .. 28 : 200 >= Sched!SnrThresholds[m + 1]}
<1>1. Sched!McsOfSnr(200) = Sched!Highest(S)
  BY DEF Sched!McsOfSnr, Sched!MaxMcs
<1>2. S \in SUBSET (0 .. 28) /\ S # {}
  OBVIOUS
<1> HIDE DEF S
<1>3. \E x \in S : \A y \in S : y <= x
  BY <1>2, Lib!GreatestNatural
<1>4. Sched!McsOfSnr(200) \in 0 .. 28
  BY <1>1, <1>2, <1>3 DEF Sched!Highest
<1>5. \A cqi \in 1 .. 15 : Sched!McsOfCqi(cqi) \in 0 .. 28
  BY DEF Sched!McsOfCqi, Sched!MaxMcs
<1>6. QED
  BY <1>4, <1>5

\* What a UE is known to have: nothing exactly if no LCG has anything.
LEMMA DemandTyped ==
  ASSUME NEW c \in Contexts
  PROVE  /\ Sched!TotalUlBuffer(c) \in Nat
         /\ Sched!TotalUlBuffer(c) > 0 <=> \E l \in Lcgs : c.ulBuffer[l] > 0
<1>1. DOMAIN c.ulBuffer = Lcgs /\ \A l \in Lcgs : c.ulBuffer[l] \in Nat
  BY ContextFields DEF OfLcgs
<1>2. Sched!TotalUlBuffer(c) = Lib!SumOver(c.ulBuffer, Lcgs)
  BY <1>1 DEF Sched!TotalUlBuffer, Sched!Sum, Sched!SumFunction, Sched!SumFunctionOnSet,
     Sched!FoldFunctionOnSet, Sched!MapThenFoldSet, Lib!SumOver, Lib!IsSum
<1>3. Lib!IsFiniteSet(Lcgs)
  <2>1. NofLcgs \in Nat
    BY DataAssumption
  <2>2. IsFiniteSet(0 .. NofLcgs - 1)
    BY <2>1, FS_Interval
  <2>3. QED
    BY <2>2 DEF Lcgs, IsFiniteSet, Lib!IsFiniteSet
<1>4. PICK f : f = c.ulBuffer
  OBVIOUS
<1>5. Lib!SumOver(f, Lcgs) \in Nat /\ (Lib!SumOver(f, Lcgs) > 0 <=> \E l \in Lcgs : f[l] > 0)
  BY <1>1, <1>3, <1>4, Lib!SumTyped, Lib!SumPositive
<1>6. QED
  BY <1>2, <1>4, <1>5

\* An SR says of some LCG that it has bytes, and the context remembers it.
LEMMA SrHandled ==
  ASSUME NEW c \in Contexts, NEW x \in SrItems
  PROVE  LET d == Sched!HandleSr(c, x)
         IN  /\ d \in Contexts /\ \E l \in Lcgs : d.ulBuffer[l] > 0
             /\ d.busy = c.busy /\ d.pendingRetx = c.pendingRetx
             /\ d.ndi = c.ndi /\ d.harqTb = c.harqTb
<1> DEFINE d == Sched!HandleSr(c, x)
           v == [l \in Lcgs |-> IF x[l] > c.ulBuffer[l] THEN x[l] ELSE c.ulBuffer[l]]
<1>1. c.ulBuffer \in OfLcgs /\ x \in OfLcgs /\ \E l \in Lcgs : x[l] > 0
  BY ContextFields DEF SrItems
<1>2. \A l \in Lcgs : c.ulBuffer[l] \in Nat /\ x[l] \in Nat
  BY <1>1 DEF OfLcgs
<1>3. v \in OfLcgs /\ \E l \in Lcgs : v[l] > 0
  BY <1>1, <1>2 DEF OfLcgs
<1>4. d = [[c EXCEPT !.srPending = TRUE] EXCEPT !.ulBuffer = v]
  BY DEF Sched!HandleSr
<1> HIDE DEF v, d
<1>5. d \in Contexts
  BY <1>3, <1>4, ContextFields
<1>6. d.ulBuffer = v /\ d.busy = c.busy /\ d.pendingRetx = c.pendingRetx
      /\ d.ndi = c.ndi /\ d.harqTb = c.harqTb
  BY <1>4 DEF Contexts
<1>7. QED
  BY <1>3, <1>5, <1>6 DEF d

\* A CQI changes the MCS only.
LEMMA CqiHandled ==
  ASSUME NEW c \in Contexts, NEW cqi \in 0 .. 15
  PROVE  LET d == Sched!HandleCqi(c, cqi)
         IN  /\ d \in Contexts /\ d.ulBuffer = c.ulBuffer /\ d.srPending = c.srPending
             /\ d.busy = c.busy /\ d.pendingRetx = c.pendingRetx
             /\ d.ndi = c.ndi /\ d.harqTb = c.harqTb
<1>1. PICK m \in 0 .. 28 : Sched!HandleCqi(c, cqi) = [c EXCEPT !.mcs = m]
  <2>1. (IF cqi = 0 THEN Sched!McsOfSnr(200) ELSE Sched!McsOfCqi(cqi)) \in 0 .. 28
    BY McsChosen
  <2>2. QED
    BY <2>1 DEF Sched!HandleCqi, Sched!UlSnr
<1>2. [c EXCEPT !.mcs = m] \in Contexts
  BY ContextFields
<1>3. LET d == [c EXCEPT !.mcs = m]
      IN  /\ d.ulBuffer = c.ulBuffer /\ d.srPending = c.srPending
          /\ d.busy = c.busy /\ d.pendingRetx = c.pendingRetx
          /\ d.ndi = c.ndi /\ d.harqTb = c.harqTb
  BY DEF Contexts
<1>4. QED
  BY <1>1, <1>2, <1>3

\* A TB that is decided frees its process; one that is not has to be repeated.
LEMMA CrcHandled ==
  ASSUME NEW c \in Contexts, NEW p \in Pids, NEW ok \in BOOLEAN
  PROVE  LET d == Sched!HandleUlCrc(c, p, ok)
         IN  /\ d \in Contexts /\ d.ulBuffer = c.ulBuffer /\ d.srPending = c.srPending
             /\ d.ndi = c.ndi
             /\ ok => /\ d.busy = c.busy \ {p} /\ d.pendingRetx = c.pendingRetx \ {p}
                      /\ d.harqTb = [c.harqTb EXCEPT ![p] = Sched!NoTb]
             /\ ~ok => /\ d.busy = c.busy \union {p}
                       /\ d.pendingRetx = c.pendingRetx \union {p}
                       /\ d.harqTb = c.harqTb
<1>1. /\ c.busy \in SUBSET Pids /\ c.pendingRetx \in SUBSET Pids
      /\ c.harqTb \in [Pids -> TbRecords]
  BY ContextFields
<1>2. [c.harqTb EXCEPT ![p] = Sched!NoTb] \in [Pids -> TbRecords]
  BY <1>1 DEF TbRecords
<1>3. CASE ok
  <2>1. PICK b, r, t : /\ b = c.busy \ {p} /\ r = c.pendingRetx \ {p}
                       /\ t = [c.harqTb EXCEPT ![p] = Sched!NoTb]
    OBVIOUS
  <2>2. b \in SUBSET Pids /\ r \in SUBSET Pids /\ t \in [Pids -> TbRecords]
    BY <1>1, <1>2, <2>1
  <2>3. Sched!HandleUlCrc(c, p, ok) =
          [[[c EXCEPT !.pendingRetx = r] EXCEPT !.busy = b] EXCEPT !.harqTb = t]
    BY <1>3, <2>1 DEF Sched!HandleUlCrc, Contexts
  <2>4. [[[c EXCEPT !.pendingRetx = r] EXCEPT !.busy = b] EXCEPT !.harqTb = t] \in Contexts
    BY <2>2, ContextFields
  <2>5. LET d == [[[c EXCEPT !.pendingRetx = r] EXCEPT !.busy = b] EXCEPT !.harqTb = t]
        IN  /\ d.ulBuffer = c.ulBuffer /\ d.srPending = c.srPending /\ d.ndi = c.ndi
            /\ d.busy = b /\ d.pendingRetx = r /\ d.harqTb = t
    BY DEF Contexts
  <2>6. QED
    BY <1>3, <2>1, <2>3, <2>4, <2>5
<1>4. CASE ~ok
  <2>1. PICK b, r : b = c.busy \union {p} /\ r = c.pendingRetx \union {p}
    OBVIOUS
  <2>2. b \in SUBSET Pids /\ r \in SUBSET Pids
    BY <1>1, <2>1
  <2>3. Sched!HandleUlCrc(c, p, ok) = [[c EXCEPT !.pendingRetx = r] EXCEPT !.busy = b]
    BY <1>4, <2>1 DEF Sched!HandleUlCrc, Contexts
  <2>4. [[c EXCEPT !.pendingRetx = r] EXCEPT !.busy = b] \in Contexts
    BY <2>2, ContextFields
  <2>5. LET d == [[c EXCEPT !.pendingRetx = r] EXCEPT !.busy = b]
        IN  /\ d.ulBuffer = c.ulBuffer /\ d.srPending = c.srPending /\ d.ndi = c.ndi
            /\ d.busy = b /\ d.pendingRetx = r /\ d.harqTb = c.harqTb
    BY DEF Contexts
  <2>6. QED
    BY <1>4, <2>1, <2>3, <2>4, <2>5
<1>5. QED
  BY <1>3, <1>4

\* A grant repeats what the context remembers of a TB.
LEMMA GrantedFields ==
  ASSUME NEW c, NEW used, NEW p, NEW rv
  PROVE  LET r == Sched!Granted(c, used, p, rv)
         IN  /\ r.ctx = c /\ r.grants # <<>>
             /\ r.grants[1].pid = p /\ r.grants[1].ndi = c.ndi[p]
             /\ r.grants[1].rv = rv /\ r.grants[1].tb = c.harqTb[p].tbs
  BY DEF Sched!Granted

\* No grant leaves the context alone.
LEMMA NothingGranted ==
  ASSUME NEW c, NEW used
  PROVE  Sched!NoGrant(c, used).ctx = c /\ Sched!NoGrant(c, used).grants = <<>>
  BY DEF Sched!NoGrant

\* The lowest of some processes.
LEMMA LowestPid ==
  ASSUME NEW S \in SUBSET Pids, S # {}
  PROVE  Sched!Lowest(S) \in S
<1>1. S \in SUBSET Nat
  BY DEF Pids
<1>2. \E x \in S : \A y \in S : x <= y
  BY <1>1, Lib!LeastNatural
<1>3. QED
  BY <1>2 DEF Sched!Lowest

\* A grant for a retransmission repeats a TB that is remembered, of a process
\* that waits for it; a process whose TB is forgotten is released.
LEMMA RetxGranted ==
  ASSUME NEW c \in Contexts
  PROVE  LET r == Sched!GrantRetx(c, {})
         IN  r.grants # <<>> =>
               /\ r.ctx \in Contexts /\ r.ctx.srPending = c.srPending
               /\ r.ctx.ulBuffer = c.ulBuffer /\ r.ctx.ndi = c.ndi
               /\ r.ctx.harqTb = c.harqTb
               /\ \E p \in c.pendingRetx :
                    /\ r.grants[1].pid = p /\ r.grants[1].ndi = c.ndi[p]
                    /\ r.grants[1].rv = Ue!NoRv
                    /\ r.grants[1].tb = c.harqTb[p].tbs /\ c.harqTb[p] # Sched!NoTb
                    /\ Sched!Orphans(c) = {} =>
                         /\ r.ctx.busy = c.busy
                         /\ r.ctx.pendingRetx = c.pendingRetx \ {p}
<1> DEFINE orphans == Sched!Orphans(c)
           fits == {p \in c.pendingRetx \ orphans :
                      Sched!FirstFit({}, c.harqTb[p].nPrb) # Sched!NoPrb}
           p == Sched!Lowest(fits)
           seen == {q \in orphans : q < p}
           w == Sched!Without(c, seen)
           d == [w EXCEPT !.pendingRetx = @ \ {p}]
           r == Sched!GrantRetx(c, {})
<1>1. r = IF fits = {} THEN Sched!NoGrant(Sched!Without(c, orphans), {})
          ELSE Sched!Granted(d, {}, p, -1)
  BY DEF Sched!GrantRetx
<1>2. SUFFICES ASSUME fits # {}
      PROVE  /\ r.ctx \in Contexts /\ r.ctx.srPending = c.srPending
             /\ r.ctx.ulBuffer = c.ulBuffer /\ r.ctx.ndi = c.ndi
             /\ r.ctx.harqTb = c.harqTb
             /\ \E q \in c.pendingRetx :
                  /\ r.grants[1].pid = q /\ r.grants[1].ndi = c.ndi[q]
                  /\ r.grants[1].rv = Ue!NoRv
                  /\ r.grants[1].tb = c.harqTb[q].tbs /\ c.harqTb[q] # Sched!NoTb
                  /\ orphans = {} =>
                       /\ r.ctx.busy = c.busy
                       /\ r.ctx.pendingRetx = c.pendingRetx \ {q}
  <2> HIDE DEF fits, d, r, p
  <2>1. QED
    BY <1>1, NothingGranted DEF r
<1>3. /\ c.busy \in SUBSET Pids /\ c.pendingRetx \in SUBSET Pids
  BY ContextFields
<1>4. p \in c.pendingRetx /\ p \notin orphans /\ p \in fits
  <2>1. fits \in SUBSET Pids
    BY <1>3
  <2>2. p \in fits
    <3> HIDE DEF fits
    <3>1. QED
      BY <1>2, <2>1, LowestPid
  <2>3. QED
    BY <2>2
<1>5. c.harqTb[p] # Sched!NoTb
  BY <1>4 DEF Sched!Orphans
<1> HIDE DEF fits, p
<1>6. orphans = {} => seen = {}
  OBVIOUS
<1> HIDE DEF orphans
<1>7. PICK x, y : x = c.pendingRetx \ seen /\ y = c.busy \ seen
  OBVIOUS
<1>8. w = [[c EXCEPT !.pendingRetx = x] EXCEPT !.busy = y]
  BY <1>7 DEF Sched!Without, Contexts
<1> HIDE DEF w
<1>9. x \in SUBSET Pids /\ y \in SUBSET Pids
  BY <1>3, <1>7
<1>10. w \in Contexts
  BY <1>8, <1>9, ContextFields
<1>11. /\ w.srPending = c.srPending /\ w.ulBuffer = c.ulBuffer /\ w.ndi = c.ndi
       /\ w.harqTb = c.harqTb /\ w.busy = y /\ w.pendingRetx = x
  BY <1>8 DEF Contexts
<1>12. PICK z : z = x \ {p}
  OBVIOUS
<1>13. d = [w EXCEPT !.pendingRetx = z]
  BY <1>11, <1>12
<1> HIDE DEF d
<1>14. z \in SUBSET Pids
  BY <1>9, <1>12
<1>15. d \in Contexts
  BY <1>10, <1>13, <1>14, ContextFields
<1>16. /\ d.srPending = c.srPending /\ d.ulBuffer = c.ulBuffer /\ d.ndi = c.ndi
       /\ d.harqTb = c.harqTb /\ d.busy = y /\ d.pendingRetx = z
  BY <1>10, <1>11, <1>13 DEF Contexts
<1>17. r = Sched!Granted(d, {}, p, -1)
  BY <1>1, <1>2
<1> HIDE DEF r
<1>18. /\ r.ctx = d /\ r.grants[1].pid = p /\ r.grants[1].ndi = c.ndi[p]
       /\ r.grants[1].rv = Ue!NoRv /\ r.grants[1].tb = c.harqTb[p].tbs
  BY <1>16, <1>17, GrantedFields DEF Ue!NoRv
<1>19. orphans = {} => y = c.busy /\ z = c.pendingRetx \ {p}
  <2> HIDE DEF seen
  <2>1. QED
    BY <1>6, <1>7, <1>12
<1>20. QED
  BY <1>4, <1>5, <1>15, <1>16, <1>18, <1>19

\* A new TB takes PRBs, up to the whole band, for what it is meant for.
LEMMA NeededPrbs ==
  ASSUME NEW c \in Contexts
  PROVE  Sched!NeededPrb(c) \in 0 .. TotalPrb
<1>1. TotalPrb \in Nat
  BY DataAssumption
<1>2. Sched!Tbs(c.mcs, 1) \in Nat \ {0}
  <2>1. c.mcs \in 0 .. 28 /\ 1 \in Nat \ {0}
    BY ContextFields
  <2>2. QED
    BY <2>1, TbsOfMcs
<1>3. Sched!Requested(c) \in Nat
  BY DemandTyped DEF Sched!Requested, Sched!ProbeBytes
<1>4. PICK one \in Nat \ {0}, req \in Nat : one = Sched!Tbs(c.mcs, 1) /\ req = Sched!Requested(c)
  BY <1>2, <1>3
<1>5. Sched!NeededPrb(c) = Sched!Lower((req + one - 1) \div one, TotalPrb)
  BY <1>4 DEF Sched!NeededPrb
<1>6. (req + one - 1) \div one \in Nat
  <2>1. req + one - 1 \in Nat
    BY <1>4
  <2>2. \A a \in Nat, b \in Nat \ {0} : a \div b \in Nat
    OBVIOUS
  <2>3. QED
    BY <1>4, <2>1, <2>2
<1>7. QED
  BY <1>1, <1>5, <1>6 DEF Sched!Lower

\* A grant of a new TB is for a process that is free, whose NDI it toggles;
\* with it the SR is answered.
LEMMA NewGranted ==
  ASSUME NEW c \in Contexts
  PROVE  LET r == Sched!GrantNew(c, {})
         IN  \/ r.grants = <<>> /\ r.ctx = c
             \/ /\ r.grants # <<>>
                /\ r.ctx \in Contexts /\ r.ctx.srPending = FALSE
                /\ r.ctx.pendingRetx = c.pendingRetx
                /\ \E p \in Pids \ c.busy, tbs \in Nat \ {0} :
                     /\ r.grants[1].pid = p /\ r.grants[1].ndi = ~c.ndi[p]
                     /\ r.grants[1].rv = 0 /\ r.grants[1].tb = tbs
                     /\ r.ctx.busy = c.busy \union {p}
                     /\ r.ctx.ndi = [c.ndi EXCEPT ![p] = ~@]
                     /\ r.ctx.harqTb = [c.harqTb EXCEPT ![p] =
                                          [tbs |-> tbs, nPrb |-> Sched!NeededPrb(c)]]
                     /\ Sched!NeededPrb(c) \in 1 .. TotalPrb
                     /\ tbs = Sched!Tbs(c.mcs, Sched!NeededPrb(c))
<1> DEFINE n == Sched!NeededPrb(c)
           p == Sched!Lowest(Pids \ c.busy)
           r == Sched!GrantNew(c, {})
           tbs == Sched!Tbs(c.mcs, n)
           d == Sched!Committed(c, p, n)
<1>1. r = IF Sched!HasDemand(c) /\ c.busy # Pids /\ Sched!FirstFit({}, n) # Sched!NoPrb
          THEN Sched!Granted(d, {}, p, 0) ELSE Sched!NoGrant(c, {})
  <2>1. Sched!Pids = Pids
    BY DEF Sched!Pids, Pids
  <2> HIDE DEF n, d, p
  <2>2. QED
    BY <2>1 DEF Sched!GrantNew, Sched!GrantPrbs, n, d, p
<1>2. CASE ~(Sched!HasDemand(c) /\ c.busy # Pids /\ Sched!FirstFit({}, n) # Sched!NoPrb)
  <2> HIDE DEF n, d, r
  <2>1. QED
    BY <1>1, <1>2, NothingGranted DEF r
<1>3. CASE Sched!HasDemand(c) /\ c.busy # Pids /\ Sched!FirstFit({}, n) # Sched!NoPrb
  <2>1. r = Sched!Granted(d, {}, p, 0)
    BY <1>1, <1>3
  <2>2. c.busy \in SUBSET Pids /\ c.ndi \in [Pids -> BOOLEAN] /\ c.harqTb \in [Pids -> TbRecords]
        /\ c.mcs \in 0 .. 28 /\ c.samples = 0
    BY ContextFields
  <2>3. p \in Pids \ c.busy
    <3>1. Pids \ c.busy # {} /\ Pids \ c.busy \in SUBSET Pids
      BY <1>3, <2>2
    <3>2. QED
      BY <3>1, LowestPid
  <2> HIDE DEF p
  <2>4. n \in 1 .. TotalPrb
    <3>1. n # 0
      BY <1>3 DEF Sched!FirstFit
    <3>2. n \in 0 .. TotalPrb /\ TotalPrb \in Nat
      BY NeededPrbs, DataAssumption
    <3> HIDE DEF n
    <3>3. QED
      BY <3>1, <3>2
  <2> HIDE DEF n
  <2>5. tbs \in Nat \ {0}
    <3>1. n \in Nat \ {0}
      BY <2>4
    <3>2. QED
      BY <2>2, <3>1, TbsOfMcs
  <2> DEFINE tb == [tbs |-> tbs, nPrb |-> n]
  <2>6. tb \in TbRecords
    BY <2>4, <2>5 DEF TbRecords
  <2>7. PICK b, v, t, k : /\ b = c.busy \union {p} /\ v = [c.ndi EXCEPT ![p] = ~@]
                          /\ t = [c.harqTb EXCEPT ![p] = tb]
                          /\ k = Sched!Drained(c.ulBuffer, tbs)
    OBVIOUS
  <2>8. k \in OfLcgs
    <3>1. c.ulBuffer \in OfLcgs /\ NofLcgs \in Nat /\ OfLcgs = [0 .. NofLcgs - 1 -> Nat]
      BY ContextFields, DataAssumption DEF OfLcgs, Lcgs
    <3>2. tbs \in Int
      BY <2>5
    <3>3. Sched!Drained(c.ulBuffer, tbs) = Lib!Drained(c.ulBuffer, tbs)
      BY DEF Sched!Drained, Sched!Minus, Sched!Taken, Sched!LeftFor, Sched!Lower,
         Sched!Higher, Sched!SumFunctionOnSet, Sched!FoldFunctionOnSet,
         Sched!MapThenFoldSet, Lib!Drained, Lib!Minus, Lib!Taken, Lib!LeftFor,
         Lib!Lower, Lib!Higher, Lib!SumFunctionOnSet, Lib!FoldFunctionOnSet,
         Lib!MapThenFoldSet
    <3> HIDE DEF tbs
    <3>4. Lib!Drained(c.ulBuffer, tbs) \in [0 .. NofLcgs - 1 -> Nat]
      BY <3>1, <3>2, Lib!DrainedTyped
    <3>5. QED
      BY <2>7, <3>1, <3>3, <3>4
  <2>9. b \in SUBSET Pids /\ v \in [Pids -> BOOLEAN] /\ t \in [Pids -> TbRecords]
    <3> HIDE DEF tb
    <3>1. b \in SUBSET Pids
      BY <2>2, <2>3, <2>7
    <3>2. v \in [Pids -> BOOLEAN]
      BY <2>2, <2>3, <2>7
    <3>3. t \in [Pids -> TbRecords]
      BY <2>2, <2>3, <2>6, <2>7
    <3>4. QED
      BY <3>1, <3>2, <3>3
  <2>10. d = [c EXCEPT !.busy = b, !.ndi = v, !.harqTb = t, !.srPending = FALSE, !.ulBuffer = k]
    <3>1. Sched!Sampled(c, tbs) = c
      BY <2>2 DEF Sched!Sampled
    <3>2. QED
      BY <2>7, <3>1 DEF Sched!Committed, Contexts
  <2> HIDE DEF d
  <2>11. d \in Contexts
    <3>1. [[[c EXCEPT !.busy = b] EXCEPT !.ndi = v] EXCEPT !.harqTb = t] \in Contexts
      BY <2>9, ContextFields
    <3>2. \A x \in Contexts : [[x EXCEPT !.srPending = FALSE] EXCEPT !.ulBuffer = k] \in Contexts
      BY <2>8, ContextFields
    <3>3. d = [[[[[c EXCEPT !.busy = b] EXCEPT !.ndi = v] EXCEPT !.harqTb = t]
                 EXCEPT !.srPending = FALSE] EXCEPT !.ulBuffer = k]
      BY <2>10
    <3>4. QED
      BY <3>1, <3>2, <3>3
  <2>12. /\ d.busy = b /\ d.ndi = v /\ d.harqTb = t /\ d.srPending = FALSE
         /\ d.pendingRetx = c.pendingRetx
    BY <2>10 DEF Contexts
  <2>13. v[p] = ~c.ndi[p] /\ t[p] = tb /\ tb.tbs = tbs
    <3>1. t[p] = tb
      <4> HIDE DEF tb
      <4>1. QED
        BY <2>2, <2>3, <2>7
    <3>2. QED
      BY <2>2, <2>3, <2>7, <3>1
  <2> HIDE DEF r
  <2>14. /\ r.ctx = d /\ r.grants # <<>> /\ r.grants[1].pid = p
         /\ r.grants[1].ndi = d.ndi[p]
         /\ r.grants[1].rv = 0 /\ r.grants[1].tb = d.harqTb[p].tbs
    BY <2>1, GrantedFields
  <2> HIDE DEF tbs
  <2>15. /\ r.grants[1].ndi = ~c.ndi[p] /\ r.grants[1].tb = tbs
    <3> HIDE DEF tb
    <3>1. QED
      BY <2>12, <2>13, <2>14
  <2>16. QED
    BY <2>3, <2>4, <2>5, <2>7, <2>11, <2>12, <2>14, <2>15, ZenonT(60) DEF r, n, tbs
<1>4. QED
  BY <1>2, <1>3

\* The view after a report holds an amount for each LCG.
LEMMA ViewTyped ==
  ASSUME view \in OfLcgs, NEW ce, IsReport(ce)
  PROVE  ViewAfter(ce) \in OfLcgs
<1>1. \A l \in DOMAIN ce.reports : Table!IndexToBytes(ce.reports[l]) \in Nat
  BY Levels DEF IsReport
<1>2. QED
  BY <1>1 DEF ViewAfter, OfLcgs

\* What the view says goes to the scheduler, which forgets no LCG with bytes.
LEMMA ForwardedTyped ==
  ASSUME NEW c \in Contexts, NEW v \in OfLcgs
  PROVE  LET d == Forwarded(c, v)
         IN  /\ d \in Contexts /\ d.srPending = c.srPending
             /\ d.busy = c.busy /\ d.pendingRetx = c.pendingRetx
             /\ d.ndi = c.ndi /\ d.harqTb = c.harqTb
             /\ \A l \in Lcgs : c.ulBuffer[l] > 0 => d.ulBuffer[l] > 0
<1> DEFINE u == [l \in Lcgs |-> IF v[l] > 0 THEN Table!IndexToBytes(Table!BytesToIndex(v[l]))
                                ELSE c.ulBuffer[l]]
<1>1. c.ulBuffer \in OfLcgs
  BY ContextFields
<1>2. \A l \in Lcgs : c.ulBuffer[l] \in Nat /\ v[l] \in Nat
  BY <1>1 DEF OfLcgs
<1>3. \A l \in Lcgs : /\ u[l] \in Nat
                      /\ c.ulBuffer[l] > 0 => u[l] > 0
  <2>1. ASSUME NEW l \in Lcgs
        PROVE  /\ Table!IndexToBytes(Table!BytesToIndex(v[l])) \in Nat
               /\ v[l] > 0 => Table!IndexToBytes(Table!BytesToIndex(v[l])) > 0
    <3>1. v[l] \in Nat
      BY <1>2
    <3>2. /\ Table!BytesToIndex(v[l]) \in 0 .. 63
          /\ v[l] > 0 => Table!IndexToBytes(Table!BytesToIndex(v[l])) > 0
      BY <3>1, IndexOfBytes
    <3>3. QED
      BY <3>2, Levels
  <2>2. QED
    BY <1>2, <2>1
<1>4. u \in OfLcgs
  BY <1>3 DEF OfLcgs
<1>5. Forwarded(c, v) = [c EXCEPT !.ulBuffer = u]
  BY DEF Forwarded
<1> HIDE DEF u
<1>6. [c EXCEPT !.ulBuffer = u] \in Contexts
  BY <1>4, ContextFields
<1>7. LET d == [c EXCEPT !.ulBuffer = u]
      IN  /\ d.srPending = c.srPending /\ d.busy = c.busy
          /\ d.pendingRetx = c.pendingRetx
          /\ d.ndi = c.ndi /\ d.harqTb = c.harqTb /\ d.ulBuffer = u
  BY DEF Contexts
<1>8. QED
  BY <1>3, <1>5, <1>6, <1>7
-----------------------------------------------------------------------------
(* The channels                                                            *)

\* The channels of the library are those of the system.
LEMMA SameChannels ==
  /\ \A S : Lib!Messages(S) = Channel!Messages(S)
  /\ \A ch : /\ Lib!Sorted(ch) = Channel!Sorted(ch)
             /\ Lib!OnWay(ch) = Channel!OnWay(ch)
             /\ Lib!Visible(ch) = Channel!Visible(ch)
             /\ Lib!Advance(ch) = Channel!Advance(ch)
  /\ \A ch, x : Lib!Send(ch, x) = Channel!Send(ch, x)
  /\ \A ch, I : /\ Lib!Of(ch, I) = Channel!Of(ch, I)
                /\ Lib!AtMostOne(ch, I) = Channel!AtMostOne(ch, I)
  BY DEF Lib!Messages, Lib!Sorted, Lib!OnWay, Lib!Visible, Lib!Advance, Lib!Send,
     Lib!Of, Lib!AtMostOne, Channel!Messages, Channel!Sorted, Channel!OnWay,
     Channel!Visible, Channel!Advance, Channel!Send, Channel!Of, Channel!AtMostOne

\* A message sent is the newest of its channel.
LEMMA SendStep ==
  ASSUME NEW S, NEW ch \in Seq(Channel!Messages(S)), Channel!Sorted(ch), NEW x \in S
  PROVE  LET new == [left |-> Delay, item |-> x]
             c   == Channel!Send(ch, x)
         IN  /\ new \in Channel!Messages(S)
             /\ c \in Seq(Channel!Messages(S)) /\ Channel!Sorted(c)
             /\ Channel!OnWay(c) = Channel!OnWay(ch) \union {new}
             /\ \A I : /\ x \in I => Channel!Of(c, I) = Channel!Of(ch, I) \union {new}
                       /\ x \notin I => Channel!Of(c, I) = Channel!Of(ch, I)
                       /\ Channel!AtMostOne(ch, I) /\ (x \in I => Channel!Of(ch, I) = {})
                          => Channel!AtMostOne(c, I)
<1>1. Delay \in Nat \ {0}
  BY DataAssumption
<1>2. QED
  BY <1>1, SameChannels, Lib!SendStep

\* Taking the message at the front leaves the others.
LEMMA TakeStep ==
  ASSUME NEW S, NEW ch \in Seq(Channel!Messages(S)), Channel!Sorted(ch), ch # <<>>
  PROVE  LET h == Head(ch)
             c == Tail(ch)
         IN  /\ h \in Channel!Messages(S) /\ h \in Channel!OnWay(ch)
             /\ c \in Seq(Channel!Messages(S)) /\ Channel!Sorted(c)
             /\ Channel!OnWay(c) \subseteq Channel!OnWay(ch)
             /\ \A I : Channel!AtMostOne(ch, I) =>
                  /\ Channel!AtMostOne(c, I)
                  /\ h.item \in I => Channel!Of(ch, I) = {h} /\ Channel!Of(c, I) = {}
                  /\ h.item \notin I => Channel!Of(c, I) = Channel!Of(ch, I)
<1>1. Delay \in Nat \ {0}
  BY DataAssumption
<1>2. QED
  BY <1>1, SameChannels, Lib!TakeStep

\* Nothing visible at the front of a channel: nothing in it is due.
LEMMA NotVisible ==
  ASSUME NEW S, NEW ch \in Seq(Channel!Messages(S)), Channel!Sorted(ch), ~Channel!Visible(ch)
  PROVE  \A m \in Channel!OnWay(ch) : m.left > 0
<1>1. Delay \in Nat \ {0}
  BY DataAssumption
<1>2. QED
  BY <1>1, SameChannels, Lib!NotVisible

\* The clock moves on when nothing is due: every message ages by a TTI.
LEMMA AdvanceStep ==
  ASSUME NEW S, NEW ch \in Seq(Channel!Messages(S)), Channel!Sorted(ch),
         \A m \in Channel!OnWay(ch) : m.left > 0
  PROVE  LET c == Channel!Advance(ch)
         IN  /\ c \in Seq(Channel!Messages(S)) /\ Channel!Sorted(c)
             /\ \A m \in Channel!OnWay(c) : m.left < Delay
             /\ \A m \in Channel!OnWay(ch) : /\ Lib!Older(m).left = m.left - 1
                                             /\ Lib!Older(m).item = m.item
             /\ \A I : /\ Channel!Of(c, I) = {Lib!Older(m) : m \in Channel!Of(ch, I)}
                       /\ Channel!AtMostOne(ch, I) => Channel!AtMostOne(c, I)
<1>1. Delay \in Nat \ {0}
  BY DataAssumption
<1>2. QED
  BY <1>1, SameChannels, Lib!AdvanceStep

\* What a message that can be taken holds.
LEMMA TakenItem ==
  ASSUME NEW S, NEW ch \in Seq(Channel!Messages(S)), Channel!Sorted(ch), Channel!Visible(ch)
  PROVE  /\ Head(ch).item \in S
         /\ Tail(ch) \in Seq(Channel!Messages(S)) /\ Channel!Sorted(Tail(ch))
<1>1. ch # <<>>
  BY DEF Channel!Visible
<1>2. Head(ch) \in Channel!Messages(S)
  BY <1>1, TakeStep
<1>3. QED
  BY <1>1, <1>2, TakeStep DEF Channel!Messages

\* Whatever is due, the clock leaves a channel one.
LEMMA AdvanceTyped ==
  ASSUME NEW S, NEW ch \in Seq(Channel!Messages(S)), Channel!Sorted(ch)
  PROVE  /\ Channel!Advance(ch) \in Seq(Channel!Messages(S))
         /\ Channel!Sorted(Channel!Advance(ch))
<1> DEFINE c == Channel!Advance(ch)
           Aged(m) == [m EXCEPT !.left = IF @ > 0 THEN @ - 1 ELSE 0]
<1>1. Delay \in Nat
  BY DataAssumption
<1>2. DOMAIN ch = 1 .. Len(ch) /\ Len(ch) \in Nat /\ \A i \in DOMAIN ch : ch[i] \in Channel!Messages(S)
  OBVIOUS
<1>3. \A m \in Channel!Messages(S) :
        /\ Aged(m) \in Channel!Messages(S) /\ m.left \in Nat
        /\ Aged(m).left = IF m.left > 0 THEN m.left - 1 ELSE 0
  <2> SUFFICES ASSUME NEW m \in Channel!Messages(S)
               PROVE  /\ Aged(m) \in Channel!Messages(S) /\ m.left \in Nat
                      /\ Aged(m).left = IF m.left > 0 THEN m.left - 1 ELSE 0
    OBVIOUS
  <2>1. m.left \in 0 .. Delay
    BY DEF Channel!Messages
  <2>2. (IF m.left > 0 THEN m.left - 1 ELSE 0) \in 0 .. Delay
    BY <1>1, <2>1
  <2>3. QED
    BY <1>1, <2>1, <2>2 DEF Channel!Messages
<1>4. c = [i \in 1 .. Len(ch) |-> Aged(ch[i])]
  BY <1>2 DEF Channel!Advance
<1> HIDE DEF c, Aged
<1>5. c \in Seq(Channel!Messages(S))
  <2>1. c \in [1 .. Len(ch) -> Channel!Messages(S)]
    BY <1>2, <1>3, <1>4
  <2>2. QED
    BY <1>2, <2>1
<1>6. \A i \in DOMAIN ch : c[i].left = (IF ch[i].left > 0 THEN ch[i].left - 1 ELSE 0)
                           /\ ch[i].left \in Nat
  BY <1>2, <1>3, <1>4
<1>7. DOMAIN c = DOMAIN ch
  BY <1>2, <1>4
<1>8. Channel!Sorted(c)
  <2>1. ASSUME NEW i \in DOMAIN c, NEW j \in DOMAIN c, i <= j
        PROVE  c[i].left <= c[j].left
    <3>1. ch[i].left <= ch[j].left
      BY <1>7, <2>1 DEF Channel!Sorted
    <3>2. QED
      BY <1>6, <1>7, <3>1
  <2>2. QED
    BY <2>1 DEF Channel!Sorted
<1>9. QED
  BY <1>5, <1>8 DEF c
===========================================================================
