-------------------------- MODULE HarqLoopProofs --------------------------
(***************************************************************************)
(* The HARQ loop keeps its inductive invariant, LoopInv: at any moment one *)
(* place holds what is under way for a process - the grant, the            *)
(* transmission, the pending repetition - and the two ends have counted    *)
(* alike. First what the channels do to their messages and what feedback,  *)
(* grants and transmissions do to the processes of the two ends; then one  *)
(* lemma per action, which carries LoopInv over the step. The properties   *)
(* of HarqLoop and the refinement of HarqTransfer follow from it.          *)
(***************************************************************************)
EXTENDS HarqLoop, FiniteSetTheorems, TLAPS
-----------------------------------------------------------------------------
(* The channels                                                            *)

Lib == INSTANCE ProofLibrary

\* The channels of the library are those of the loop.
LEMMA SameChannels ==
  /\ \A S : Lib!Messages(S) = Channel!Messages(S)
  /\ \A ch : /\ Lib!Sorted(ch) = Channel!Sorted(ch)
             /\ Lib!OnWay(ch) = Channel!OnWay(ch)
             /\ Lib!Visible(ch) = Channel!Visible(ch)
             /\ Lib!Advance(ch) = Channel!Advance(ch)
  /\ \A ch, x : Lib!Send(ch, x) = Channel!Send(ch, x)
  /\ \A ch, I : /\ Lib!Of(ch, I) = Channel!Of(ch, I)
                /\ Lib!AtMostOne(ch, I) = Channel!AtMostOne(ch, I)
  BY DEF Lib!Messages, Lib!Sorted, Lib!OnWay, Lib!Visible, Lib!Advance, Lib!Send,
     Lib!Of, Lib!AtMostOne, Channel!Messages, Channel!Sorted, Channel!OnWay,
     Channel!Visible, Channel!Advance, Channel!Send, Channel!Of, Channel!AtMostOne

\* A message sent is the newest of its channel.
LEMMA SendStep ==
  ASSUME NEW S, NEW ch \in Seq(Channel!Messages(S)), Channel!Sorted(ch), NEW x \in S
  PROVE  LET new == [left |-> Delay, item |-> x]
             c   == Channel!Send(ch, x)
         IN  /\ new \in Channel!Messages(S)
             /\ c \in Seq(Channel!Messages(S)) /\ Channel!Sorted(c)
             /\ Channel!OnWay(c) = Channel!OnWay(ch) \union {new}
             /\ \A I : /\ x \in I => Channel!Of(c, I) = Channel!Of(ch, I) \union {new}
                       /\ x \notin I => Channel!Of(c, I) = Channel!Of(ch, I)
                       /\ Channel!AtMostOne(ch, I) /\ (x \in I => Channel!Of(ch, I) = {})
                          => Channel!AtMostOne(c, I)
  BY LoopAssumption, SameChannels, Lib!SendStep

\* Taking the message at the front leaves the others.
LEMMA TakeStep ==
  ASSUME NEW S, NEW ch \in Seq(Channel!Messages(S)), Channel!Sorted(ch), ch # <<>>
  PROVE  LET h == Head(ch)
             c == Tail(ch)
         IN  /\ h \in Channel!Messages(S) /\ h \in Channel!OnWay(ch)
             /\ c \in Seq(Channel!Messages(S)) /\ Channel!Sorted(c)
             /\ Channel!OnWay(c) \subseteq Channel!OnWay(ch)
             /\ \A I : Channel!AtMostOne(ch, I) =>
                  /\ Channel!AtMostOne(c, I)
                  /\ h.item \in I => Channel!Of(ch, I) = {h} /\ Channel!Of(c, I) = {}
                  /\ h.item \notin I => Channel!Of(c, I) = Channel!Of(ch, I)
  BY LoopAssumption, SameChannels, Lib!TakeStep

\* Nothing visible at the front of a channel: nothing in it is due.
LEMMA NotVisible ==
  ASSUME NEW S, NEW ch \in Seq(Channel!Messages(S)), Channel!Sorted(ch), ~Channel!Visible(ch)
  PROVE  \A m \in Channel!OnWay(ch) : m.left > 0
  BY LoopAssumption, SameChannels, Lib!NotVisible

\* A message a TTI later.
Older(m) == [m EXCEPT !.left = @ - 1]

\* The clock moves on when nothing is due: every message ages by a TTI.
LEMMA AdvanceStep ==
  ASSUME NEW S, NEW ch \in Seq(Channel!Messages(S)), Channel!Sorted(ch),
         \A m \in Channel!OnWay(ch) : m.left > 0
  PROVE  LET c == Channel!Advance(ch)
         IN  /\ c \in Seq(Channel!Messages(S)) /\ Channel!Sorted(c)
             /\ \A m \in Channel!OnWay(c) : m.left < Delay
             /\ \A m \in Channel!OnWay(ch) : /\ Older(m).left = m.left - 1
                                     /\ Older(m).item = m.item
             /\ \A I : /\ Channel!Of(c, I) = {Older(m) : m \in Channel!Of(ch, I)}
                       /\ Channel!AtMostOne(ch, I) => Channel!AtMostOne(c, I)
  BY LoopAssumption, SameChannels, Lib!AdvanceStep DEF Older, Lib!Older
-----------------------------------------------------------------------------
(* The processes of the two ends                                           *)

\* An idle process is a process of the UE, with its limit set and no NACK.
LEMMA IdleProcess ==
  /\ Ue!IdleProcess \in UeProcesses
  /\ Ue!IdleProcess.maxTx = MaxHarqTx /\ Ue!IdleProcess.nacks = 0
  /\ Ue!IdleProcess.configured = FALSE
<1>1. MaxHarqTx \in Nat /\ 0 \in 0 .. MaxHarqTx /\ 0 \in 0 .. 3
  BY LoopAssumption
<1>2. QED
  BY <1>1 DEF UeProcesses, Ue!IdleProcess, Ue!NackLimit, Ue!NoRv, NoTb

\* An ACK ends the wait of a process, and frees it.
LEMMA AckedProcess ==
  ASSUME NEW q \in UeProcesses, Ue!InFlight(q)
  PROVE  LET r == Ue!ApplyAck(q)
         IN  /\ r.proc \in UeProcesses /\ r.action.kind = "none"
             /\ Ue!StateOf(r.proc) = "INACTIVE" /\ ~Ue!InFlight(r.proc)
             /\ r.proc.nacks = 0 /\ r.proc.ndi = q.ndi
             /\ r.proc.configured = q.configured
<1> DEFINE r == Ue!ApplyAck(q)
           acked == [q EXCEPT !.nacks = 0, !.acked = TRUE, !.received = TRUE]
<1>1. acked \in UeProcesses
  <2>1. [q EXCEPT !.nacks = 0] \in UeProcesses
    BY DEF UeProcesses, Ue!NackLimit
  <2>2. \A x \in UeProcesses : [x EXCEPT !.acked = TRUE, !.received = TRUE] \in UeProcesses
    BY DEF UeProcesses
  <2>3. QED
    BY <2>1, <2>2
<1>2. acked.nacks = 0 /\ acked.acked
  BY DEF UeProcesses
<1>3. acked.ndi = q.ndi /\ acked.configured = q.configured
  BY DEF UeProcesses
<1>4. r.proc = acked /\ r.action.kind = "none"
  BY DEF Ue!ApplyAck, Ue!NoAction
<1> HIDE DEF acked
<1>5. QED
  BY <1>1, <1>2, <1>3, <1>4 DEF Ue!StateOf, Ue!InFlight

\* A NACK at the limit discards the TB.
LEMMA DiscardedProcess ==
  ASSUME NEW q \in UeProcesses, Ue!InFlight(q), q.txNb = MaxHarqTx
  PROVE  LET r == Ue!ApplyNack(q)
         IN  /\ r.proc \in UeProcesses
             /\ r.action.kind = "discard" /\ r.action.tb = q.tb
             /\ r.proc.nacks = 0 /\ ~r.proc.configured
             /\ Ue!StateOf(r.proc) = "INACTIVE" /\ ~Ue!InFlight(r.proc)
<1> DEFINE r == Ue!ApplyNack(q)
           counted == [q EXCEPT !.nacks = IF @ < Ue!NackLimit THEN @ + 1 ELSE @]
           idle    == [Ue!IdleProcess EXCEPT !.maxTx = q.maxTx]
<1>1. q.maxTx = MaxHarqTx /\ counted.txNb = q.txNb /\ counted.maxTx = q.maxTx
  BY DEF UeProcesses
<1>2. idle \in UeProcesses /\ idle.nacks = 0 /\ idle.configured = FALSE
  BY <1>1, IdleProcess DEF UeProcesses, Ue!IdleProcess
<1>3. Ue!Exhausted(counted)
  <2> HIDE DEF counted
  <2>1. QED
    BY <1>1, LoopAssumption DEF Ue!Exhausted
<1> HIDE DEF idle
<1>4. r.proc = idle /\ r.action.kind = "discard" /\ r.action.tb = q.tb
  BY <1>3 DEF Ue!ApplyNack, Ue!NoAction, idle
<1>5. Ue!StateOf(idle) = "INACTIVE" /\ ~Ue!InFlight(idle)
  BY <1>2 DEF Ue!StateOf, Ue!InFlight
<1>6. QED
  BY <1>2, <1>4, <1>5

\* A NACK before the limit has the TB wait to be repeated.
LEMMA NackedProcess ==
  ASSUME NeverEarly,
         NEW q \in UeProcesses, Ue!InFlight(q), q.txNb # MaxHarqTx, q.nacks < q.txNb
  PROVE  LET r == Ue!ApplyNack(q)
         IN  /\ r.proc \in UeProcesses /\ r.action.kind = "none"
             /\ r.proc.txNb = q.txNb /\ r.proc.nacks <= r.proc.txNb
             /\ r.proc.tb = q.tb /\ r.proc.ndi = q.ndi
             /\ r.proc.configured = q.configured
             /\ Ue!StateOf(r.proc) = "RETX_PENDING" /\ Ue!InFlight(r.proc)
<1> DEFINE r == Ue!ApplyNack(q)
           counted == [q EXCEPT !.nacks = IF @ < Ue!NackLimit THEN @ + 1 ELSE @]
           marked  == [counted EXCEPT !.received = TRUE]
<1>1. /\ q.txNb \in 0 .. MaxHarqTx /\ q.nacks \in 0 .. 3
      /\ q.maxTx = MaxHarqTx /\ MaxHarqTx \in Nat
  BY LoopAssumption DEF UeProcesses, Ue!NackLimit
<1>2. /\ counted \in UeProcesses
      /\ counted.txNb = q.txNb /\ counted.maxTx = q.maxTx
      /\ counted.configured = q.configured /\ counted.acked = q.acked
  BY DEF UeProcesses, Ue!NackLimit
<1>3. /\ counted.nacks <= q.nacks + 1 /\ counted.nacks \in Int
      /\ counted.tb = q.tb /\ counted.ndi = q.ndi
  BY <1>1 DEF UeProcesses, Ue!NackLimit
<1> HIDE DEF counted
<1>4. /\ marked \in UeProcesses
      /\ marked.txNb = q.txNb /\ marked.received
      /\ marked.configured = q.configured /\ marked.acked = q.acked
  BY <1>2 DEF UeProcesses
<1>5. marked.nacks = counted.nacks /\ marked.tb = q.tb /\ marked.ndi = q.ndi
  BY <1>2, <1>3 DEF UeProcesses
<1>6. ~(EarlyTermination /\ counted.nacks >= 3)
  BY <1>1, <1>3 DEF NeverEarly
<1>7. ~Ue!Exhausted(counted)
  BY <1>1, <1>2, <1>6 DEF Ue!Exhausted, Ue!NackLimit
<1>8. r.proc = marked /\ r.action.kind = "none"
  BY <1>7 DEF Ue!ApplyNack, Ue!NoAction, counted
<1> HIDE DEF marked
<1>9. marked.nacks <= q.txNb
  BY <1>1, <1>3, <1>5
<1>10. Ue!StateOf(marked) = "RETX_PENDING" /\ Ue!InFlight(marked)
  BY <1>4 DEF Ue!StateOf, Ue!InFlight
<1>11. QED
  BY <1>4, <1>5, <1>8, <1>9, <1>10

\* A process that has taken over the RV of its grant and not yet used it.
GrantedProcesses ==
  [txNb : 0 .. MaxHarqTx, irv : 0 .. 3, configured : BOOLEAN, acked : BOOLEAN,
   received : BOOLEAN, tb : Tbs \union {NoTb}, rv : -1 .. 0, ndi : BOOLEAN,
   nacks : 0 .. Ue!NackLimit, maxTx : {MaxHarqTx}]

\* What a grant of the loop holds.
LEMMA GrantFields ==
  ASSUME NEW g \in GrantItems
  PROVE  /\ g.pid \in Pids /\ g.ndiPresent /\ g.ndi \in BOOLEAN /\ ~g.isRar
         /\ g.tb \in Tbs /\ g.tb # NoTb /\ g.rv \in {Ue!NoRv, 0}
<1>1. g.pid \in Pids /\ g.ndi \in BOOLEAN
  BY DEF GrantItems
<1>2. g.ndiPresent /\ ~g.isRar
  BY DEF GrantItems
<1>3. g.tb \in Tbs /\ g.rv \in {Ue!NoRv, 0}
  BY DEF GrantItems
<1>4. g.tb # NoTb
  BY <1>3, LoopAssumption DEF Tbs, NoTb
<1>5. QED
  BY <1>1, <1>2, <1>3, <1>4

\* Taking over a grant leaves a process of the same kind.
LEMMA GrantTakenOver ==
  /\ \A x \in UeProcesses, rv \in {Ue!NoRv, 0} : [x EXCEPT !.rv = rv] \in GrantedProcesses
  /\ \A x \in GrantedProcesses :
       /\ [x EXCEPT !.acked = FALSE, !.received = FALSE] \in GrantedProcesses
       /\ [x EXCEPT !.configured = TRUE] \in GrantedProcesses
       /\ [x EXCEPT !.txNb = 0, !.irv = 0] \in GrantedProcesses
<1>1. \A x \in UeProcesses, rv \in {Ue!NoRv, 0} : [x EXCEPT !.rv = rv] \in GrantedProcesses
  BY DEF UeProcesses, GrantedProcesses, Ue!NoRv
<1>2. \A x \in GrantedProcesses :
        [x EXCEPT !.acked = FALSE, !.received = FALSE] \in GrantedProcesses
  BY DEF GrantedProcesses
<1>3. \A x \in GrantedProcesses : [x EXCEPT !.configured = TRUE] \in GrantedProcesses
  BY DEF GrantedProcesses
<1>4. \A x \in GrantedProcesses : [x EXCEPT !.txNb = 0, !.irv = 0] \in GrantedProcesses
  <2>1. 0 \in 0 .. MaxHarqTx /\ 0 \in 0 .. 3
    BY LoopAssumption
  <2>2. QED
    BY <2>1 DEF GrantedProcesses
<1>5. QED
  BY <1>1, <1>2, <1>3, <1>4

\* A transmission is counted, and says what it carries.
LEMMA TransmitStep ==
  ASSUME NEW q \in GrantedProcesses, q.txNb # MaxHarqTx, NEW kind
  PROVE  LET r == Ue!GenerateTx(q, kind)
         IN  /\ r.proc \in UeProcesses
             /\ r.proc.txNb = q.txNb + 1 /\ r.proc.nacks = q.nacks
             /\ r.proc.tb = q.tb /\ r.proc.ndi = q.ndi
             /\ r.proc.configured = q.configured /\ r.proc.acked = q.acked
             /\ r.proc.received = q.received
<1> DEFINE r == Ue!GenerateTx(q, kind)
           p == [q EXCEPT !.txNb = @ + 1, !.rv = Ue!NoRv, !.irv = (@ + 1) % 4]
<1>1. [q EXCEPT !.txNb = @ + 1, !.rv = Ue!NoRv] \in UeProcesses
  <2>1. [q EXCEPT !.rv = Ue!NoRv] \in UeProcesses
    BY DEF UeProcesses, GrantedProcesses, Ue!NoRv
  <2>2. \A x \in UeProcesses : x.txNb # MaxHarqTx => [x EXCEPT !.txNb = @ + 1] \in UeProcesses
    BY LoopAssumption DEF UeProcesses
  <2>3. QED
    BY <2>1, <2>2
<1>2. \A irv \in 0 .. 3 : (irv + 1) % 4 \in 0 .. 3
  OBVIOUS
<1>3. \A x \in UeProcesses : [x EXCEPT !.irv = (@ + 1) % 4] \in UeProcesses
  BY <1>2 DEF UeProcesses
<1>4. p \in UeProcesses
  BY <1>1, <1>3
<1>5. p.txNb = q.txNb + 1 /\ p.nacks = q.nacks /\ p.tb = q.tb /\ p.ndi = q.ndi
  BY DEF GrantedProcesses
<1>6. p.configured = q.configured /\ p.acked = q.acked /\ p.received = q.received
  BY DEF GrantedProcesses
<1> HIDE DEF p
<1>7. r.proc = p
  BY DEF Ue!GenerateTx, p
<1>8. QED
  BY <1>4, <1>5, <1>6, <1>7

\* What a transmission says of its TB.
LEMMA TransmitAction ==
  ASSUME NEW q, NEW kind
  PROVE  LET a == Ue!GenerateTx(q, kind).action
         IN  a.kind = kind /\ a.tb = q.tb /\ a.nb = q.txNb + 1
BY DEF Ue!GenerateTx

\* A grant does not change the limit, the same for every grant of the loop.
LEMMA LimitKept ==
  ASSUME NEW q \in UeProcesses
  PROVE  Ue!WithLimit(q, FALSE) = q
BY DEF Ue!WithLimit, UeProcesses

\* A grant for a new TB has the process send it for the first time.
LEMMA NewTbProcess ==
  ASSUME NEW q \in UeProcesses, NEW g \in GrantItems, g.rv = 0,
         q.configured => g.ndi # q.ndi
  PROVE  LET r == TakeGrant(q, g)
         IN  /\ r.proc \in UeProcesses
             /\ r.proc.txNb = 1 /\ r.proc.nacks = q.nacks
             /\ r.proc.tb = g.tb /\ r.proc.ndi = g.ndi
             /\ Ue!StateOf(r.proc) = "WAITING_FB" /\ Ue!InFlight(r.proc)
             /\ r.action.kind = "new" /\ r.action.tb = g.tb /\ r.action.nb = 1
<1> DEFINE r == TakeGrant(q, g)
           p == [q EXCEPT !.ndi = g.ndi, !.tb = g.tb, !.rv = g.rv,
                          !.acked = FALSE, !.received = FALSE,
                          !.configured = TRUE, !.txNb = 0, !.irv = 0]
<1>1. g.ndi \in BOOLEAN /\ g.tb \in Tbs /\ g.ndiPresent /\ g.tb # NoTb
  BY GrantFields
<1>2. p \in GrantedProcesses
  <2>1. [q EXCEPT !.ndi = g.ndi, !.tb = g.tb] \in UeProcesses
    BY <1>1 DEF UeProcesses
  <2>2. QED
    BY <2>1, GrantFields, GrantTakenOver
<1>3. p.txNb = 0 /\ p.nacks = q.nacks /\ p.tb = g.tb /\ p.ndi = g.ndi
  BY DEF UeProcesses
<1>4. p.configured /\ ~p.acked /\ ~p.received
  BY DEF UeProcesses
<1> HIDE DEF p
<1>5. r = Ue!GenerateTx(p, "new")
  BY <1>1, LimitKept DEF TakeGrant, Ue!NewGrantUl, Ue!IsNewTx, Ue!GenerateNewTx, p
<1>6. p.txNb # MaxHarqTx
  BY <1>3, LoopAssumption
<1>7. /\ r.proc \in UeProcesses
      /\ r.proc.txNb = p.txNb + 1 /\ r.proc.nacks = p.nacks
      /\ r.proc.tb = p.tb /\ r.proc.ndi = p.ndi
      /\ r.proc.configured = p.configured /\ r.proc.acked = p.acked
      /\ r.proc.received = p.received
  BY <1>2, <1>5, <1>6, TransmitStep
<1>8. r.action.kind = "new" /\ r.action.tb = p.tb /\ r.action.nb = p.txNb + 1
  BY <1>5, TransmitAction
<1>9. Ue!StateOf(r.proc) = "WAITING_FB" /\ Ue!InFlight(r.proc)
  BY <1>4, <1>7 DEF Ue!StateOf, Ue!InFlight
<1>10. QED
  BY <1>3, <1>7, <1>8, <1>9

\* A grant that repeats the NDI has the process send its TB once more.
LEMMA RepeatedTbProcess ==
  ASSUME NEW q \in UeProcesses, Ue!InFlight(q), q.txNb # MaxHarqTx,
         NEW g \in GrantItems, g.rv = Ue!NoRv, g.ndi = q.ndi, g.tb = q.tb
  PROVE  LET r == TakeGrant(q, g)
         IN  /\ r.proc \in UeProcesses
             /\ r.proc.txNb = q.txNb + 1 /\ r.proc.nacks = q.nacks
             /\ r.proc.tb = q.tb /\ r.proc.ndi = q.ndi
             /\ Ue!StateOf(r.proc) = "WAITING_FB" /\ Ue!InFlight(r.proc)
             /\ r.action.kind = "retx" /\ r.action.tb = q.tb
             /\ r.action.nb = q.txNb + 1
<1> DEFINE r == TakeGrant(q, g)
           p == [q EXCEPT !.irv = @, !.tb = g.tb, !.rv = g.rv,
                          !.acked = FALSE, !.received = FALSE]
<1>1. g.tb \in Tbs /\ g.ndiPresent /\ g.tb # NoTb /\ ~g.isRar /\ ~(g.rv >= 0)
  BY GrantFields DEF Ue!NoRv
<1>2. p \in GrantedProcesses
  <2>1. [q EXCEPT !.irv = @, !.tb = g.tb] \in UeProcesses
    BY <1>1 DEF UeProcesses
  <2>2. QED
    BY <2>1, GrantFields, GrantTakenOver
<1>3. p.txNb = q.txNb /\ p.nacks = q.nacks /\ p.tb = q.tb /\ p.ndi = q.ndi
  BY DEF UeProcesses
<1>4. p.configured = q.configured /\ ~p.acked /\ ~p.received
  BY DEF UeProcesses
<1> HIDE DEF p
<1>5. q.configured /\ ~Ue!IsNewTx(q, g, FALSE)
  BY <1>1 DEF Ue!InFlight, Ue!IsNewTx
<1>6. r = Ue!GenerateTx(p, "retx")
  BY <1>1, <1>5, LimitKept DEF TakeGrant, Ue!NewGrantUl, Ue!GenerateRetx, p
<1>7. /\ r.proc \in UeProcesses
      /\ r.proc.txNb = p.txNb + 1 /\ r.proc.nacks = p.nacks
      /\ r.proc.tb = p.tb /\ r.proc.ndi = p.ndi
      /\ r.proc.configured = p.configured /\ r.proc.acked = p.acked
      /\ r.proc.received = p.received
  <2>1. p.txNb # MaxHarqTx
    BY <1>3
  <2>2. QED
    BY <1>2, <1>6, <2>1, TransmitStep
<1>8. r.action.kind = "retx" /\ r.action.tb = p.tb /\ r.action.nb = p.txNb + 1
  BY <1>6, TransmitAction
<1>9. Ue!StateOf(r.proc) = "WAITING_FB" /\ Ue!InFlight(r.proc)
  BY <1>4, <1>5, <1>7 DEF Ue!StateOf, Ue!InFlight
<1>10. QED
  BY <1>3, <1>7, <1>8, <1>9

\* A receiving process that has not decoded its last transmission yet.
CombinedProcesses ==
  [state : {"INACTIVE", "RETX_PENDING"}, ndiKnown : BOOLEAN, ndi : BOOLEAN,
   txCount : 0 .. MaxHarqTx, tb : Tbs \union {NoTb}, soft : SUBSET Tbs]

\* What r makes of a transmission that process q of the eNB receives with
\* grant g: the TB is decided, or has to be repeated.
HasReceived(q, g, ok, r) ==
  /\ r.rx \in RxProcesses /\ r.crcOk = ok /\ r.tb = g.tb
  /\ r.discarded <=> ~ok /\ q.txCount + 1 = MaxHarqTx
  /\ ok \/ r.discarded =>
       ~r.rx.ndiKnown /\ r.rx.txCount = 0 /\ r.rx.soft = {}
  /\ ~ok /\ ~r.discarded =>
       /\ r.rx.ndiKnown /\ r.rx.ndi = g.ndi /\ r.rx.tb = g.tb
       /\ r.rx.soft = {g.tb} /\ r.rx.txCount = q.txCount + 1

\* The receiver takes one more transmission of a TB: it starts the TB, or
\* goes on with it, and gives it up at the limit.
LEMMA ReceivedTb ==
  ASSUME NEW q \in RxProcesses, NEW g \in GrantItems, NEW ok \in BOOLEAN,
         \/ ~q.ndiKnown /\ q.txCount = 0
         \/ q.ndiKnown /\ q.ndi = g.ndi /\ q.tb = g.tb /\ q.soft = {g.tb}
  PROVE  HasReceived(q, g, ok, Enb!ReceiveTb(q, g, g.tb, ok))
<1> DEFINE r == Enb!ReceiveTb(q, g, g.tb, ok)
           c == Enb!Combine(q, g, g.tb)
<1>1. /\ g.ndi \in BOOLEAN /\ g.tb \in Tbs /\ g.ndiPresent
      /\ q.txCount \in 0 .. MaxHarqTx - 1 /\ MaxHarqTx \in Nat \ {0}
  BY LoopAssumption DEF GrantItems, RxProcesses
<1>2. /\ c \in CombinedProcesses
      /\ c.txCount = q.txCount + 1 /\ c.ndiKnown /\ c.ndi = g.ndi
      /\ c.tb = g.tb /\ c.soft = {g.tb}
  <2>1. CASE ~q.ndiKnown
    <3>1. c = [q EXCEPT !.ndiKnown = TRUE, !.ndi = g.ndi, !.tb = g.tb,
                        !.txCount = 1, !.soft = {g.tb}]
      BY <1>1, <2>1 DEF Enb!Combine, Enb!IsNewTb
    <3> HIDE DEF c
    <3>2. [q EXCEPT !.ndiKnown = TRUE, !.ndi = g.ndi] \in RxProcesses
      BY <1>1 DEF RxProcesses
    <3>3. \A x \in RxProcesses : [x EXCEPT !.tb = g.tb, !.soft = {g.tb}] \in RxProcesses
      BY <1>1 DEF RxProcesses
    <3>4. \A x \in RxProcesses : [x EXCEPT !.txCount = 1] \in CombinedProcesses
      BY <1>1 DEF RxProcesses, CombinedProcesses
    <3>5. c \in CombinedProcesses
      BY <3>1, <3>2, <3>3, <3>4
    <3>6. c.ndiKnown /\ c.ndi = g.ndi /\ c.tb = g.tb
      BY <3>1 DEF RxProcesses
    <3>7. c.txCount = 1 /\ c.soft = {g.tb}
      BY <3>1 DEF RxProcesses
    <3>8. QED
      BY <2>1, <3>5, <3>6, <3>7
  <2>2. CASE q.ndiKnown
    <3>1. c = [q EXCEPT !.txCount = @ + 1, !.soft = @ \union {g.tb}]
      BY <1>1, <2>2 DEF Enb!Combine, Enb!IsNewTb
    <3> HIDE DEF c
    <3>2. [q EXCEPT !.soft = @ \union {g.tb}] \in RxProcesses
      BY <1>1 DEF RxProcesses
    <3>3. \A x \in RxProcesses : [x EXCEPT !.txCount = @ + 1] \in CombinedProcesses
      BY <1>1 DEF RxProcesses, CombinedProcesses
    <3>4. c \in CombinedProcesses
      BY <3>1, <3>2, <3>3
    <3>5. c.ndiKnown = q.ndiKnown /\ c.ndi = q.ndi /\ c.tb = q.tb
      BY <3>1 DEF RxProcesses
    <3>6. c.txCount = q.txCount + 1 /\ c.soft = q.soft \union {g.tb}
      BY <3>1 DEF RxProcesses
    <3>7. QED
      BY <2>2, <3>4, <3>5, <3>6
  <2>3. QED
    BY <2>1, <2>2
<1> HIDE DEF c
<1>3. /\ r.crcOk = ok /\ r.tb = c.tb
      /\ r.discarded <=> ~ok /\ c.txCount >= MaxHarqTx
      /\ r.rx = IF ok \/ c.txCount >= MaxHarqTx THEN Enb!Released(c)
                ELSE [c EXCEPT !.state = "RETX_PENDING"]
  BY DEF Enb!ReceiveTb, Enb!GivesUp, c
<1>4. /\ Enb!Released(c) \in RxProcesses
      /\ ~Enb!Released(c).ndiKnown /\ Enb!Released(c).txCount = 0
      /\ Enb!Released(c).soft = {}
  <2> DEFINE x == [c EXCEPT !.state = "INACTIVE", !.ndiKnown = FALSE]
             e == Enb!Released(c)
  <2>1. x \in CombinedProcesses
    BY <1>2 DEF CombinedProcesses
  <2>2. \A y \in CombinedProcesses : [y EXCEPT !.txCount = 0] \in RxProcesses
    BY <1>1 DEF CombinedProcesses, RxProcesses
  <2>3. \A y \in RxProcesses : [y EXCEPT !.tb = NoTb, !.soft = {}] \in RxProcesses
    BY DEF RxProcesses
  <2>4. e \in RxProcesses
    BY <2>1, <2>2, <2>3 DEF Enb!Released
  <2>5. ~e.ndiKnown
    BY <1>2 DEF Enb!Released, CombinedProcesses
  <2>6. e.txCount = 0 /\ e.soft = {}
    BY <1>2 DEF Enb!Released, CombinedProcesses
  <2>7. QED
    BY <2>4, <2>5, <2>6
<1>5. c.txCount < MaxHarqTx =>
        LET w == [c EXCEPT !.state = "RETX_PENDING"]
        IN  /\ w \in RxProcesses /\ w.ndiKnown /\ w.ndi = g.ndi /\ w.tb = g.tb
            /\ w.soft = {g.tb} /\ w.txCount = q.txCount + 1
  BY <1>1, <1>2 DEF CombinedProcesses, RxProcesses
<1>6. CASE ok \/ c.txCount >= MaxHarqTx
  <2>1. r.rx = Enb!Released(c)
    BY <1>3, <1>6
  <2>2. QED
    BY <1>1, <1>2, <1>3, <1>4, <1>6, <2>1 DEF HasReceived
<1>7. CASE ~ok /\ ~(c.txCount >= MaxHarqTx)
  <2>1. r.rx = [c EXCEPT !.state = "RETX_PENDING"]
    BY <1>3, <1>7
  <2>2. c.txCount < MaxHarqTx
    BY <1>1, <1>2, <1>7
  <2>3. ~r.discarded /\ q.txCount + 1 # MaxHarqTx
    BY <1>1, <1>2, <1>3, <1>7
  <2>4. QED
    BY <1>2, <1>3, <1>5, <1>7, <2>1, <2>2, <2>3 DEF HasReceived
<1>8. QED
  BY <1>6, <1>7
-----------------------------------------------------------------------------
(* The messages of a process                                               *)

\* What the messages of a channel are.
LEMMA OnWayTyped ==
  ASSUME NEW S, NEW ch \in Seq(Channel!Messages(S)), NEW m \in Channel!OnWay(ch)
  PROVE  m.left \in 0 .. Delay /\ m.item \in S
<1>1. PICK i \in DOMAIN ch : m = ch[i]
  BY DEF Channel!OnWay
<1>2. m \in Channel!Messages(S)
  BY <1>1
<1>3. QED
  BY <1>2 DEF Channel!Messages

\* The message at the front is the only one of its process.
LEMMA GrantFirst ==
  ASSUME GrantChOK, grantCh # <<>>, NEW m, m = Head(grantCh),
         NEW p, p = m.item.pid
  PROVE  m.item \in GrantItems /\ p \in Pids /\ GrantsOf(p) = {m}
<1>1. /\ m \in Channel!Messages(GrantItems)
      /\ \A I : Channel!AtMostOne(grantCh, I) /\ m.item \in I => Channel!Of(grantCh, I) = {m}
  BY TakeStep DEF GrantChOK
<1>2. m.item \in GrantItems
  BY <1>1 DEF Channel!Messages
<1>3. p \in Pids
  BY <1>2 DEF GrantItems
<1>4. m.item \in GrantItemsOf(p) /\ Channel!AtMostOne(grantCh, GrantItemsOf(p))
  BY <1>2, <1>3 DEF GrantChOK, GrantItemsOf
<1>5. QED
  BY <1>1, <1>2, <1>3, <1>4 DEF GrantsOf

\* The message at the front is the only one of its process.
LEMMA PhichFirst ==
  ASSUME PhichChOK, phichCh # <<>>, NEW m, m = Head(phichCh),
         NEW p, p = m.item.pid
  PROVE  m.item \in PhichItems /\ p \in Pids /\ PhichOf(p) = {m}
<1>1. /\ m \in Channel!Messages(PhichItems)
      /\ \A I : Channel!AtMostOne(phichCh, I) /\ m.item \in I => Channel!Of(phichCh, I) = {m}
  BY TakeStep DEF PhichChOK
<1>2. m.item \in PhichItems
  BY <1>1 DEF Channel!Messages
<1>3. p \in Pids
  BY <1>2 DEF PhichItems
<1>4. m.item \in PhichItemsOf(p) /\ Channel!AtMostOne(phichCh, PhichItemsOf(p))
  BY <1>2, <1>3 DEF PhichChOK, PhichItemsOf
<1>5. QED
  BY <1>1, <1>2, <1>3, <1>4 DEF PhichOf

\* The message at the front is the only one of its process.
LEMMA PuschFirst ==
  ASSUME PuschChOK, puschCh # <<>>, NEW m, m = Head(puschCh),
         NEW p, p = m.item.grant.pid
  PROVE  m.item \in PuschItems /\ p \in Pids /\ PuschOf(p) = {m}
<1>1. /\ m \in Channel!Messages(PuschItems)
      /\ \A I : Channel!AtMostOne(puschCh, I) /\ m.item \in I => Channel!Of(puschCh, I) = {m}
  BY TakeStep DEF PuschChOK
<1>2. m.item \in PuschItems
  BY <1>1 DEF Channel!Messages
<1>3. p \in Pids
  BY <1>2 DEF PuschItems, GrantItems
<1>4. m.item \in PuschItemsOf(p) /\ Channel!AtMostOne(puschCh, PuschItemsOf(p))
  BY <1>2, <1>3 DEF PuschChOK, PuschItemsOf
<1>5. QED
  BY <1>1, <1>2, <1>3, <1>4 DEF PuschOf

\* The grant taken is the only message of its process.
LEMMA GrantTaken ==
  ASSUME GrantChOK, grantCh # <<>>, grantCh' = Tail(grantCh),
         NEW m, m = Head(grantCh), NEW p, p = m.item.pid
  PROVE  /\ GrantChOK'
         /\ m \in Channel!OnWay(grantCh) /\ Channel!OnWay(grantCh') \subseteq Channel!OnWay(grantCh)
         /\ m.item \in GrantItems /\ m.left \in 0 .. Delay /\ p \in Pids
         /\ GrantsOf(p) = {m} /\ GrantsOf(p)' = {}
         /\ \A o \in Pids : o # p => GrantsOf(o)' = GrantsOf(o)
<1>1. /\ m \in Channel!Messages(GrantItems) /\ m \in Channel!OnWay(grantCh)
      /\ grantCh' \in Seq(Channel!Messages(GrantItems)) /\ Channel!Sorted(grantCh')
      /\ Channel!OnWay(grantCh') \subseteq Channel!OnWay(grantCh)
      /\ \A I : Channel!AtMostOne(grantCh, I) =>
           /\ Channel!AtMostOne(grantCh', I)
           /\ m.item \in I => Channel!Of(grantCh, I) = {m} /\ Channel!Of(grantCh', I) = {}
           /\ m.item \notin I => Channel!Of(grantCh', I) = Channel!Of(grantCh, I)
  BY TakeStep DEF GrantChOK
<1>2. m.item \in GrantItems /\ m.left \in 0 .. Delay
  BY <1>1 DEF Channel!Messages
<1>3. p \in Pids
  BY <1>2 DEF GrantItems
<1>4. m.item \in GrantItemsOf(p) /\ Channel!AtMostOne(grantCh, GrantItemsOf(p))
  BY <1>2, <1>3 DEF GrantChOK, GrantItemsOf
<1>5. ASSUME NEW o \in Pids, o # p
      PROVE  m.item \notin GrantItemsOf(o) /\ Channel!AtMostOne(grantCh, GrantItemsOf(o))
  BY <1>5 DEF GrantChOK, GrantItemsOf
<1>6. \A o \in Pids : GrantsOf(o)' = Channel!Of(grantCh', GrantItemsOf(o))
  BY DEF GrantsOf, GrantItemsOf
<1>7. GrantsOf(p) = {m} /\ GrantsOf(p)' = {}
  BY <1>1, <1>3, <1>4, <1>6 DEF GrantsOf
<1>8. \A o \in Pids : o # p => GrantsOf(o)' = GrantsOf(o)
  BY <1>1, <1>5, <1>6 DEF GrantsOf
<1>9. GrantChOK'
  BY <1>1, <1>4, <1>5 DEF GrantChOK, GrantItemsOf
<1>10. QED
  BY <1>1, <1>2, <1>3, <1>7, <1>8, <1>9

\* The grant sent becomes the only message of its process.
LEMMA GrantSent ==
  ASSUME GrantChOK, NEW x \in GrantItems, grantCh' = Channel!Send(grantCh, x),
         NEW p, p = x.pid, GrantsOf(p) = {},
         NEW m, m = [left |-> Delay, item |-> x]
  PROVE  /\ GrantChOK' /\ Channel!OnWay(grantCh') = Channel!OnWay(grantCh) \union {m}
         /\ p \in Pids /\ GrantsOf(p)' = {m} /\ m.left = Delay /\ m.item = x
         /\ \A o \in Pids : o # p => GrantsOf(o)' = GrantsOf(o)
<1>1. /\ grantCh' \in Seq(Channel!Messages(GrantItems)) /\ Channel!Sorted(grantCh')
      /\ Channel!OnWay(grantCh') = Channel!OnWay(grantCh) \union {m}
      /\ \A I : /\ x \in I => Channel!Of(grantCh', I) = Channel!Of(grantCh, I) \union {m}
                /\ x \notin I => Channel!Of(grantCh', I) = Channel!Of(grantCh, I)
                /\ Channel!AtMostOne(grantCh, I) /\ (x \in I => Channel!Of(grantCh, I) = {})
                     => Channel!AtMostOne(grantCh', I)
  BY SendStep DEF GrantChOK
<1>2. p \in Pids
  BY DEF GrantItems
<1>3. x \in GrantItemsOf(p) /\ \A o \in Pids : o # p => x \notin GrantItemsOf(o)
  BY DEF GrantItemsOf
<1>4. \A o \in Pids : GrantsOf(o)' = Channel!Of(grantCh', GrantItemsOf(o))
  BY DEF GrantsOf, GrantItemsOf
<1>5. GrantsOf(p)' = {m}
  BY <1>1, <1>2, <1>3, <1>4 DEF GrantsOf
<1>6. \A o \in Pids : o # p => GrantsOf(o)' = GrantsOf(o)
  BY <1>1, <1>3, <1>4 DEF GrantsOf
<1>7. GrantChOK'
  BY <1>1, <1>3 DEF GrantChOK, GrantsOf, GrantItemsOf
<1>8. QED
  BY <1>1, <1>2, <1>5, <1>6, <1>7

\* The transmission taken is the only message of its process.
LEMMA PuschTaken ==
  ASSUME PuschChOK, puschCh # <<>>, puschCh' = Tail(puschCh),
         NEW m, m = Head(puschCh), NEW p, p = m.item.grant.pid
  PROVE  /\ PuschChOK'
         /\ m \in Channel!OnWay(puschCh) /\ Channel!OnWay(puschCh') \subseteq Channel!OnWay(puschCh)
         /\ m.item \in PuschItems /\ m.left \in 0 .. Delay /\ p \in Pids
         /\ PuschOf(p) = {m} /\ PuschOf(p)' = {}
         /\ \A o \in Pids : o # p => PuschOf(o)' = PuschOf(o)
<1>1. /\ m \in Channel!Messages(PuschItems) /\ m \in Channel!OnWay(puschCh)
      /\ puschCh' \in Seq(Channel!Messages(PuschItems)) /\ Channel!Sorted(puschCh')
      /\ Channel!OnWay(puschCh') \subseteq Channel!OnWay(puschCh)
      /\ \A I : Channel!AtMostOne(puschCh, I) =>
           /\ Channel!AtMostOne(puschCh', I)
           /\ m.item \in I => Channel!Of(puschCh, I) = {m} /\ Channel!Of(puschCh', I) = {}
           /\ m.item \notin I => Channel!Of(puschCh', I) = Channel!Of(puschCh, I)
  BY TakeStep DEF PuschChOK
<1>2. m.item \in PuschItems /\ m.left \in 0 .. Delay
  BY <1>1 DEF Channel!Messages
<1>3. p \in Pids
  BY <1>2 DEF PuschItems, GrantItems
<1>4. m.item \in PuschItemsOf(p) /\ Channel!AtMostOne(puschCh, PuschItemsOf(p))
  BY <1>2, <1>3 DEF PuschChOK, PuschItemsOf
<1>5. ASSUME NEW o \in Pids, o # p
      PROVE  m.item \notin PuschItemsOf(o) /\ Channel!AtMostOne(puschCh, PuschItemsOf(o))
  BY <1>5 DEF PuschChOK, PuschItemsOf
<1>6. \A o \in Pids : PuschOf(o)' = Channel!Of(puschCh', PuschItemsOf(o))
  BY DEF PuschOf, PuschItemsOf
<1>7. PuschOf(p) = {m} /\ PuschOf(p)' = {}
  BY <1>1, <1>3, <1>4, <1>6 DEF PuschOf
<1>8. \A o \in Pids : o # p => PuschOf(o)' = PuschOf(o)
  BY <1>1, <1>5, <1>6 DEF PuschOf
<1>9. PuschChOK'
  BY <1>1, <1>4, <1>5 DEF PuschChOK, PuschItemsOf
<1>10. QED
  BY <1>1, <1>2, <1>3, <1>7, <1>8, <1>9

\* The transmission sent becomes the only message of its process.
LEMMA PuschSent ==
  ASSUME PuschChOK, NEW x \in PuschItems, puschCh' = Channel!Send(puschCh, x),
         NEW p, p = x.grant.pid, PuschOf(p) = {},
         NEW m, m = [left |-> Delay, item |-> x]
  PROVE  /\ PuschChOK' /\ Channel!OnWay(puschCh') = Channel!OnWay(puschCh) \union {m}
         /\ p \in Pids /\ PuschOf(p)' = {m} /\ m.left = Delay /\ m.item = x
         /\ \A o \in Pids : o # p => PuschOf(o)' = PuschOf(o)
<1>1. /\ puschCh' \in Seq(Channel!Messages(PuschItems)) /\ Channel!Sorted(puschCh')
      /\ Channel!OnWay(puschCh') = Channel!OnWay(puschCh) \union {m}
      /\ \A I : /\ x \in I => Channel!Of(puschCh', I) = Channel!Of(puschCh, I) \union {m}
                /\ x \notin I => Channel!Of(puschCh', I) = Channel!Of(puschCh, I)
                /\ Channel!AtMostOne(puschCh, I) /\ (x \in I => Channel!Of(puschCh, I) = {})
                     => Channel!AtMostOne(puschCh', I)
  BY SendStep DEF PuschChOK
<1>2. p \in Pids
  BY DEF PuschItems, GrantItems
<1>3. x \in PuschItemsOf(p) /\ \A o \in Pids : o # p => x \notin PuschItemsOf(o)
  BY DEF PuschItemsOf
<1>4. \A o \in Pids : PuschOf(o)' = Channel!Of(puschCh', PuschItemsOf(o))
  BY DEF PuschOf, PuschItemsOf
<1>5. PuschOf(p)' = {m}
  BY <1>1, <1>2, <1>3, <1>4 DEF PuschOf
<1>6. \A o \in Pids : o # p => PuschOf(o)' = PuschOf(o)
  BY <1>1, <1>3, <1>4 DEF PuschOf
<1>7. PuschChOK'
  BY <1>1, <1>3 DEF PuschChOK, PuschOf, PuschItemsOf
<1>8. QED
  BY <1>1, <1>2, <1>5, <1>6, <1>7

\* The feedback taken is the only message of its process.
LEMMA PhichTaken ==
  ASSUME PhichChOK, phichCh # <<>>, phichCh' = Tail(phichCh),
         NEW m, m = Head(phichCh), NEW p, p = m.item.pid
  PROVE  /\ PhichChOK'
         /\ m \in Channel!OnWay(phichCh) /\ Channel!OnWay(phichCh') \subseteq Channel!OnWay(phichCh)
         /\ m.item \in PhichItems /\ m.left \in 0 .. Delay /\ p \in Pids
         /\ PhichOf(p) = {m} /\ PhichOf(p)' = {}
         /\ \A o \in Pids : o # p => PhichOf(o)' = PhichOf(o)
<1>1. /\ m \in Channel!Messages(PhichItems) /\ m \in Channel!OnWay(phichCh)
      /\ phichCh' \in Seq(Channel!Messages(PhichItems)) /\ Channel!Sorted(phichCh')
      /\ Channel!OnWay(phichCh') \subseteq Channel!OnWay(phichCh)
      /\ \A I : Channel!AtMostOne(phichCh, I) =>
           /\ Channel!AtMostOne(phichCh', I)
           /\ m.item \in I => Channel!Of(phichCh, I) = {m} /\ Channel!Of(phichCh', I) = {}
           /\ m.item \notin I => Channel!Of(phichCh', I) = Channel!Of(phichCh, I)
  BY TakeStep DEF PhichChOK
<1>2. m.item \in PhichItems /\ m.left \in 0 .. Delay
  BY <1>1 DEF Channel!Messages
<1>3. p \in Pids
  BY <1>2 DEF PhichItems
<1>4. m.item \in PhichItemsOf(p) /\ Channel!AtMostOne(phichCh, PhichItemsOf(p))
  BY <1>2, <1>3 DEF PhichChOK, PhichItemsOf
<1>5. ASSUME NEW o \in Pids, o # p
      PROVE  m.item \notin PhichItemsOf(o) /\ Channel!AtMostOne(phichCh, PhichItemsOf(o))
  BY <1>5 DEF PhichChOK, PhichItemsOf
<1>6. \A o \in Pids : PhichOf(o)' = Channel!Of(phichCh', PhichItemsOf(o))
  BY DEF PhichOf, PhichItemsOf
<1>7. PhichOf(p) = {m} /\ PhichOf(p)' = {}
  BY <1>1, <1>3, <1>4, <1>6 DEF PhichOf
<1>8. \A o \in Pids : o # p => PhichOf(o)' = PhichOf(o)
  BY <1>1, <1>5, <1>6 DEF PhichOf
<1>9. PhichChOK'
  BY <1>1, <1>4, <1>5 DEF PhichChOK, PhichItemsOf
<1>10. QED
  BY <1>1, <1>2, <1>3, <1>7, <1>8, <1>9

\* The feedback sent becomes the only message of its process.
LEMMA PhichSent ==
  ASSUME PhichChOK, NEW x \in PhichItems, phichCh' = Channel!Send(phichCh, x),
         NEW p, p = x.pid, PhichOf(p) = {},
         NEW m, m = [left |-> Delay, item |-> x]
  PROVE  /\ PhichChOK' /\ Channel!OnWay(phichCh') = Channel!OnWay(phichCh) \union {m}
         /\ p \in Pids /\ PhichOf(p)' = {m} /\ m.left = Delay /\ m.item = x
         /\ \A o \in Pids : o # p => PhichOf(o)' = PhichOf(o)
<1>1. /\ phichCh' \in Seq(Channel!Messages(PhichItems)) /\ Channel!Sorted(phichCh')
      /\ Channel!OnWay(phichCh') = Channel!OnWay(phichCh) \union {m}
      /\ \A I : /\ x \in I => Channel!Of(phichCh', I) = Channel!Of(phichCh, I) \union {m}
                /\ x \notin I => Channel!Of(phichCh', I) = Channel!Of(phichCh, I)
                /\ Channel!AtMostOne(phichCh, I) /\ (x \in I => Channel!Of(phichCh, I) = {})
                     => Channel!AtMostOne(phichCh', I)
  BY SendStep DEF PhichChOK
<1>2. p \in Pids
  BY DEF PhichItems
<1>3. x \in PhichItemsOf(p) /\ \A o \in Pids : o # p => x \notin PhichItemsOf(o)
  BY DEF PhichItemsOf
<1>4. \A o \in Pids : PhichOf(o)' = Channel!Of(phichCh', PhichItemsOf(o))
  BY DEF PhichOf, PhichItemsOf
<1>5. PhichOf(p)' = {m}
  BY <1>1, <1>2, <1>3, <1>4 DEF PhichOf
<1>6. \A o \in Pids : o # p => PhichOf(o)' = PhichOf(o)
  BY <1>1, <1>3, <1>4 DEF PhichOf
<1>7. PhichChOK'
  BY <1>1, <1>3 DEF PhichChOK, PhichOf, PhichItemsOf
<1>8. QED
  BY <1>1, <1>2, <1>5, <1>6, <1>7

\* A process keeps its stage while nothing that concerns it changes.
LEMMA StageStays ==
  ASSUME NEW o \in Pids, Stage(o), NacksCounted(o),
         proc'[o] = proc[o], rx'[o] = rx[o], ndi'[o] = ndi[o],
         harqTb'[o] = harqTb[o],
         o \in busy' <=> o \in busy, o \in pendingRetx' <=> o \in pendingRetx,
         GrantsOf(o)' = GrantsOf(o), PuschOf(o)' = PuschOf(o),
         PhichOf(o)' = PhichOf(o),
         o \in busy /\ sender[harqTb[o]] = "unsent" => sender'[harqTb[o]] = "unsent",
         o \in busy => receiver'[harqTb[o]] = receiver[harqTb[o]],
         Ue!InFlight(proc[o]) => receiver'[proc[o].tb] = receiver[proc[o].tb]
  PROVE  Stage(o)' /\ NacksCounted(o)'
<1>1. UeState(o)' = UeState(o) /\ (Ue!InFlight(proc[o])' <=> Ue!InFlight(proc[o]))
  BY DEF UeState, Ue!StateOf, Ue!InFlight
<1>2. UeState(o) = "WAITING_FB" => Ue!InFlight(proc[o])
  BY DEF UeState, Ue!StateOf, Ue!InFlight
<1>3. NacksCounted(o)'
  BY <1>1 DEF NacksCounted
<1>4. Decided(o) => Decided(o)'
  BY <1>1, <1>2 DEF Decided
<1>5. Failed(o) => Failed(o)'
  BY <1>1 DEF Failed
<1>6. o \in busy /\ UeHolds(o) => UeHolds(o)'
  BY <1>1 DEF UeHolds
<1>7. (EnbHolds(o) => EnbHolds(o)') /\ (EnbIdle(o) => EnbIdle(o)')
  BY DEF EnbHolds, EnbIdle
<1>8. NothingOnAir(o)' <=> NothingOnAir(o)
  BY DEF NothingOnAir
<1>9. ASSUME NEW rv, Granted(o, rv) PROVE Granted(o, rv)'
  BY <1>9 DEF Granted
<1>10. CASE IsFree(o)
  BY <1>3, <1>4, <1>7, <1>8, <1>10 DEF Stage, IsFree
<1>11. CASE IsGranted(o)
  BY <1>3, <1>4, <1>7, <1>9, <1>11 DEF Stage, IsGranted
<1>12. CASE IsOnAir(o)
  BY <1>1, <1>3, <1>6, <1>7, <1>12 DEF Stage, IsOnAir
<1>13. CASE IsDue(o)
  BY <1>3, <1>5, <1>6, <1>7, <1>8, <1>13 DEF Stage, IsDue
<1>14. CASE IsRepeated(o)
  BY <1>3, <1>5, <1>6, <1>7, <1>9, <1>14 DEF Stage, IsRepeated
<1>15. QED
  BY <1>10, <1>11, <1>12, <1>13, <1>14 DEF Stage

\* The feedback that is due belongs to a process that waits for it, and says
\* what has become of its TB.
LEMMA FeedbackOf ==
  ASSUME LoopInv, NEW p \in Pids, NEW f, PhichOf(p) = {f}
  PROVE  /\ proc[p] \in UeProcesses
         /\ Ue!StateOf(proc[p]) = "WAITING_FB" /\ Ue!InFlight(proc[p])
         /\ proc[p].nacks < proc[p].txNb
         /\ proc[p].tb \in Tbs /\ sender[proc[p].tb] = "sent"
         /\ \/ /\ IsFree(p) \/ IsGranted(p)
               /\ receiver[proc[p].tb] = IF f.item.ack THEN "delivered" ELSE "dropped"
               /\ f.item.ack \/ proc[p].txNb = MaxHarqTx
            \/ /\ IsDue(p) \/ IsRepeated(p)
               /\ ~f.item.ack /\ proc[p].txNb = rx[p].txCount
<1>1. proc[p] \in UeProcesses /\ Stage(p) /\ NacksCounted(p)
  BY DEF LoopInv, StateTypes
<1>2. \/ /\ IsFree(p) \/ IsGranted(p)
         /\ UeState(p) = "WAITING_FB"
         /\ receiver[proc[p].tb] = IF f.item.ack THEN "delivered" ELSE "dropped"
         /\ f.item.ack \/ proc[p].txNb = MaxHarqTx
      \/ /\ IsDue(p) \/ IsRepeated(p)
         /\ UeState(p) = "WAITING_FB"
         /\ ~f.item.ack /\ proc[p].txNb = rx[p].txCount
  <2>1. CASE IsFree(p) \/ IsGranted(p)
    BY <2>1 DEF IsFree, IsGranted, Decided
  <2>2. CASE IsDue(p) \/ IsRepeated(p)
    BY <2>2 DEF IsDue, IsRepeated, Failed
  <2>3. ~IsOnAir(p)
    BY DEF IsOnAir
  <2>4. QED
    BY <1>1, <2>1, <2>2, <2>3 DEF Stage
<1>3. Ue!StateOf(proc[p]) = "WAITING_FB" /\ Ue!InFlight(proc[p])
  BY <1>2 DEF UeState, Ue!StateOf, Ue!InFlight
<1>4. proc[p].nacks < proc[p].txNb
  <2>1. proc[p].nacks <= proc[p].txNb - 1
    BY <1>1, <1>3 DEF NacksCounted, UeState
  <2>2. proc[p].nacks \in Int /\ proc[p].txNb \in Int
    BY <1>1 DEF UeProcesses, Ue!NackLimit
  <2>3. QED
    BY <2>1, <2>2
<1>5. proc[p].tb \in Tbs /\ sender[proc[p].tb] = "sent"
  BY <1>3 DEF LoopInv, TbsOK
<1>6. QED
  BY <1>1, <1>2, <1>3, <1>4, <1>5

\* What a feedback the UE takes does to its process p: it settles the TB, as
\* the eNB has decided, or has it wait to be repeated.
SettlesTb(p, r) ==
  /\ IsFree(p) \/ IsGranted(p)
  /\ Ue!StateOf(r.proc) = "INACTIVE" /\ ~Ue!InFlight(r.proc)
  /\ r.proc.nacks = 0
  /\ r.proc.configured => proc[p].configured /\ r.proc.ndi = proc[p].ndi
  /\ receiver[proc[p].tb] # "open"
  /\ sender' = [sender EXCEPT ![proc[p].tb] = Transfer!Learnt(receiver[proc[p].tb])]

RepeatsTb(p, r) ==
  /\ IsDue(p) \/ IsRepeated(p)
  /\ Ue!StateOf(r.proc) = "RETX_PENDING" /\ Ue!InFlight(r.proc)
  /\ r.proc.nacks <= r.proc.txNb
  /\ r.proc.txNb = proc[p].txNb /\ r.proc.tb = proc[p].tb
  /\ r.proc.ndi = proc[p].ndi
  /\ sender' = sender

\* A feedback the UE takes settles the TB of its process or has it repeated.
LEMMA FeedbackTakes ==
  ASSUME NeverEarly, LoopInv, UeFeedback,
         NEW f, f = Head(phichCh), NEW p, p = f.item.pid
  PROVE  LET r == Ue!ApplyPhich(proc[p], f.item.ack)
         IN  /\ r.proc \in UeProcesses
             /\ SettlesTb(p, r) \/ RepeatsTb(p, r)
<1> DEFINE q == proc[p]
           r == Ue!ApplyPhich(q, f.item.ack)
<1>1. p \in Pids /\ f.item.ack \in BOOLEAN /\ PhichOf(p) = {f}
  <2>1. PhichChOK /\ phichCh # <<>>
    BY DEF UeFeedback, Channel!Visible, LoopInv, ChannelsOK
  <2>2. f.item \in PhichItems /\ p \in Pids /\ PhichOf(p) = {f}
    BY <2>1, PhichFirst
  <2>3. QED
    BY <2>2 DEF PhichItems
<1>2. sender' = UeVerdict(q, f.item, r.action)
  BY DEF UeFeedback
<1>3. /\ q \in UeProcesses
      /\ Ue!StateOf(q) = "WAITING_FB" /\ Ue!InFlight(q)
      /\ q.nacks < q.txNb /\ q.tb \in Tbs /\ sender[q.tb] = "sent"
      /\ \/ /\ IsFree(p) \/ IsGranted(p)
            /\ receiver[q.tb] = IF f.item.ack THEN "delivered" ELSE "dropped"
            /\ f.item.ack \/ q.txNb = MaxHarqTx
         \/ /\ IsDue(p) \/ IsRepeated(p)
            /\ ~f.item.ack /\ q.txNb = rx[p].txCount
  BY <1>1, FeedbackOf
<1>4. CASE f.item.ack
  <2>1. r = Ue!ApplyAck(q)
    BY <1>4 DEF Ue!ApplyPhich
  <2>2. sender' = [sender EXCEPT ![q.tb] = "acked"]
    BY <1>2, <1>3, <1>4, <2>1, AckedProcess DEF UeVerdict
  <2>3. /\ r.proc \in UeProcesses
        /\ Ue!StateOf(r.proc) = "INACTIVE" /\ ~Ue!InFlight(r.proc)
        /\ r.proc.nacks = 0 /\ r.proc.ndi = q.ndi /\ r.proc.configured = q.configured
    BY <1>3, <2>1, AckedProcess
  <2>4. QED
    BY <1>3, <1>4, <2>2, <2>3 DEF SettlesTb, Transfer!Learnt
<1>5. CASE /\ IsFree(p) \/ IsGranted(p)
           /\ ~f.item.ack /\ q.txNb = MaxHarqTx /\ receiver[q.tb] = "dropped"
  <2>1. r = Ue!ApplyNack(q)
    BY <1>5 DEF Ue!ApplyPhich
  <2>2. sender' = [sender EXCEPT ![q.tb] = "discarded"]
    BY <1>2, <1>3, <1>5, <2>1, DiscardedProcess DEF UeVerdict
  <2>3. /\ r.proc \in UeProcesses
        /\ Ue!StateOf(r.proc) = "INACTIVE" /\ ~Ue!InFlight(r.proc)
        /\ r.proc.nacks = 0 /\ ~r.proc.configured
    BY <1>3, <1>5, <2>1, DiscardedProcess
  <2>4. QED
    BY <1>3, <1>5, <2>2, <2>3 DEF SettlesTb, Transfer!Learnt
<1>6. CASE ~f.item.ack /\ q.txNb = rx[p].txCount /\ (IsDue(p) \/ IsRepeated(p))
  <2>1. r = Ue!ApplyNack(q)
    BY <1>6 DEF Ue!ApplyPhich
  <2>2. q.txNb # MaxHarqTx
    BY <1>1, <1>6, LoopAssumption DEF LoopInv, StateTypes, RxProcesses
  <2>3. sender' = sender
    BY <1>2, <1>3, <1>6, <2>1, <2>2, NackedProcess DEF UeVerdict
  <2>4. /\ r.proc \in UeProcesses
        /\ r.proc.txNb = q.txNb /\ r.proc.nacks <= r.proc.txNb
        /\ r.proc.tb = q.tb /\ r.proc.ndi = q.ndi
        /\ Ue!StateOf(r.proc) = "RETX_PENDING" /\ Ue!InFlight(r.proc)
    <3>1. q \in UeProcesses /\ Ue!InFlight(q) /\ q.nacks < q.txNb
      BY <1>3
    <3> HIDE DEF q
    <3>2. QED
      BY <2>1, <2>2, <3>1, NackedProcess
  <2>5. QED
    BY <1>6, <2>3, <2>4 DEF RepeatsTb
<1>7. QED
  BY <1>1, <1>3, <1>4, <1>5, <1>6
-----------------------------------------------------------------------------
(* The steps                                                               *)

\* A feedback the UE takes ends the wait of its process.
LEMMA UeFeedbackInv ==
  ASSUME NeverEarly, LoopInv, UeFeedback
  PROVE  LoopInv'
<1> PICK f : f = Head(phichCh)
  OBVIOUS
<1> PICK p : p = f.item.pid
  OBVIOUS
<1> DEFINE q == proc[p]
           r == Ue!ApplyPhich(q, f.item.ack)
<1>1. /\ uePc = "phich" /\ phichCh # <<>> /\ f.left = 0
      /\ proc' = [proc EXCEPT ![p] = r.proc]
      /\ sender' = UeVerdict(q, f.item, r.action)
      /\ phichCh' = Tail(phichCh)
      /\ UNCHANGED <<uePc, lastPdu, schedVars, enbVars, grantCh, puschCh, receiver>>
  BY DEF UeFeedback, Channel!Visible
<1>2. StateTypes /\ ChannelsOK /\ AgesOK /\ TbsOK
      /\ \A o \in Pids : NacksCounted(o) /\ Stage(o)
  BY DEF LoopInv
<1>3. /\ PhichChOK' /\ Channel!OnWay(phichCh') \subseteq Channel!OnWay(phichCh)
      /\ f.item \in PhichItems /\ p \in Pids
      /\ PhichOf(p) = {f} /\ PhichOf(p)' = {}
      /\ \A o \in Pids : o # p => PhichOf(o)' = PhichOf(o)
  BY <1>1, <1>2, PhichTaken DEF ChannelsOK
<1>4. p \in Pids /\ f.item.ack \in BOOLEAN
  BY <1>3 DEF PhichItems
<1>5. \A o \in Pids : GrantsOf(o)' = GrantsOf(o) /\ PuschOf(o)' = PuschOf(o)
  BY <1>1 DEF GrantsOf, PuschOf
<1>6. ChannelsOK'
  BY <1>1, <1>2, <1>3
  DEF ChannelsOK, GrantChOK, PuschChOK, GrantItemsOf, PuschItemsOf
<1>7. AgesOK'
  BY <1>1, <1>2, <1>3 DEF AgesOK, enbVars
<1>8. /\ q \in UeProcesses
      /\ Ue!StateOf(q) = "WAITING_FB" /\ Ue!InFlight(q)
      /\ q.nacks < q.txNb /\ q.tb \in Tbs /\ sender[q.tb] = "sent"
      /\ \/ /\ IsFree(p) \/ IsGranted(p)
            /\ receiver[q.tb] = IF f.item.ack THEN "delivered" ELSE "dropped"
            /\ f.item.ack \/ q.txNb = MaxHarqTx
         \/ /\ IsDue(p) \/ IsRepeated(p)
            /\ ~f.item.ack /\ q.txNb = rx[p].txCount
  BY <1>3, FeedbackOf
<1> DEFINE settled == /\ IsFree(p) \/ IsGranted(p)
                      /\ Ue!StateOf(r.proc) = "INACTIVE" /\ ~Ue!InFlight(r.proc)
                      /\ r.proc.nacks = 0
                      /\ r.proc.configured => q.configured /\ r.proc.ndi = q.ndi
                      /\ sender' = [sender EXCEPT ![q.tb] = Transfer!Learnt(receiver[q.tb])]
           failed  == /\ IsDue(p) \/ IsRepeated(p)
                      /\ Ue!StateOf(r.proc) = "RETX_PENDING" /\ Ue!InFlight(r.proc)
                      /\ r.proc.nacks <= r.proc.txNb
                      /\ r.proc.txNb = q.txNb /\ r.proc.tb = q.tb
                      /\ r.proc.ndi = q.ndi
                      /\ sender' = sender
<1>9. r.proc \in UeProcesses /\ (settled \/ failed)
  <2>1. r.proc \in UeProcesses /\ (SettlesTb(p, r) \/ RepeatsTb(p, r))
    BY FeedbackTakes
  <2> HIDE DEF r
  <2>2. QED
    BY <2>1 DEF SettlesTb, RepeatsTb
<1> HIDE DEF r, q
<1>10. StateTypes'
  <2>1. proc' \in [Pids -> UeProcesses]
    BY <1>1, <1>2, <1>4, <1>9 DEF StateTypes
  <2>2. sender' \in [Tbs -> {"unsent", "sent", "acked", "discarded"}]
    BY <1>2, <1>8, <1>9 DEF StateTypes, Transfer!Learnt
  <2>3. QED
    BY <1>1, <1>2, <2>1, <2>2 DEF StateTypes, schedVars, enbVars
<1>11. \A o \in Pids : o # p => proc'[o] = proc[o]
  BY <1>1, <1>2 DEF StateTypes
<1>12. proc'[p] = r.proc
  BY <1>1, <1>2, <1>4 DEF StateTypes
<1>13. /\ \A t \in Tbs : t # q.tb => sender'[t] = sender[t]
       /\ settled => sender'[q.tb] \in {"acked", "discarded"}
  BY <1>2, <1>8, <1>9 DEF StateTypes, Transfer!Learnt
<1>14. \A o \in Pids : Ue!InFlight(proc'[o]) =>
         Ue!InFlight(proc[o]) /\ proc'[o].tb = proc[o].tb
  BY <1>8, <1>9, <1>11, <1>12 DEF q
<1>15. TbsOK'
  <2>1. TbsApart'
    BY <1>1, <1>2, <1>14 DEF TbsOK, TbsApart, schedVars
  <2>2. \A t \in Tbs : t > created' => sender'[t] = "unsent" /\ receiver'[t] = "open"
    BY <1>1, <1>2, <1>8, <1>13 DEF TbsOK, schedVars
  <2>3. \A o \in Pids : Ue!InFlight(proc'[o]) =>
          proc'[o].tb \in Tbs /\ sender'[proc'[o].tb] = "sent"
    <3> SUFFICES ASSUME NEW o \in Pids, Ue!InFlight(proc'[o])
                 PROVE  proc'[o].tb \in Tbs /\ sender'[proc'[o].tb] = "sent"
      OBVIOUS
    <3>1. proc[o].tb \in Tbs /\ sender[proc[o].tb] = "sent" /\ proc'[o].tb = proc[o].tb
      BY <1>2, <1>14 DEF TbsOK
    <3>2. o # p => proc[o].tb # q.tb
      BY <1>2, <1>4, <1>8, <1>14 DEF TbsOK, TbsApart, q
    <3>3. o = p => sender' = sender
      BY <1>9, <1>12
    <3>4. QED
      BY <1>13, <3>1, <3>2, <3>3
  <2>4. SentIsHeld'
    <3> SUFFICES ASSUME NEW t \in Tbs, sender'[t] = "sent"
                 PROVE  \E o \in Pids : proc'[o].tb = t /\ Ue!InFlight(proc'[o])
      BY DEF SentIsHeld, Ue!InFlight
    <3>1. sender[t] = "sent" /\ (t = q.tb => ~settled)
      BY <1>8, <1>13
    <3>2. PICK o \in Pids : proc[o].tb = t /\ Ue!InFlight(proc[o])
      BY <1>2, <3>1 DEF TbsOK, SentIsHeld
    <3>3. CASE o # p
      BY <1>11, <3>2, <3>3
    <3>4. CASE o = p
      BY <1>4, <1>9, <1>12, <3>1, <3>2, <3>4 DEF q
    <3>5. QED
      BY <3>3, <3>4
  <2>5. QED
    BY <1>1, <1>2, <2>1, <2>2, <2>3, <2>4 DEF TbsOK, schedVars, Ue!InFlight
<1>16. ASSUME NEW o \in Pids, o # p
       PROVE  NacksCounted(o)' /\ Stage(o)'
  <2>1. o \in busy => harqTb[o] \in Tbs
    BY <1>2, LoopAssumption DEF TbsOK, StateTypes, Tbs
  <2>2. o \in busy /\ sender[harqTb[o]] = "unsent" => sender'[harqTb[o]] = "unsent"
    BY <1>8, <1>13, <2>1
  <2>3. QED
    BY <1>1, <1>2, <1>3, <1>5, <1>11, <1>16, <2>2, StageStays DEF schedVars, enbVars
<1>17. NacksCounted(p)' /\ Stage(p)'
  <2>1. PhichOf(p)' = {} /\ GrantsOf(p)' = GrantsOf(p) /\ PuschOf(p)' = PuschOf(p)
    BY <1>3, <1>5
  <2>2. CASE settled
    <3>1. UeState(p)' = "INACTIVE"
      BY <1>12, <2>2 DEF UeState
    <3>2. NacksCounted(p)'
      BY <1>12, <2>2, <3>1 DEF NacksCounted
    <3>3. Decided(p)'
      BY <2>1, <3>1 DEF Decided
    <3>4. CASE IsFree(p)
      BY <1>1, <1>12, <2>1, <2>2, <3>2, <3>3, <3>4
      DEF Stage, IsFree, NothingOnAir, EnbIdle, schedVars, enbVars, q
    <3>5. CASE IsGranted(p)
      <4>1. sender'[harqTb[p]] = "unsent"
        BY <1>8, <1>13, <3>5 DEF IsGranted
      <4>2. Granted(p, 0)'
        BY <1>1, <2>1, <3>5 DEF IsGranted, Granted, schedVars
      <4>3. proc'[p].configured => proc'[p].ndi # ndi'[p]
        <5>1. q.configured => q.ndi # ndi[p]
          BY <3>5 DEF IsGranted, q
        <5>2. proc'[p].configured => q.configured /\ proc'[p].ndi = q.ndi
          BY <1>12, <2>2
        <5>3. ndi' = ndi
          BY <1>1 DEF schedVars
        <5>4. QED
          BY <5>1, <5>2, <5>3
      <4>4. IsGranted(p)'
        BY <1>1, <3>3, <3>5, <4>1, <4>2, <4>3
        DEF IsGranted, EnbIdle, schedVars, enbVars
      <4>5. QED
        BY <3>2, <4>4 DEF Stage
    <3>6. QED
      BY <2>2, <3>4, <3>5
  <2>3. CASE failed
    <3>1. UeState(p)' = "RETX_PENDING"
      BY <1>12, <2>3 DEF UeState
    <3>2. NacksCounted(p)'
      BY <1>12, <2>3, <3>1 DEF NacksCounted
    <3>3. Failed(p)'
      BY <2>1, <3>1 DEF Failed
    <3>4. UeHolds(p)'
      BY <1>1, <1>12, <2>3 DEF UeHolds, IsDue, IsRepeated, schedVars, q, Ue!InFlight
    <3>5. CASE IsDue(p)
      BY <1>1, <1>12, <2>1, <2>3, <3>2, <3>3, <3>4, <3>5
      DEF Stage, IsDue, NothingOnAir, EnbHolds, schedVars, enbVars, q
    <3>6. CASE IsRepeated(p)
      <4>1. Granted(p, Ue!NoRv)'
        BY <1>1, <2>1, <3>6 DEF IsRepeated, Granted, schedVars
      <4>2. QED
        BY <1>1, <1>12, <2>1, <2>3, <3>2, <3>3, <3>4, <3>6, <4>1
        DEF Stage, IsRepeated, EnbHolds, schedVars, enbVars, q
    <3>7. QED
      BY <2>3, <3>5, <3>6
  <2>4. QED
    BY <1>9, <2>2, <2>3
<1>18. QED
  BY <1>6, <1>7, <1>10, <1>15, <1>16, <1>17 DEF LoopInv

\* Steps that only move the bodies on.
LEMMA BodyInv ==
  ASSUME LoopInv, AgesOK',
         UNCHANGED <<proc, lastPdu, schedVars, rx, channelVars, verdictVars>>,
         uePc' \in {"phich", "grant", "done"}, enbPc' \in {"schedule", "pusch", "done"}
  PROVE  LoopInv'
<1> USE DEF LoopInv, schedVars, channelVars, verdictVars
<1>1. StateTypes'
  BY DEF StateTypes
<1>2. ChannelsOK'
  BY DEF ChannelsOK, GrantChOK, PuschChOK, PhichChOK,
         GrantItemsOf, PuschItemsOf, PhichItemsOf
<1>3. TbsOK'
  BY DEF TbsOK, TbsApart, SentIsHeld, Ue!InFlight
<1>4. ASSUME NEW o \in Pids PROVE NacksCounted(o)' /\ Stage(o)'
  BY StageStays DEF GrantsOf, PuschOf, PhichOf
<1>5. QED
  BY <1>1, <1>2, <1>3, <1>4

\* The UE ends its feedback when the PHICH shows nothing more.
LEMMA UeFeedbackDoneInv == LoopInv /\ UeFeedbackDone => LoopInv'
<1> SUFFICES ASSUME LoopInv, UeFeedbackDone PROVE LoopInv'
  OBVIOUS
<1>1. \A m \in Channel!OnWay(phichCh) : m.left > 0
  BY NotVisible DEF UeFeedbackDone, LoopInv, ChannelsOK, PhichChOK
<1>2. AgesOK'
  BY <1>1 DEF UeFeedbackDone, LoopInv, AgesOK, enbVars, channelVars
<1>3. QED
  BY <1>2, BodyInv DEF UeFeedbackDone, LoopInv, StateTypes, enbVars

\* The UE ends its TTI when the PDCCH shows nothing more.
LEMMA UeGrantDoneInv == LoopInv /\ UeGrantDone => LoopInv'
<1> SUFFICES ASSUME LoopInv, UeGrantDone PROVE LoopInv'
  OBVIOUS
<1>1. \A m \in Channel!OnWay(grantCh) : m.left > 0
  BY NotVisible DEF UeGrantDone, LoopInv, ChannelsOK, GrantChOK
<1>2. AgesOK'
  BY <1>1 DEF UeGrantDone, LoopInv, AgesOK, enbVars, channelVars
<1>3. QED
  BY <1>2, BodyInv DEF UeGrantDone, LoopInv, StateTypes, enbVars

\* The eNB ends its TTI when the PUSCH shows nothing more.
LEMMA EnbReceiveDoneInv == LoopInv /\ EnbReceiveDone => LoopInv'
<1> SUFFICES ASSUME LoopInv, EnbReceiveDone PROVE LoopInv'
  OBVIOUS
<1>1. \A m \in Channel!OnWay(puschCh) : m.left > 0
  BY NotVisible DEF EnbReceiveDone, LoopInv, ChannelsOK, PuschChOK
<1>2. AgesOK'
  BY <1>1 DEF EnbReceiveDone, LoopInv, AgesOK, ueVars, channelVars
<1>3. QED
  BY <1>2, BodyInv DEF EnbReceiveDone, LoopInv, StateTypes, ueVars

\* A retransmission that is due always knows its TB.
LEMMA NoOrphans == LoopInv => Orphans = {}
<1> SUFFICES ASSUME LoopInv, NEW p \in pendingRetx PROVE harqTb[p] # NoTb
  BY DEF Orphans
<1>1. p \in Pids /\ Stage(p)
  BY DEF LoopInv, StateTypes
<1>2. p \in busy
  BY <1>1 DEF Stage, IsFree, IsGranted, IsOnAir, IsDue, IsRepeated
<1>3. QED
  BY <1>2, LoopAssumption DEF LoopInv, TbsOK, StateTypes, NoTb

\* A TTI without a grant changes nothing: no pending process lacks its TB.
LEMMA EnbGrantNothingInv == LoopInv /\ EnbGrantNothing => LoopInv'
<1> SUFFICES ASSUME LoopInv, EnbGrantNothing PROVE LoopInv'
  OBVIOUS
<1>1. UNCHANGED <<busy, pendingRetx>>
  BY NoOrphans DEF EnbGrantNothing, RetxNotGranted
<1>2. AgesOK'
  BY DEF EnbGrantNothing, LoopInv, AgesOK, ueVars, channelVars
<1>3. QED
  BY <1>1, <1>2, BodyInv DEF EnbGrantNothing, LoopInv, StateTypes, ueVars, schedVars

\* At the start every process is idle and free, and nothing is under way.
LEMMA LoopInit == Init => LoopInv
<1> SUFFICES ASSUME Init PROVE LoopInv
  OBVIOUS
<1> USE DEF Init
<1>1. Channel!OnWay(grantCh) = {} /\ Channel!OnWay(puschCh) = {} /\ Channel!OnWay(phichCh) = {}
  BY DEF Channel!OnWay
<1>2. \A p \in Pids : GrantsOf(p) = {} /\ PuschOf(p) = {} /\ PhichOf(p) = {}
  BY <1>1 DEF GrantsOf, PuschOf, PhichOf, Channel!Of
<1>3. ChannelsOK
  BY DEF ChannelsOK, GrantChOK, PuschChOK, PhichChOK, Channel!Sorted, Channel!AtMostOne
<1>4. AgesOK
  BY <1>1 DEF AgesOK
<1>5. StateTypes
  <2>1. proc \in [Pids -> UeProcesses]
    BY IdleProcess
  <2>2. Enb!IdleRx \in RxProcesses
    BY LoopAssumption DEF Enb!IdleRx, RxProcesses
  <2>3. rx \in [Pids -> RxProcesses]
    BY <2>2
  <2>4. created \in 0 .. MaxTb /\ lastPdu \in Tbs \union {NoPdu}
    BY LoopAssumption
  <2>5. QED
    BY <2>1, <2>3, <2>4 DEF StateTypes
<1>6. \A p \in Pids : ~Ue!InFlight(proc[p]) /\ UeState(p) = "INACTIVE"
  BY IdleProcess DEF Ue!InFlight, UeState, Ue!StateOf
<1>7. TbsOK
  BY <1>6 DEF TbsOK, TbsApart, SentIsHeld
<1>8. ASSUME NEW p \in Pids PROVE NacksCounted(p) /\ Stage(p)
  <2>1. Decided(p)
    BY <1>2, <1>6 DEF Decided
  <2>2. EnbIdle(p)
    BY DEF EnbIdle, Enb!IdleRx
  <2>3. ~proc[p].configured
    BY IdleProcess
  <2>4. NacksCounted(p)
    BY <1>6, IdleProcess DEF NacksCounted
  <2>5. IsFree(p)
    BY <1>2, <2>1, <2>2, <2>3 DEF IsFree, NothingOnAir
  <2>6. QED
    BY <2>4, <2>5 DEF Stage
<1>9. QED
  BY <1>3, <1>4, <1>5, <1>7, <1>8 DEF LoopInv

\* A visible grant finds its process without feedback due: idle if it is for a
\* new TB, waiting to repeat its TB if it is not.
LEMMA GrantRead ==
  ASSUME LoopInv, uePc # "phich", NEW p \in Pids, NEW m, GrantsOf(p) = {m}, m.left = 0
  PROVE  /\ PhichOf(p) = {} /\ PuschOf(p) = {} /\ p \in busy /\ p \notin pendingRetx
         /\ m.item.ndi = ndi[p] /\ m.item.tb = harqTb[p] /\ harqTb[p] \in Tbs
         /\ \/ /\ IsGranted(p) /\ m.item.rv = 0 /\ UeState(p) = "INACTIVE"
            \/ /\ IsRepeated(p) /\ m.item.rv = Ue!NoRv /\ UeState(p) = "RETX_PENDING"
<1>1. Stage(p) /\ ~IsFree(p) /\ ~IsOnAir(p) /\ ~IsDue(p)
  BY DEF LoopInv, IsFree, IsOnAir, IsDue, NothingOnAir
<1>2. \A f \in PhichOf(p) : ~(f.left < m.left)
  <2>1. \A f \in PhichOf(p) : f \in Channel!OnWay(phichCh)
    BY DEF PhichOf, Channel!Of
  <2>2. \A f \in Channel!OnWay(phichCh) : f.left \in 0 .. Delay
    BY OnWayTyped DEF LoopInv, ChannelsOK, PhichChOK
  <2>3. QED
    BY <2>1, <2>2, LoopAssumption
<1>3. ASSUME NEW rv, Granted(p, rv)
      PROVE  /\ PhichOf(p) = {} /\ PuschOf(p) = {}
             /\ m.item.ndi = ndi[p] /\ m.item.tb = harqTb[p] /\ m.item.rv = rv
  BY <1>2, <1>3 DEF Granted
<1>4. p \in busy /\ p \notin pendingRetx
  BY <1>1 DEF Stage, IsGranted, IsRepeated
<1>5. harqTb[p] \in Tbs
  BY <1>4, LoopAssumption DEF LoopInv, TbsOK, StateTypes, Tbs
<1>6. CASE IsGranted(p)
  BY <1>3, <1>4, <1>5, <1>6 DEF IsGranted, Decided
<1>7. CASE IsRepeated(p)
  BY <1>3, <1>4, <1>5, <1>7 DEF IsRepeated, Failed
<1>8. QED
  BY <1>1, <1>6, <1>7 DEF Stage

\* What a grant the UE takes makes of its process p: both ends count the
\* transmission alike, and no other process has its TB.
SendsTb(p, r) ==
  /\ r.proc \in UeProcesses
  /\ Ue!StateOf(r.proc) = "WAITING_FB" /\ Ue!InFlight(r.proc)
  /\ r.proc.tb = harqTb[p] /\ r.proc.ndi = ndi[p]
  /\ r.proc.txNb = rx[p].txCount + 1 /\ r.proc.nacks = proc[p].nacks
  /\ r.action.tb = harqTb[p] /\ r.action.nb = rx[p].txCount + 1

OwnsTb(p) ==
  /\ sender[harqTb[p]] \in {"unsent", "sent"}
  /\ sender' = [sender EXCEPT ![harqTb[p]] = "sent"]
  /\ receiver[harqTb[p]] = "open"
  /\ Ue!InFlight(proc[p]) => proc[p].tb = harqTb[p]
  /\ \A o \in Pids : o # p /\ Ue!InFlight(proc[o]) => proc[o].tb # harqTb[p]
  /\ EnbHolds(p) \/ EnbIdle(p)

\* A grant the UE takes has it transmit the TB of the scheduler.
LEMMA GrantTransmits ==
  ASSUME LoopInv, UeGrant, NEW m, m = Head(grantCh), NEW p, p = m.item.pid
  PROVE  LET r == TakeGrant(proc[p], m.item)
         IN  SendsTb(p, r) /\ OwnsTb(p)
<1> DEFINE q == proc[p]
           r == TakeGrant(q, m.item)
<1>1. /\ uePc = "grant" /\ grantCh # <<>> /\ m.left = 0
      /\ sender' = IF r.action.kind = "new"
                   THEN [sender EXCEPT ![r.action.tb] = "sent"] ELSE sender
  BY DEF UeGrant, Channel!Visible
<1>2. StateTypes /\ TbsOK /\ \A o \in Pids : NacksCounted(o)
  BY DEF LoopInv
<1>3. m.item \in GrantItems /\ p \in Pids /\ GrantsOf(p) = {m}
  <2>1. GrantChOK
    BY DEF LoopInv, ChannelsOK
  <2>2. QED
    BY <1>1, <2>1, GrantFirst
<1>4. /\ PhichOf(p) = {} /\ PuschOf(p) = {} /\ p \in busy /\ p \notin pendingRetx
      /\ m.item.ndi = ndi[p] /\ m.item.tb = harqTb[p] /\ harqTb[p] \in Tbs
      /\ \/ /\ IsGranted(p) /\ m.item.rv = 0 /\ UeState(p) = "INACTIVE"
         \/ /\ IsRepeated(p) /\ m.item.rv = Ue!NoRv /\ UeState(p) = "RETX_PENDING"
  BY <1>1, <1>3, GrantRead
<1>5. q \in UeProcesses /\ rx[p] \in RxProcesses
  BY <1>2, <1>3 DEF StateTypes
<1>6. q.nacks <= rx[p].txCount /\ q.nacks \in Nat /\ rx[p].txCount \in 0 .. MaxHarqTx - 1
  <2>1. rx[p].txCount \in 0 .. MaxHarqTx - 1 /\ q.nacks \in Nat
    BY <1>5 DEF RxProcesses, UeProcesses, Ue!NackLimit
  <2>2. CASE IsGranted(p) /\ UeState(p) = "INACTIVE"
    BY <1>2, <1>3, <2>1, <2>2 DEF NacksCounted
  <2>3. CASE IsRepeated(p) /\ UeState(p) = "RETX_PENDING"
    BY <1>2, <1>3, <2>1, <2>3 DEF NacksCounted, IsRepeated
  <2>4. QED
    BY <1>4, <2>1, <2>2, <2>3
<1>7. ASSUME IsGranted(p), m.item.rv = 0, UeState(p) = "INACTIVE"
      PROVE  SendsTb(p, r) /\ OwnsTb(p)
  <2>1. q.configured => m.item.ndi # q.ndi
    BY <1>4, <1>7 DEF IsGranted
  <2>2. /\ r.proc \in UeProcesses
        /\ r.proc.txNb = 1 /\ r.proc.nacks = q.nacks
        /\ r.proc.tb = m.item.tb /\ r.proc.ndi = m.item.ndi
        /\ Ue!StateOf(r.proc) = "WAITING_FB" /\ Ue!InFlight(r.proc)
        /\ r.action.kind = "new" /\ r.action.tb = m.item.tb /\ r.action.nb = 1
    BY <1>3, <1>5, <1>7, <2>1, NewTbProcess
  <2>3. /\ rx[p].txCount = 0 /\ EnbIdle(p)
        /\ sender[harqTb[p]] = "unsent" /\ receiver[harqTb[p]] = "open"
    BY <1>7 DEF IsGranted, EnbIdle
  <2>4. SendsTb(p, r)
    <3> HIDE DEF r
    <3>1. r.proc.txNb = rx[p].txCount + 1 /\ r.action.nb = rx[p].txCount + 1
      BY <2>2, <2>3
    <3>2. r.proc.tb = harqTb[p] /\ r.proc.ndi = ndi[p] /\ r.action.tb = harqTb[p]
      BY <1>4, <2>2
    <3>3. QED
      BY <2>2, <3>1, <3>2 DEF SendsTb
  <2>5. sender' = [sender EXCEPT ![harqTb[p]] = "sent"]
    BY <1>1, <1>4, <2>2
  <2>6. ~Ue!InFlight(q)
    BY <1>7 DEF UeState, Ue!StateOf, Ue!InFlight
  <2>7. \A o \in Pids : Ue!InFlight(proc[o]) => proc[o].tb # harqTb[p]
    BY <1>2, <2>3 DEF TbsOK
  <2>8. QED
    BY <2>3, <2>4, <2>5, <2>6, <2>7 DEF OwnsTb
<1>8. ASSUME IsRepeated(p), m.item.rv = Ue!NoRv, UeState(p) = "RETX_PENDING"
      PROVE  SendsTb(p, r) /\ OwnsTb(p)
  <2>1. /\ Ue!InFlight(q) /\ q.tb = harqTb[p] /\ q.ndi = ndi[p]
        /\ receiver[harqTb[p]] = "open" /\ q.txNb = rx[p].txCount /\ EnbHolds(p)
    BY <1>8 DEF IsRepeated, UeHolds
  <2>2. q.txNb # MaxHarqTx
    BY <1>6, <2>1, LoopAssumption
  <2>3. /\ r.proc \in UeProcesses
        /\ r.proc.txNb = q.txNb + 1 /\ r.proc.nacks = q.nacks
        /\ r.proc.tb = q.tb /\ r.proc.ndi = q.ndi
        /\ Ue!StateOf(r.proc) = "WAITING_FB" /\ Ue!InFlight(r.proc)
        /\ r.action.kind = "retx" /\ r.action.tb = q.tb /\ r.action.nb = q.txNb + 1
    <3>1. m.item.rv = Ue!NoRv /\ m.item.ndi = q.ndi /\ m.item.tb = q.tb
      BY <1>4, <1>8, <2>1
    <3> HIDE DEF q
    <3>2. QED
      BY <1>3, <1>5, <2>1, <2>2, <3>1, RepeatedTbProcess
  <2>4. SendsTb(p, r)
    <3> HIDE DEF r
    <3>1. QED
      BY <2>1, <2>3 DEF SendsTb
  <2>5. sender[harqTb[p]] = "sent"
    BY <1>2, <1>3, <2>1 DEF TbsOK
  <2>6. sender' = [sender EXCEPT ![harqTb[p]] = "sent"]
    BY <1>1, <1>2, <2>3, <2>5 DEF StateTypes
  <2>7. \A o \in Pids : o # p /\ Ue!InFlight(proc[o]) => proc[o].tb # harqTb[p]
    BY <1>2, <1>3, <2>1 DEF TbsOK, TbsApart
  <2>8. QED
    BY <2>1, <2>4, <2>5, <2>6, <2>7 DEF OwnsTb
<1>9. QED
  BY <1>4, <1>7, <1>8

\* A grant the UE takes becomes a transmission of the TB it is for.
LEMMA UeGrantInv ==
  ASSUME LoopInv, UeGrant
  PROVE  LoopInv'
<1> PICK m : m = Head(grantCh)
  OBVIOUS
<1> PICK p : p = m.item.pid
  OBVIOUS
<1> DEFINE q == proc[p]
           r == TakeGrant(q, m.item)
<1>1. PICK hasBsr \in BOOLEAN :
        /\ uePc = "grant" /\ grantCh # <<>> /\ m.left = 0
        /\ proc' = [proc EXCEPT ![p] = r.proc]
        /\ lastPdu' = NewPdu(r.action, hasBsr)
        /\ puschCh' = Channel!Send(puschCh, [grant |-> m.item, pdu |-> lastPdu',
                                            tb |-> r.action.tb, nb |-> r.action.nb])
        /\ sender' = IF r.action.kind = "new"
                     THEN [sender EXCEPT ![r.action.tb] = "sent"] ELSE sender
        /\ grantCh' = Tail(grantCh)
        /\ UNCHANGED <<uePc, schedVars, enbVars, phichCh, receiver>>
  BY DEF UeGrant, Channel!Visible
<1>2. StateTypes /\ ChannelsOK /\ AgesOK /\ TbsOK
      /\ \A o \in Pids : NacksCounted(o) /\ Stage(o)
  BY DEF LoopInv
<1>3. /\ GrantChOK' /\ Channel!OnWay(grantCh') \subseteq Channel!OnWay(grantCh)
      /\ m.item \in GrantItems /\ p \in Pids
      /\ GrantsOf(p) = {m} /\ GrantsOf(p)' = {}
      /\ \A o \in Pids : o # p => GrantsOf(o)' = GrantsOf(o)
  BY <1>1, <1>2, GrantTaken DEF ChannelsOK
<1>4. /\ PhichOf(p) = {} /\ PuschOf(p) = {} /\ p \in busy /\ p \notin pendingRetx
      /\ m.item.ndi = ndi[p] /\ m.item.tb = harqTb[p] /\ harqTb[p] \in Tbs
      /\ \/ /\ IsGranted(p) /\ m.item.rv = 0 /\ UeState(p) = "INACTIVE"
         \/ /\ IsRepeated(p) /\ m.item.rv = Ue!NoRv /\ UeState(p) = "RETX_PENDING"
  BY <1>1, <1>3, GrantRead
<1>5. q \in UeProcesses /\ rx[p] \in RxProcesses
  BY <1>2, <1>3 DEF StateTypes
<1>6. q.nacks <= rx[p].txCount /\ q.nacks \in Nat /\ rx[p].txCount \in 0 .. MaxHarqTx - 1
  <2>1. rx[p].txCount \in 0 .. MaxHarqTx - 1 /\ q.nacks \in Nat
    BY <1>5 DEF RxProcesses, UeProcesses, Ue!NackLimit
  <2>2. CASE IsGranted(p) /\ UeState(p) = "INACTIVE"
    BY <1>2, <1>3, <2>1, <2>2 DEF NacksCounted
  <2>3. CASE IsRepeated(p) /\ UeState(p) = "RETX_PENDING"
    BY <1>2, <1>3, <2>1, <2>3 DEF NacksCounted, IsRepeated
  <2>4. QED
    BY <1>4, <2>1, <2>2, <2>3
<1> DEFINE transmitted ==
             /\ r.proc \in UeProcesses
             /\ Ue!StateOf(r.proc) = "WAITING_FB" /\ Ue!InFlight(r.proc)
             /\ r.proc.tb = harqTb[p] /\ r.proc.ndi = ndi[p]
             /\ r.proc.txNb = rx[p].txCount + 1 /\ r.proc.nacks = q.nacks
             /\ r.action.tb = harqTb[p] /\ r.action.nb = rx[p].txCount + 1
           apart ==
             /\ sender' = [sender EXCEPT ![harqTb[p]] = "sent"]
             /\ receiver[harqTb[p]] = "open"
             /\ Ue!InFlight(q) => q.tb = harqTb[p]
             /\ \A o \in Pids : o # p /\ Ue!InFlight(proc[o]) => proc[o].tb # harqTb[p]
             /\ EnbHolds(p) \/ EnbIdle(p)
<1>7. transmitted /\ apart
  BY GrantTransmits DEF SendsTb, OwnsTb
<1> HIDE DEF r
<1>8. PICK x : /\ x \in PuschItems /\ puschCh' = Channel!Send(puschCh, x)
               /\ x.grant = m.item /\ x.tb = harqTb[p]
               /\ x.nb = rx[p].txCount + 1 /\ x.grant.pid = p
  <2> DEFINE x == [grant |-> m.item, pdu |-> lastPdu', tb |-> r.action.tb, nb |-> r.action.nb]
  <2>1. lastPdu' \in Tbs \union {NoPdu}
    BY <1>1, <1>2, <1>4, <1>7 DEF NewPdu, StateTypes
  <2>2. r.action.nb \in 1 .. MaxHarqTx
    <3>1. r.action.nb = rx[p].txCount + 1
      BY <1>7
    <3>2. QED
      BY <1>6, <3>1, LoopAssumption
  <2>3. x \in PuschItems
    BY <1>3, <1>4, <1>7, <2>1, <2>2 DEF PuschItems
  <2>4. x.grant = m.item /\ x.tb = harqTb[p] /\ x.nb = rx[p].txCount + 1
    BY <1>7
  <2>5. puschCh' = Channel!Send(puschCh, x)
    BY <1>1 DEF r
  <2> HIDE DEF x
  <2>6. QED
    BY <2>3, <2>4, <2>5
<1>9. PICK n : n = [left |-> Delay, item |-> x]
  OBVIOUS
<1>10. /\ PuschChOK' /\ Channel!OnWay(puschCh') = Channel!OnWay(puschCh) \union {n}
       /\ PuschOf(p)' = {n} /\ n.left = Delay /\ n.item = x
       /\ \A o \in Pids : o # p => PuschOf(o)' = PuschOf(o)
  BY <1>2, <1>4, <1>8, <1>9, PuschSent DEF ChannelsOK
<1>11. \A o \in Pids : PhichOf(o)' = PhichOf(o)
  BY <1>1 DEF PhichOf
<1>12. ChannelsOK'
  BY <1>1, <1>2, <1>3, <1>10 DEF ChannelsOK, PhichChOK, PhichItemsOf
<1>13. AgesOK'
  BY <1>1, <1>2, <1>3, <1>10, LoopAssumption DEF AgesOK, enbVars
<1>14. StateTypes'
  <2>1. proc' \in [Pids -> UeProcesses]
    BY <1>1, <1>2, <1>3, <1>7 DEF StateTypes
  <2>2. sender' \in [Tbs -> {"unsent", "sent", "acked", "discarded"}]
    BY <1>2, <1>4, <1>7 DEF StateTypes
  <2>3. lastPdu' \in Tbs \union {NoPdu}
    BY <1>1, <1>2, <1>4, <1>7 DEF NewPdu, StateTypes
  <2>4. QED
    BY <1>1, <1>2, <2>1, <2>2, <2>3 DEF StateTypes, schedVars, enbVars
<1>15. proc'[p] = r.proc /\ \A o \in Pids : o # p => proc'[o] = proc[o]
  BY <1>1, <1>2, <1>3 DEF StateTypes
<1>16. sender'[harqTb[p]] = "sent" /\ \A t \in Tbs : t # harqTb[p] => sender'[t] = sender[t]
  BY <1>2, <1>4, <1>7 DEF StateTypes
<1>17. TbsOK'
  <2>0. /\ proc'[p].tb = harqTb[p] /\ Ue!InFlight(proc'[p])
        /\ \A o \in Pids : o # p /\ Ue!InFlight(proc[o]) => proc[o].tb # harqTb[p]
    BY <1>7, <1>15
  <2>1. TbsApart'
    BY <1>1, <1>2, <1>15, <2>0 DEF TbsOK, TbsApart, schedVars
  <2>2. \A t \in Tbs : t > created' => sender'[t] = "unsent" /\ receiver'[t] = "open"
    <3>1. ~(harqTb[p] > created)
      BY <1>2, <1>4 DEF TbsOK, StateTypes, Tbs
    <3>2. created' = created /\ receiver' = receiver
      BY <1>1 DEF schedVars
    <3>3. QED
      BY <1>2, <1>16, <3>1, <3>2 DEF TbsOK
  <2>3. \A o \in Pids : Ue!InFlight(proc'[o]) =>
          proc'[o].tb \in Tbs /\ sender'[proc'[o].tb] = "sent"
    BY <1>2, <1>4, <1>15, <1>16, <2>0 DEF TbsOK
  <2>4. SentIsHeld'
    <3> SUFFICES ASSUME NEW t \in Tbs, sender'[t] = "sent"
                 PROVE  \E o \in Pids : proc'[o].tb = t /\ Ue!InFlight(proc'[o])
      BY DEF SentIsHeld, Ue!InFlight
    <3>1. CASE t = harqTb[p]
      BY <1>3, <1>7, <1>15, <3>1
    <3>2. CASE t # harqTb[p]
      <4>1. PICK o \in Pids : proc[o].tb = t /\ Ue!InFlight(proc[o])
        BY <1>2, <1>16, <3>2 DEF TbsOK, SentIsHeld
      <4>2. QED
        BY <1>7, <1>15, <3>2, <4>1
    <3>3. QED
      BY <3>1, <3>2
  <2>5. QED
    BY <1>1, <1>2, <2>1, <2>2, <2>3, <2>4 DEF TbsOK, schedVars, Ue!InFlight
<1>18. ASSUME NEW o \in Pids, o # p
       PROVE  NacksCounted(o)' /\ Stage(o)'
  <2>1. o \in busy => harqTb[o] \in Tbs /\ harqTb[o] # harqTb[p]
    BY <1>2, <1>3, <1>4, <1>18, LoopAssumption DEF TbsOK, TbsApart, StateTypes, Tbs
  <2>2. o \in busy /\ sender[harqTb[o]] = "unsent" => sender'[harqTb[o]] = "unsent"
    BY <1>16, <2>1
  <2>3. QED
    BY <1>1, <1>2, <1>3, <1>10, <1>11, <1>15, <1>18, <2>2, StageStays
    DEF schedVars, enbVars
<1>19. NacksCounted(p)' /\ Stage(p)'
  <2>1. UeState(p)' = "WAITING_FB"
    BY <1>7, <1>15 DEF UeState
  <2>2. NacksCounted(p)'
    <3>1. proc'[p].nacks = q.nacks /\ proc'[p].txNb = rx[p].txCount + 1
      BY <1>7, <1>15
    <3>2. QED
      BY <1>6, <2>1, <3>1 DEF NacksCounted
  <2>3. UeHolds(p)' /\ proc'[p].txNb = rx[p].txCount + 1
    BY <1>1, <1>7, <1>15 DEF UeHolds, schedVars, Ue!InFlight
  <2>4. (EnbHolds(p) \/ EnbIdle(p))'
    BY <1>1, <1>7 DEF EnbHolds, EnbIdle, schedVars, enbVars
  <2>5. PhichOf(p)' = {}
    BY <1>3, <1>4, <1>11
  <2>6. IsOnAir(p)'
    <3>1. /\ n \in PuschOf(p)' /\ PuschOf(p)' = {n} /\ GrantsOf(p)' = {}
          /\ n.item.grant.ndi = ndi[p] /\ n.item.grant.tb = harqTb[p]
          /\ n.item.tb = harqTb[p] /\ n.item.nb = rx[p].txCount + 1
      BY <1>3, <1>4, <1>8, <1>10
    <3>2. UNCHANGED <<schedVars, enbVars>>
      BY <1>1
    <3>3. QED
      BY <1>4, <2>1, <2>3, <2>4, <2>5, <3>1, <3>2 DEF IsOnAir, schedVars, enbVars
  <2>7. QED
    BY <2>2, <2>6 DEF Stage
<1>20. QED
  BY <1>12, <1>13, <1>14, <1>17, <1>18, <1>19 DEF LoopInv

\* A retransmission that is due becomes a grant.
LEMMA EnbGrantRetxInv ==
  ASSUME LoopInv, NEW p \in Pids, EnbGrantRetx(p)
  PROVE  LoopInv'
<1> DEFINE g == [pid |-> p, ndiPresent |-> TRUE, ndi |-> ndi[p],
                 rv |-> Ue!NoRv, tb |-> harqTb[p], isRar |-> FALSE]
<1>1. /\ enbPc = "schedule" /\ p \in pendingRetx
      /\ pendingRetx' = pendingRetx \ {p} /\ busy' = busy
      /\ grantCh' = Channel!Send(grantCh, g) /\ enbPc' = "pusch"
      /\ UNCHANGED <<ueVars, ndi, harqTb, created, rx, puschCh, phichCh, verdictVars>>
  BY NoOrphans DEF EnbGrantRetx, SendGrant
<1>2. StateTypes /\ ChannelsOK /\ AgesOK /\ TbsOK
      /\ \A o \in Pids : NacksCounted(o) /\ Stage(o)
  BY DEF LoopInv
<1>3. IsDue(p)
  BY <1>1, <1>2 DEF Stage, IsFree, IsGranted, IsOnAir, IsRepeated
<1>4. /\ p \in busy /\ NothingOnAir(p) /\ UeHolds(p) /\ EnbHolds(p) /\ Failed(p)
      /\ proc[p].txNb = rx[p].txCount
  BY <1>3 DEF IsDue
<1>5. harqTb[p] \in Tbs /\ ndi[p] \in BOOLEAN
  BY <1>2, <1>4, LoopAssumption DEF TbsOK, StateTypes, Tbs
<1>6. /\ g \in GrantItems /\ g.pid = p /\ g.rv = Ue!NoRv
      /\ g.ndi = ndi[p] /\ g.tb = harqTb[p]
  BY <1>5 DEF GrantItems
<1> HIDE DEF g
<1>7. PICK x : x = g
  OBVIOUS
<1>8. PICK m : m = [left |-> Delay, item |-> x]
  OBVIOUS
<1>9. /\ GrantChOK' /\ GrantsOf(p)' = {m} /\ m.left = Delay /\ m.item = x
      /\ \A o \in Pids : o # p => GrantsOf(o)' = GrantsOf(o)
  BY <1>1, <1>2, <1>4, <1>6, <1>7, <1>8, GrantSent DEF ChannelsOK, NothingOnAir
<1>10. \A o \in Pids : PuschOf(o)' = PuschOf(o) /\ PhichOf(o)' = PhichOf(o)
  BY <1>1 DEF PuschOf, PhichOf
<1>11. ChannelsOK'
  BY <1>1, <1>2, <1>9
  DEF ChannelsOK, PuschChOK, PhichChOK, PuschItemsOf, PhichItemsOf
<1>12. Channel!OnWay(grantCh') = Channel!OnWay(grantCh) \union {m}
  BY <1>1, <1>2, <1>4, <1>6, <1>7, <1>8, GrantSent DEF ChannelsOK, NothingOnAir
<1>13. AgesOK'
  BY <1>1, <1>2, <1>9, <1>12, LoopAssumption DEF AgesOK, ueVars
<1>14. StateTypes'
  BY <1>1, <1>2 DEF StateTypes, ueVars, verdictVars
<1>15. TbsOK'
  BY <1>1, <1>2 DEF TbsOK, TbsApart, SentIsHeld, ueVars, verdictVars, Ue!InFlight
<1>16. ASSUME NEW o \in Pids, o # p
       PROVE  NacksCounted(o)' /\ Stage(o)'
  BY <1>1, <1>2, <1>9, <1>10, <1>16, StageStays DEF ueVars, verdictVars
<1>17. NacksCounted(p)' /\ Stage(p)'
  <2>1. UeState(p)' = UeState(p) /\ NacksCounted(p)'
    BY <1>1, <1>2 DEF NacksCounted, UeState, ueVars
  <2>2. Failed(p)'
    BY <1>1, <1>4, <1>10, <2>1 DEF Failed, ueVars
  <2>3. UeHolds(p)' /\ EnbHolds(p)'
    BY <1>1, <1>4 DEF UeHolds, EnbHolds, ueVars, verdictVars, Ue!InFlight
  <2>4. \A f \in PhichOf(p) : f.left < Delay
    BY <1>1, <1>2 DEF AgesOK, PhichOf, Channel!Of
  <2>5. Granted(p, Ue!NoRv)'
    BY <1>1, <1>4, <1>6, <1>7, <1>9, <1>10, <2>4 DEF Granted, NothingOnAir
  <2>6. IsRepeated(p)'
    BY <1>1, <1>4, <2>2, <2>3, <2>5 DEF IsRepeated, ueVars
  <2>7. QED
    BY <2>1, <2>6 DEF Stage
<1>18. QED
  BY <1>11, <1>13, <1>14, <1>15, <1>16, <1>17 DEF LoopInv

\* The process of a new TB is a free one.
LEMMA FreePidIsFree ==
  ASSUME LoopInv, Free # {}
  PROVE  FreePid \in Free
<1>1. Free \in SUBSET Nat
  BY LoopAssumption DEF Free, Pids
<1>2. PICK p \in Free : \A q \in Free : p <= q
  BY <1>1, Lib!LeastNatural
<1>3. FreePid = Lowest(Free)
  BY NoOrphans DEF FreePid
<1>4. QED
  BY <1>2, <1>3 DEF Lowest

\* A process that is free gets a grant for a TB that is new.
LEMMA EnbGrantNewInv ==
  ASSUME LoopInv, EnbGrantNew
  PROVE  LoopInv'
<1> PICK p : p = FreePid
  OBVIOUS
<1> PICK t : t = created + 1
  OBVIOUS
<1> DEFINE g == [pid |-> p, ndiPresent |-> TRUE, ndi |-> ndi'[p],
                 rv |-> 0, tb |-> t, isRar |-> FALSE]
<1>1. StateTypes /\ ChannelsOK /\ AgesOK /\ TbsOK
      /\ \A o \in Pids : NacksCounted(o) /\ Stage(o)
  BY DEF LoopInv
<1>2. /\ enbPc = "schedule" /\ created < MaxTb /\ Free # {}
      /\ ndi' = [ndi EXCEPT ![p] = ~ndi[p]] /\ harqTb' = [harqTb EXCEPT ![p] = t]
      /\ busy' = busy \union {p} /\ pendingRetx' = pendingRetx /\ created' = t
      /\ grantCh' = Channel!Send(grantCh, g)
      /\ enbPc' = "pusch"
      /\ UNCHANGED <<ueVars, rx, puschCh, phichCh, verdictVars>>
  BY NoOrphans DEF EnbGrantNew, RetxNotGranted, SendGrant, Toggled
<1>3. p \in Pids /\ p \notin busy
  BY <1>2, FreePidIsFree DEF Free
<1>4. IsFree(p)
  BY <1>1, <1>3 DEF Stage, IsGranted, IsOnAir, IsDue, IsRepeated
<1>5. /\ NothingOnAir(p) /\ EnbIdle(p) /\ Decided(p) /\ p \notin pendingRetx
      /\ proc[p].configured => proc[p].ndi = ndi[p]
  BY <1>4 DEF IsFree
<1>6. t \in Tbs /\ t \in 0 .. MaxTb /\ created \in Nat /\ t > created
      /\ ~(t <= created)
  BY <1>1, <1>2, LoopAssumption DEF StateTypes, Tbs
<1>7. sender[t] = "unsent" /\ receiver[t] = "open"
  BY <1>1, <1>6 DEF TbsOK
<1>8. /\ ndi'[p] = ~ndi[p] /\ ndi'[p] \in BOOLEAN /\ harqTb'[p] = t
      /\ \A o \in Pids : o # p => ndi'[o] = ndi[o] /\ harqTb'[o] = harqTb[o]
  BY <1>1, <1>2, <1>3 DEF StateTypes
<1>9. /\ g \in GrantItems /\ g.pid = p /\ g.rv = 0
      /\ g.ndi = ndi'[p] /\ g.tb = t
  BY <1>3, <1>6, <1>8 DEF GrantItems
<1> HIDE DEF g
<1>10. PICK x : x = g
  OBVIOUS
<1>11. PICK m : m = [left |-> Delay, item |-> x]
  OBVIOUS
<1>12. /\ GrantChOK' /\ GrantsOf(p)' = {m} /\ m.left = Delay /\ m.item = x
       /\ Channel!OnWay(grantCh') = Channel!OnWay(grantCh) \union {m}
       /\ \A o \in Pids : o # p => GrantsOf(o)' = GrantsOf(o)
  BY <1>1, <1>2, <1>5, <1>9, <1>10, <1>11, GrantSent DEF ChannelsOK, NothingOnAir
<1>13. \A o \in Pids : PuschOf(o)' = PuschOf(o) /\ PhichOf(o)' = PhichOf(o)
  BY <1>2 DEF PuschOf, PhichOf
<1>14. ChannelsOK'
  BY <1>1, <1>2, <1>12
  DEF ChannelsOK, PuschChOK, PhichChOK, PuschItemsOf, PhichItemsOf
<1>15. AgesOK'
  BY <1>1, <1>2, <1>12, LoopAssumption DEF AgesOK, ueVars
<1>16. StateTypes'
  BY <1>1, <1>2, <1>3, <1>6 DEF StateTypes, ueVars, verdictVars
<1>17. TbsOK'
  <2>1. \A o \in busy : harqTb[o] \in 1 .. created /\ harqTb'[o] = harqTb[o]
    BY <1>1, <1>3, <1>8 DEF TbsOK, StateTypes
  <2>2. \A o \in busy' : harqTb'[o] \in 1 .. created'
    BY <1>2, <1>6, <1>8, <2>1, LoopAssumption DEF Tbs
  <2>3. \A o \in busy : harqTb'[o] # t
    BY <1>6, <2>1
  <2>4. \A o, q \in Pids : o # q /\ o \in busy' /\ q \in busy' => harqTb'[o] # harqTb'[q]
    BY <1>1, <1>2, <1>8, <2>1, <2>3 DEF TbsOK, TbsApart
  <2>5. TbsApart'
    BY <1>1, <1>2, <2>4 DEF TbsOK, TbsApart, ueVars, Ue!InFlight
  <2>6. \A o \in Tbs : o > created' => sender'[o] = "unsent" /\ receiver'[o] = "open"
    BY <1>1, <1>2, <1>6 DEF TbsOK, Tbs, verdictVars
  <2>7. SentIsHeld'
    BY <1>1, <1>2 DEF TbsOK, SentIsHeld, ueVars, verdictVars, Ue!InFlight
  <2>8. \A o \in Pids : Ue!InFlight(proc[o])' =>
          proc'[o].tb \in Tbs /\ sender'[proc'[o].tb] = "sent"
    BY <1>1, <1>2 DEF TbsOK, ueVars, verdictVars, Ue!InFlight
  <2>9. QED
    BY <2>2, <2>5, <2>6, <2>7, <2>8 DEF TbsOK
<1>18. ASSUME NEW o \in Pids, o # p
       PROVE  NacksCounted(o)' /\ Stage(o)'
  BY <1>1, <1>2, <1>8, <1>12, <1>13, <1>18, StageStays DEF ueVars, verdictVars
<1>19. NacksCounted(p)' /\ Stage(p)'
  <2>1. UeState(p)' = UeState(p) /\ NacksCounted(p)'
    BY <1>1, <1>2, <1>3 DEF NacksCounted, UeState, ueVars
  <2>2. Decided(p)'
    BY <1>2, <1>3, <1>5, <1>13, <2>1 DEF Decided, ueVars, verdictVars
  <2>3. EnbIdle(p)'
    BY <1>2, <1>5 DEF EnbIdle
  <2>4. \A f \in PhichOf(p) : f.left < Delay
    BY <1>1, <1>2 DEF AgesOK, PhichOf, Channel!Of
  <2>5. Granted(p, 0)'
    BY <1>3, <1>5, <1>8, <1>9, <1>10, <1>12, <1>13, <2>4 DEF Granted, NothingOnAir
  <2>6. proc'[p].configured => proc'[p].ndi # ndi'[p]
    BY <1>1, <1>2, <1>3, <1>5, <1>8 DEF StateTypes, ueVars
  <2>7. IsGranted(p)'
    BY <1>2, <1>5, <1>6, <1>7, <1>8, <2>2, <2>3, <2>5, <2>6
    DEF IsGranted, verdictVars
  <2>8. QED
    BY <2>1, <2>7 DEF Stage
<1>20. QED
  BY <1>14, <1>15, <1>16, <1>17, <1>18, <1>19 DEF LoopInv

\* A transmission that arrives is on the air, and is for the TB in flight.
LEMMA Arrival ==
  ASSUME LoopInv, puschCh # <<>>,
         NEW m, m = Head(puschCh), NEW p, p = m.item.grant.pid
  PROVE  /\ m.item.grant \in GrantItems /\ p \in Pids /\ rx[p] \in RxProcesses
         /\ PuschOf(p) = {m} /\ IsOnAir(p) /\ UeHolds(p)
         /\ m.item.grant.ndi = ndi[p] /\ m.item.grant.tb = harqTb[p]
         /\ m.item.tb = harqTb[p]
         /\ harqTb[p] \in Tbs /\ ~(harqTb[p] > created) /\ sender[harqTb[p]] = "sent"
<1>1. StateTypes /\ ChannelsOK /\ TbsOK /\ \A o \in Pids : Stage(o)
  BY DEF LoopInv
<1>2. m.item \in PuschItems /\ p \in Pids /\ PuschOf(p) = {m}
  BY <1>1, PuschFirst DEF ChannelsOK
<1>3. IsOnAir(p)
  BY <1>1, <1>2
  DEF Stage, IsFree, IsGranted, IsDue, IsRepeated, Granted, NothingOnAir
<1>4. /\ p \in busy /\ UeHolds(p)
      /\ m.item.grant.ndi = ndi[p] /\ m.item.grant.tb = harqTb[p]
      /\ m.item.tb = harqTb[p]
  BY <1>2, <1>3 DEF IsOnAir
<1>5. harqTb[p] \in Tbs /\ sender[harqTb[p]] = "sent"
  BY <1>1, <1>2, <1>4 DEF TbsOK, UeHolds
<1>6. ~(harqTb[p] > created)
  BY <1>1, <1>4 DEF TbsOK, StateTypes
<1>7. m.item.grant \in GrantItems /\ rx[p] \in RxProcesses
  BY <1>1, <1>2 DEF PuschItems, StateTypes
<1>8. QED
  BY <1>2, <1>3, <1>4, <1>5, <1>6, <1>7

\* The receiver takes that transmission with or without a CRC error.
LEMMA Reception ==
  ASSUME LoopInv, puschCh # <<>>,
         NEW m, m = Head(puschCh), NEW p, p = m.item.grant.pid,
         NEW ok \in BOOLEAN
  PROVE  HasReceived(rx[p], m.item.grant, ok,
                     Enb!ReceiveTb(rx[p], m.item.grant, m.item.tb, ok))
<1> DEFINE q == rx[p]
           g == m.item.grant
<1>1. /\ g \in GrantItems /\ q \in RxProcesses /\ IsOnAir(p)
      /\ g.ndi = ndi[p] /\ g.tb = harqTb[p] /\ m.item.tb = g.tb
  BY Arrival
<1>2. \/ ~q.ndiKnown /\ q.txCount = 0
      \/ q.ndiKnown /\ q.ndi = g.ndi /\ q.tb = g.tb /\ q.soft = {g.tb}
  BY <1>1 DEF IsOnAir, EnbHolds, EnbIdle
<1> HIDE DEF q, g
<1>3. HasReceived(q, g, ok, Enb!ReceiveTb(q, g, g.tb, ok))
  BY <1>1, <1>2, ReceivedTb
<1>4. QED
  BY <1>1, <1>3 DEF q, g

\* A transmission the eNB receives decides its TB, or makes it due again.
LEMMA EnbReceiveInv ==
  ASSUME LoopInv, EnbReceive
  PROVE  LoopInv'
<1> PICK m : m = Head(puschCh)
  OBVIOUS
<1> PICK p : p = m.item.grant.pid
  OBVIOUS
<1> PICK t : t = harqTb[p]
  OBVIOUS
<1>1. PICK crcOk \in BOOLEAN :
        LET r == Enb!ReceiveTb(rx[p], m.item.grant, m.item.tb, crcOk)
        IN  /\ enbPc = "pusch" /\ puschCh # <<>> /\ m.left = 0
            /\ rx' = [rx EXCEPT ![p] = r.rx]
            /\ phichCh' = Channel!Send(phichCh, [pid |-> p, ack |-> r.crcOk])
            /\ HandleUlCrc(p, Settled(r))
            /\ receiver' = EnbVerdict(r)
            /\ puschCh' = Tail(puschCh)
            /\ UNCHANGED <<ueVars, enbPc, ndi, created, grantCh, sender>>
  BY DEF EnbReceive, Channel!Visible
<1> DEFINE q == rx[p]
           g == m.item.grant
           r == Enb!ReceiveTb(q, g, m.item.tb, crcOk)
<1>2. StateTypes /\ ChannelsOK /\ AgesOK /\ TbsOK
      /\ \A o \in Pids : NacksCounted(o) /\ Stage(o)
  BY DEF LoopInv
<1>3. /\ PuschChOK' /\ Channel!OnWay(puschCh') \subseteq Channel!OnWay(puschCh)
      /\ m.item \in PuschItems /\ p \in Pids
      /\ PuschOf(p) = {m} /\ PuschOf(p)' = {}
      /\ \A o \in Pids : o # p => PuschOf(o)' = PuschOf(o)
  BY <1>1, <1>2, PuschTaken DEF ChannelsOK
<1>4. puschCh # <<>>
  BY <1>1
<1>5. HasReceived(q, g, crcOk, r) /\ g.ndi = ndi[p] /\ g.tb = t
  BY <1>4, Arrival, Reception
<1>6. /\ r.rx \in RxProcesses /\ r.crcOk = crcOk /\ r.tb = t
      /\ r.discarded <=> ~crcOk /\ q.txCount + 1 = MaxHarqTx
      /\ crcOk \/ r.discarded =>
           ~r.rx.ndiKnown /\ r.rx.txCount = 0 /\ r.rx.soft = {}
      /\ ~crcOk /\ ~r.discarded =>
           /\ r.rx.ndiKnown /\ r.rx.ndi = ndi[p] /\ r.rx.tb = t
           /\ r.rx.soft = {t} /\ r.rx.txCount = q.txCount + 1
  <2> HIDE DEF r, q, g
  <2>1. QED
    BY <1>5 DEF HasReceived
<1>7. /\ IsOnAir(p) /\ UeHolds(p)
      /\ t \in Tbs /\ ~(t > created) /\ sender[t] = "sent"
  BY <1>4, Arrival
<1>8. /\ p \in busy /\ p \notin pendingRetx
      /\ GrantsOf(p) = {} /\ PhichOf(p) = {}
      /\ UeState(p) = "WAITING_FB" /\ proc[p].txNb = q.txCount + 1
      /\ EnbHolds(p) \/ EnbIdle(p)
  BY <1>7 DEF IsOnAir
<1>9. /\ Ue!InFlight(proc[p]) /\ proc[p].tb = t /\ proc[p].ndi = ndi[p]
      /\ receiver[t] = "open"
  BY <1>7 DEF UeHolds
<1> HIDE DEF r, q, g
<1>10. /\ rx' = [rx EXCEPT ![p] = r.rx]
       /\ phichCh' = Channel!Send(phichCh, [pid |-> p, ack |-> crcOk])
       /\ HandleUlCrc(p, crcOk \/ r.discarded)
       /\ receiver' = IF crcOk THEN [receiver EXCEPT ![t] = "delivered"]
                      ELSE IF r.discarded THEN [receiver EXCEPT ![t] = "dropped"]
                      ELSE receiver
  BY <1>1, <1>6 DEF Settled, EnbVerdict, r, q, g
<1>11. /\ enbPc = "pusch" /\ puschCh # <<>> /\ m.left = 0 /\ puschCh' = Tail(puschCh)
       /\ UNCHANGED <<ueVars, enbPc, ndi, created, grantCh, sender>>
  BY <1>1
<1>12. PICK x : x = [pid |-> p, ack |-> crcOk]
  OBVIOUS
<1>13. x \in PhichItems /\ x.pid = p /\ x.ack = crcOk
  BY <1>3, <1>12 DEF PhichItems
<1>14. phichCh' = Channel!Send(phichCh, x)
  BY <1>10, <1>12
<1>15. PICK n : n = [left |-> Delay, item |-> x]
  OBVIOUS
<1>16. /\ PhichChOK' /\ Channel!OnWay(phichCh') = Channel!OnWay(phichCh) \union {n}
       /\ PhichOf(p)' = {n} /\ n.left = Delay /\ n.item = x
       /\ \A o \in Pids : o # p => PhichOf(o)' = PhichOf(o)
  BY <1>2, <1>8, <1>13, <1>14, <1>15, PhichSent DEF ChannelsOK
<1>17. \A o \in Pids : GrantsOf(o)' = GrantsOf(o)
  BY <1>11 DEF GrantsOf
<1>18. ChannelsOK'
  BY <1>11, <1>2, <1>3, <1>16 DEF ChannelsOK, GrantChOK, GrantItemsOf
<1>19. AgesOK'
  BY <1>11, <1>2, <1>3, <1>16, LoopAssumption DEF AgesOK, ueVars
<1>20. /\ busy' = IF crcOk \/ r.discarded THEN busy \ {p} ELSE busy
       /\ pendingRetx' = IF crcOk \/ r.discarded THEN pendingRetx
                         ELSE pendingRetx \union {p}
       /\ harqTb' = IF crcOk \/ r.discarded THEN [harqTb EXCEPT ![p] = NoTb]
                    ELSE harqTb
  <2>1. CASE crcOk \/ r.discarded
    <3>1. pendingRetx \ {p} = pendingRetx
      BY <1>8
    <3>2. QED
      BY <1>10, <2>1, <3>1 DEF HandleUlCrc
  <2>2. CASE ~(crcOk \/ r.discarded)
    <3>1. busy \union {p} = busy
      BY <1>8
    <3>2. QED
      BY <1>10, <2>2, <3>1 DEF HandleUlCrc
  <2>3. QED
    BY <2>1, <2>2
<1>21. /\ \A o \in Pids : o # p => rx'[o] = rx[o] /\ harqTb'[o] = harqTb[o]
       /\ rx'[p] = r.rx
       /\ \A u \in Tbs : u # t => receiver'[u] = receiver[u]
  BY <1>2, <1>3, <1>10, <1>20 DEF StateTypes
<1>22. StateTypes'
  <2>1. rx' \in [Pids -> RxProcesses]
    BY <1>2, <1>3, <1>6, <1>10 DEF StateTypes
  <2>2. receiver' \in [Tbs -> {"open", "delivered", "dropped"}]
    BY <1>2, <1>10 DEF StateTypes
  <2>3. busy' \subseteq Pids /\ pendingRetx' \subseteq Pids
    BY <1>2, <1>3, <1>20 DEF StateTypes
  <2>4. harqTb' \in [Pids -> Tbs \union {NoTb}]
    BY <1>2, <1>3, <1>20 DEF StateTypes
  <2>5. QED
    BY <1>11, <1>2, <2>1, <2>2, <2>3, <2>4 DEF StateTypes, ueVars
<1>23. TbsOK'
  <2>1. \A u \in Tbs : u > created' => sender'[u] = "unsent" /\ receiver'[u] = "open"
    BY <1>11, <1>2, <1>7, <1>9, <1>21 DEF TbsOK
  <2>2. \A o \in busy' : o \in busy /\ harqTb'[o] = harqTb[o]
    BY <1>2, <1>20, <1>21 DEF StateTypes
  <2>3. \A o \in busy' : harqTb'[o] \in 1 .. created'
    BY <1>11, <1>2, <2>2 DEF TbsOK
  <2>4. \A o, u \in Pids : o # u /\ o \in busy' /\ u \in busy' => harqTb'[o] # harqTb'[u]
    BY <1>2, <2>2 DEF TbsOK, TbsApart
  <2>5. TbsApart'
    BY <1>11, <1>2, <2>4 DEF TbsOK, TbsApart, ueVars, Ue!InFlight
  <2>6. SentIsHeld'
    BY <1>11, <1>2 DEF TbsOK, SentIsHeld, ueVars, Ue!InFlight
  <2>7. \A o \in Pids : Ue!InFlight(proc[o])' =>
          proc'[o].tb \in Tbs /\ sender'[proc'[o].tb] = "sent"
    BY <1>11, <1>2 DEF TbsOK, ueVars, Ue!InFlight
  <2>8. QED
    BY <2>1, <2>3, <2>5, <2>6, <2>7 DEF TbsOK
<1>24. ASSUME NEW o \in Pids, o # p
       PROVE  NacksCounted(o)' /\ Stage(o)'
  <2>1. o \in busy => harqTb[o] \in Tbs /\ harqTb[o] # t
    BY <1>2, <1>3, <1>8, <1>24, LoopAssumption DEF TbsOK, TbsApart, StateTypes, Tbs
  <2>2. Ue!InFlight(proc[o]) => proc[o].tb \in Tbs /\ proc[o].tb # t
    <3>1. TbsApart /\ (Ue!InFlight(proc[o]) => proc[o].tb \in Tbs)
      BY <1>2, <1>24 DEF TbsOK
    <3>2. QED
      BY <1>3, <1>9, <1>24, <3>1 DEF TbsApart
  <2>3. /\ o \in busy => receiver'[harqTb[o]] = receiver[harqTb[o]]
        /\ Ue!InFlight(proc[o]) => receiver'[proc[o].tb] = receiver[proc[o].tb]
    BY <1>21, <2>1, <2>2
  <2>4. (o \in busy' <=> o \in busy) /\ (o \in pendingRetx' <=> o \in pendingRetx)
    BY <1>20, <1>24
  <2>5. QED
    BY <1>11, <1>2, <1>3, <1>16, <1>17, <1>21, <1>24, <2>3, <2>4, StageStays
    DEF ueVars
<1>25. NacksCounted(p)' /\ Stage(p)'
  <2>1. UeState(p)' = UeState(p) /\ NacksCounted(p)' /\ proc'[p] = proc[p]
    BY <1>11, <1>2, <1>3 DEF NacksCounted, UeState, ueVars
  <2>2. NothingOnAir(p)'
    BY <1>3, <1>8, <1>17 DEF NothingOnAir
  <2>3. CASE crcOk \/ r.discarded
    <3>1. EnbIdle(p)'
      BY <1>6, <1>21, <2>3 DEF EnbIdle
    <3>2. receiver'[t] = IF crcOk THEN "delivered" ELSE "dropped"
      BY <1>2, <1>7, <1>9, <1>10, <2>3 DEF StateTypes
    <3>3. crcOk \/ proc[p].txNb = MaxHarqTx
      BY <1>8, <1>6, <2>3
    <3>4. Decided(p)'
      BY <1>8, <1>7, <1>9, <1>13, <1>16, <2>1, <3>2, <3>3 DEF Decided
    <3>5. p \notin busy' /\ p \notin pendingRetx'
      BY <1>8, <1>20, <2>3
    <3>6. proc'[p].configured => proc'[p].ndi = ndi'[p]
      BY <1>11, <1>7, <1>9, <2>1
    <3>7. QED
      BY <2>1, <2>2, <3>1, <3>4, <3>5, <3>6 DEF Stage, IsFree
  <2>4. CASE ~crcOk /\ ~r.discarded
    <3>1. EnbHolds(p)'
      BY <1>11, <1>6, <1>20, <1>21, <2>4 DEF EnbHolds
    <3>2. UeHolds(p)'
      BY <1>11, <1>7, <1>9, <1>10, <1>20, <2>1, <2>4 DEF UeHolds, Ue!InFlight
    <3>3. Failed(p)'
      BY <1>8, <1>13, <1>16, <2>1, <2>4 DEF Failed
    <3>4. proc'[p].txNb = rx'[p].txCount
      BY <1>8, <1>6, <1>21, <2>1, <2>4
    <3>5. p \in busy' /\ p \in pendingRetx'
      BY <1>8, <1>20, <2>4
    <3>6. QED
      BY <2>1, <2>2, <3>1, <3>2, <3>3, <3>4, <3>5 DEF Stage, IsDue
  <2>5. QED
    BY <2>3, <2>4
<1>26. QED
  BY <1>18, <1>19, <1>22, <1>23, <1>24, <1>25 DEF LoopInv

\* The clock moves on: every message ages, and everything else stays.
LEMMA NextTtiInv ==
  ASSUME LoopInv, NextTti
  PROVE  LoopInv'
<1>1. /\ uePc = "done" /\ enbPc = "done" /\ uePc' = "phich" /\ enbPc' = "schedule"
      /\ grantCh' = Channel!Advance(grantCh)
      /\ puschCh' = Channel!Advance(puschCh)
      /\ phichCh' = Channel!Advance(phichCh)
      /\ UNCHANGED <<proc, lastPdu, schedVars, rx, verdictVars>>
  BY DEF NextTti
<1>2. StateTypes /\ ChannelsOK /\ AgesOK /\ TbsOK
      /\ \A o \in Pids : NacksCounted(o) /\ Stage(o)
  BY DEF LoopInv
<1>3. /\ \A m \in Channel!OnWay(grantCh) : m.left > 0
      /\ \A m \in Channel!OnWay(puschCh) : m.left > 0
      /\ \A m \in Channel!OnWay(phichCh) : m.left > 0
  BY <1>1, <1>2 DEF AgesOK
<1>4. /\ grantCh' \in Seq(Channel!Messages(GrantItems)) /\ Channel!Sorted(grantCh')
      /\ \A m \in Channel!OnWay(grantCh) : Older(m).left = m.left - 1 /\ Older(m).item = m.item
      /\ \A I : /\ Channel!Of(grantCh', I) = {Older(m) : m \in Channel!Of(grantCh, I)}
                /\ Channel!AtMostOne(grantCh, I) => Channel!AtMostOne(grantCh', I)
  BY <1>1, <1>2, <1>3, AdvanceStep DEF ChannelsOK, GrantChOK
<1>5. /\ puschCh' \in Seq(Channel!Messages(PuschItems)) /\ Channel!Sorted(puschCh')
      /\ \A m \in Channel!OnWay(puschCh) : Older(m).left = m.left - 1 /\ Older(m).item = m.item
      /\ \A I : /\ Channel!Of(puschCh', I) = {Older(m) : m \in Channel!Of(puschCh, I)}
                /\ Channel!AtMostOne(puschCh, I) => Channel!AtMostOne(puschCh', I)
  BY <1>1, <1>2, <1>3, AdvanceStep DEF ChannelsOK, PuschChOK
<1>6. /\ phichCh' \in Seq(Channel!Messages(PhichItems)) /\ Channel!Sorted(phichCh')
      /\ \A m \in Channel!OnWay(phichCh') : m.left < Delay
      /\ \A m \in Channel!OnWay(phichCh) : Older(m).left = m.left - 1 /\ Older(m).item = m.item
      /\ \A I : /\ Channel!Of(phichCh', I) = {Older(m) : m \in Channel!Of(phichCh, I)}
                /\ Channel!AtMostOne(phichCh, I) => Channel!AtMostOne(phichCh', I)
  BY <1>1, <1>2, <1>3, AdvanceStep DEF ChannelsOK, PhichChOK
<1>7. ChannelsOK'
  <2>1. GrantChOK'
    BY <1>2, <1>4 DEF ChannelsOK, GrantChOK, GrantItemsOf
  <2>2. PuschChOK'
    BY <1>2, <1>5 DEF ChannelsOK, PuschChOK, PuschItemsOf
  <2>3. PhichChOK'
    BY <1>2, <1>6 DEF ChannelsOK, PhichChOK, PhichItemsOf
  <2>4. QED
    BY <2>1, <2>2, <2>3 DEF ChannelsOK
<1>8. AgesOK'
  BY <1>1, <1>6 DEF AgesOK
<1>9. StateTypes'
  BY <1>1, <1>2 DEF StateTypes, schedVars, verdictVars
<1>10. TbsOK'
  BY <1>1, <1>2 DEF TbsOK, TbsApart, SentIsHeld, schedVars, verdictVars, Ue!InFlight
<1>11. ASSUME NEW p \in Pids
       PROVE  NacksCounted(p)' /\ Stage(p)'
  <2>1. UeState(p)' = UeState(p) /\ NacksCounted(p)'
    BY <1>1, <1>2 DEF NacksCounted, UeState
  <2>2. /\ GrantsOf(p)' = {Older(m) : m \in GrantsOf(p)}
        /\ PuschOf(p)' = {Older(m) : m \in PuschOf(p)}
        /\ PhichOf(p)' = {Older(m) : m \in PhichOf(p)}
    BY <1>4, <1>5, <1>6
    DEF GrantsOf, PuschOf, PhichOf, GrantItemsOf, PuschItemsOf, PhichItemsOf
  <2>3. /\ GrantsOf(p) \subseteq Channel!OnWay(grantCh)
        /\ PuschOf(p) \subseteq Channel!OnWay(puschCh)
        /\ PhichOf(p) \subseteq Channel!OnWay(phichCh)
    BY DEF GrantsOf, PuschOf, PhichOf, Channel!Of
  <2>4. /\ GrantsOf(p) = {} => GrantsOf(p)' = {}
        /\ PuschOf(p) = {} => PuschOf(p)' = {}
        /\ PhichOf(p) = {} => PhichOf(p)' = {}
    BY <2>2
  <2>5. Decided(p) => Decided(p)'
    <3>1. CASE PhichOf(p) = {} /\ UeState(p) = "INACTIVE"
      BY <2>1, <2>4, <3>1 DEF Decided
    <3>2. CASE /\ UeState(p) = "WAITING_FB"
               /\ \E m \in PhichOf(p) :
                    /\ PhichOf(p) = {m}
                    /\ receiver[proc[p].tb] =
                         IF m.item.ack THEN "delivered" ELSE "dropped"
                    /\ m.item.ack \/ proc[p].txNb = MaxHarqTx
      <4>1. PICK m \in PhichOf(p) :
              /\ PhichOf(p) = {m}
              /\ receiver[proc[p].tb] =
                   IF m.item.ack THEN "delivered" ELSE "dropped"
              /\ m.item.ack \/ proc[p].txNb = MaxHarqTx
        BY <3>2
      <4>2. PhichOf(p)' = {Older(m)} /\ Older(m).item = m.item
        BY <1>6, <2>2, <2>3, <4>1
      <4>3. QED
        BY <1>1, <2>1, <3>2, <4>1, <4>2 DEF Decided, verdictVars
    <3>3. QED
      BY <3>1, <3>2 DEF Decided
  <2>6. Failed(p) => Failed(p)'
    <3>1. CASE PhichOf(p) = {} /\ UeState(p) = "RETX_PENDING"
      BY <2>1, <2>4, <3>1 DEF Failed
    <3>2. ASSUME UeState(p) = "WAITING_FB", NEW m \in PhichOf(p),
                 PhichOf(p) = {m}, ~m.item.ack
          PROVE  Failed(p)'
      <4>1. PhichOf(p)' = {Older(m)} /\ Older(m).item = m.item
        BY <1>6, <2>2, <2>3, <3>2
      <4>2. QED
        BY <2>1, <3>2, <4>1 DEF Failed
    <3>3. QED
      BY <3>1, <3>2 DEF Failed
  <2>7. ASSUME NEW rv, Granted(p, rv) PROVE Granted(p, rv)'
    <3>1. PICK m \in GrantsOf(p) :
            /\ GrantsOf(p) = {m}
            /\ m.item.ndi = ndi[p] /\ m.item.tb = harqTb[p] /\ m.item.rv = rv
            /\ \A f \in PhichOf(p) : f.left < m.left
      BY <2>7 DEF Granted
    <3>2. /\ GrantsOf(p)' = {Older(m)} /\ Older(m).item = m.item
          /\ Older(m).left = m.left - 1
      BY <1>4, <2>2, <2>3, <3>1
    <3>3. m.left \in Int
      BY <1>2, <2>3, OnWayTyped DEF ChannelsOK, GrantChOK
    <3>4. ASSUME NEW f \in PhichOf(p) PROVE Older(f).left < Older(m).left
      <4>1. f.left \in Int /\ Older(f).left = f.left - 1
        BY <1>2, <1>6, <2>3, OnWayTyped DEF ChannelsOK, PhichChOK
      <4>2. QED
        BY <3>1, <3>2, <3>3, <4>1
    <3>5. \A f \in PhichOf(p)' : f.left < Older(m).left
      BY <2>2, <3>4
    <3>6. PuschOf(p)' = {}
      BY <2>4, <2>7 DEF Granted
    <3>7. QED
      BY <1>1, <3>1, <3>2, <3>5, <3>6 DEF Granted, schedVars
  <2>8. (UeHolds(p) => UeHolds(p)') /\ (EnbHolds(p) => EnbHolds(p)') /\ (EnbIdle(p) => EnbIdle(p)')
    BY <1>1 DEF UeHolds, EnbHolds, EnbIdle, schedVars, verdictVars, Ue!InFlight
  <2>9. NothingOnAir(p) => NothingOnAir(p)'
    BY <2>4 DEF NothingOnAir
  <2>10. CASE IsFree(p)
    BY <1>1, <2>1, <2>5, <2>8, <2>9, <2>10 DEF Stage, IsFree, schedVars
  <2>11. CASE IsGranted(p)
    BY <1>1, <2>1, <2>5, <2>7, <2>8, <2>11
    DEF Stage, IsGranted, schedVars, verdictVars
  <2>12. CASE IsDue(p)
    BY <1>1, <2>1, <2>6, <2>8, <2>9, <2>12 DEF Stage, IsDue, schedVars
  <2>13. CASE IsRepeated(p)
    BY <1>1, <2>1, <2>6, <2>7, <2>8, <2>13 DEF Stage, IsRepeated, schedVars
  <2>14. CASE IsOnAir(p)
    <3>1. PICK m \in PuschOf(p) :
            /\ PuschOf(p) = {m}
            /\ m.item.grant.ndi = ndi[p] /\ m.item.grant.tb = harqTb[p]
            /\ m.item.tb = harqTb[p] /\ m.item.nb = rx[p].txCount + 1
      BY <2>14 DEF IsOnAir
    <3>2. PuschOf(p)' = {Older(m)} /\ Older(m).item = m.item
      BY <1>5, <2>2, <2>3, <3>1
    <3>3. GrantsOf(p)' = {} /\ PhichOf(p)' = {}
      BY <2>4, <2>14 DEF IsOnAir
    <3>4. IsOnAir(p)'
      BY <1>1, <2>1, <2>8, <2>14, <3>1, <3>2, <3>3 DEF IsOnAir, schedVars
    <3>5. QED
      BY <2>1, <3>4 DEF Stage
  <2>15. QED
    BY <1>2, <2>10, <2>11, <2>12, <2>13, <2>14 DEF Stage
<1>12. QED
  BY <1>7, <1>8, <1>9, <1>10, <1>11 DEF LoopInv

\* Every step of the loop keeps the invariant.
LEMMA LoopStep ==
  ASSUME NeverEarly, LoopInv, [Next]_vars
  PROVE  LoopInv'
<1>1. CASE UeNext
  BY <1>1, UeFeedbackInv, UeFeedbackDoneInv, UeGrantInv, UeGrantDoneInv DEF UeNext
<1>2. CASE EnbNext
  BY <1>2, EnbGrantRetxInv, EnbGrantNewInv, EnbGrantNothingInv, EnbReceiveInv,
     EnbReceiveDoneInv
  DEF EnbNext
<1>3. CASE NextTti
  BY <1>3, NextTtiInv
<1>4. CASE UNCHANGED vars
  <2>1. AgesOK' /\ uePc' \in {"phich", "grant", "done"}
        /\ enbPc' \in {"schedule", "pusch", "done"}
    BY <1>4 DEF vars, ueVars, enbVars, channelVars, LoopInv, AgesOK, StateTypes
  <2>2. QED
    BY <1>4, <2>1, BodyInv DEF vars, ueVars, enbVars
<1>5. QED
  BY <1>1, <1>2, <1>3, <1>4 DEF Next

\* The inductive invariant holds of the loop, for every number of processes,
\* transmissions and TBs, every delay, and with or without PRB contention.
THEOREM LoopSafe ==
  ASSUME NeverEarly
  PROVE  Spec => []LoopInv
<1>1. LoopInv /\ [Next]_vars => LoopInv'
  BY LoopStep
<1>2. QED
  BY <1>1, LoopInit, PTL DEF Spec

\* The counts, numbers and stages of both ends keep their ranges.
THEOREM LoopTypeOK ==
  ASSUME NeverEarly
  PROVE  Spec => []TypeOK
<1>1. LoopInv => TypeOK
  <2> SUFFICES ASSUME LoopInv PROVE TypeOK
    OBVIOUS
  <2>1. StateTypes /\ ChannelsOK
    BY DEF LoopInv
  <2>2. ASSUME NEW p \in Pids
        PROVE  /\ proc[p].txNb \in 0 .. MaxHarqTx /\ proc[p].irv \in 0 .. 3
               /\ proc[p].tb \in Tbs \union {NoTb}
               /\ rx[p].txCount \in 0 .. MaxHarqTx - 1
               /\ rx[p].tb \in Tbs \union {NoTb} /\ rx[p].soft \subseteq Tbs
    BY <2>1 DEF StateTypes, UeProcesses, RxProcesses
  <2>3. /\ \A i \in DOMAIN grantCh : grantCh[i].left \in 0 .. Delay
        /\ \A i \in DOMAIN puschCh : puschCh[i].left \in 0 .. Delay
        /\ \A i \in DOMAIN phichCh : phichCh[i].left \in 0 .. Delay
    BY <2>1, OnWayTyped DEF ChannelsOK, GrantChOK, PuschChOK, PhichChOK, Channel!OnWay
  <2>4. QED
    BY <2>1, <2>2, <2>3 DEF TypeOK, StateTypes
<1>2. QED
  BY <1>1, LoopSafe, PTL

\* Messages of a process that a channel holds, counted.
LEMMA CountOnWay ==
  ASSUME NEW ch, NEW I, Channel!AtMostOne(ch, I)
  PROVE  LET n == Cardinality({i \in DOMAIN ch : ch[i].item \in I})
         IN  /\ Channel!Of(ch, I) = {} => n = 0
             /\ Channel!Of(ch, I) # {} => n = 1
<1> DEFINE D == {i \in DOMAIN ch : ch[i].item \in I}
<1>1. CASE Channel!Of(ch, I) = {}
  <2>1. D = {}
    BY <1>1 DEF Channel!Of, Channel!OnWay
  <2>2. QED
    BY <1>1, <2>1, FS_EmptySet
<1>2. CASE Channel!Of(ch, I) # {}
  <2>1. PICK i \in DOMAIN ch : ch[i].item \in I
    BY <1>2 DEF Channel!Of, Channel!OnWay
  <2>2. D = {i}
    BY <2>1 DEF Channel!AtMostOne
  <2>3. QED
    BY <1>2, <2>2, FS_Singleton
<1>3. QED
  BY <1>1, <1>2

\* Stop and wait: what is under way for a process is what the scheduler has
\* marked it busy for.
THEOREM LoopStopAndWait ==
  ASSUME NeverEarly
  PROVE  Spec => []StopAndWait
<1>1. LoopInv => StopAndWait
  <2> SUFFICES ASSUME LoopInv, NEW p \in Pids
               PROVE  Outstanding(p) = IF p \in busy THEN 1 ELSE 0
    BY DEF StopAndWait
  <2> DEFINE G == {i \in DOMAIN grantCh : grantCh[i].item.pid = p}
             U == {i \in DOMAIN puschCh : puschCh[i].item.grant.pid = p}
  <2>1. ChannelsOK /\ Stage(p)
    BY DEF LoopInv
  <2>2. /\ \A i \in DOMAIN grantCh : grantCh[i].item \in GrantItems
        /\ \A i \in DOMAIN puschCh : puschCh[i].item \in PuschItems
    BY <2>1, OnWayTyped DEF ChannelsOK, GrantChOK, PuschChOK, Channel!OnWay
  <2>3. /\ G = {i \in DOMAIN grantCh : grantCh[i].item \in GrantItemsOf(p)}
        /\ U = {i \in DOMAIN puschCh : puschCh[i].item \in PuschItemsOf(p)}
    BY <2>2 DEF GrantItemsOf, PuschItemsOf
  <2>4. /\ GrantsOf(p) = {} => Cardinality(G) = 0
        /\ GrantsOf(p) # {} => Cardinality(G) = 1
    BY <2>1, <2>3, CountOnWay DEF ChannelsOK, GrantChOK, GrantsOf
  <2>5. /\ PuschOf(p) = {} => Cardinality(U) = 0
        /\ PuschOf(p) # {} => Cardinality(U) = 1
    BY <2>1, <2>3, CountOnWay DEF ChannelsOK, PuschChOK, PuschOf
  <2>6. Outstanding(p) = Cardinality(G) + Cardinality(U)
                         + (IF p \in pendingRetx THEN 1 ELSE 0)
    BY DEF Outstanding
  <2> HIDE DEF G, U
  <2>7. CASE IsFree(p) \/ IsDue(p)
    BY <2>4, <2>5, <2>6, <2>7 DEF IsFree, IsDue, NothingOnAir
  <2>8. CASE IsGranted(p) \/ IsRepeated(p)
    BY <2>4, <2>5, <2>6, <2>8 DEF IsGranted, IsRepeated, Granted
  <2>9. CASE IsOnAir(p)
    BY <2>4, <2>5, <2>6, <2>9 DEF IsOnAir
  <2>10. QED
    BY <2>1, <2>7, <2>8, <2>9 DEF Stage
<1>2. QED
  BY <1>1, LoopSafe, PTL

\* No grant overwrites a TB whose fate the UE does not know.
THEOREM LoopSentIsHeld ==
  ASSUME NeverEarly
  PROVE  Spec => []SentIsHeld
<1>1. LoopInv => SentIsHeld
  BY DEF LoopInv, TbsOK
<1>2. QED
  BY <1>1, LoopSafe, PTL

\* The UE and the scheduler mean the same by every grant the UE takes.
THEOREM LoopGrantReadAsMeant ==
  ASSUME NeverEarly
  PROVE  Spec => []GrantReadAsMeant
<1>1. LoopInv => GrantReadAsMeant
  <2> SUFFICES ASSUME LoopInv, uePc = "grant", grantCh # <<>>, Head(grantCh).left = 0
               PROVE  LET g == Head(grantCh).item
                      IN  /\ ~Ue!IsNewTx(proc[g.pid], g, FALSE) <=> g.rv = Ue!NoRv
                          /\ g.rv = Ue!NoRv => /\ proc[g.pid].tb = g.tb
                                               /\ Ue!StateOf(proc[g.pid]) = "RETX_PENDING"
                          /\ g.rv # Ue!NoRv => Ue!StateOf(proc[g.pid]) = "INACTIVE"
    BY DEF GrantReadAsMeant, Channel!Visible
  <2> PICK m : m = Head(grantCh)
    OBVIOUS
  <2> PICK p : p = m.item.pid
    OBVIOUS
  <2>1. m.item \in GrantItems /\ p \in Pids /\ GrantsOf(p) = {m}
    <3>1. GrantChOK
      BY DEF LoopInv, ChannelsOK
    <3>2. QED
      BY <3>1, GrantFirst
  <2>2. /\ m.item.ndi = ndi[p] /\ m.item.tb = harqTb[p]
        /\ \/ /\ IsGranted(p) /\ m.item.rv = 0 /\ UeState(p) = "INACTIVE"
           \/ /\ IsRepeated(p) /\ m.item.rv = Ue!NoRv /\ UeState(p) = "RETX_PENDING"
    BY <2>1, GrantRead
  <2>3. ~m.item.isRar
    BY <2>1, GrantFields
  <2>4. CASE IsGranted(p) /\ m.item.rv = 0 /\ UeState(p) = "INACTIVE"
    <3>1. proc[p].configured => m.item.ndi # proc[p].ndi
      BY <2>2, <2>4 DEF IsGranted
    <3>2. QED
      BY <2>4, <3>1 DEF Ue!IsNewTx, UeState, Ue!NoRv
  <2>5. CASE IsRepeated(p) /\ m.item.rv = Ue!NoRv /\ UeState(p) = "RETX_PENDING"
    <3>1. proc[p].configured /\ proc[p].ndi = m.item.ndi /\ proc[p].tb = m.item.tb
      BY <2>2, <2>5 DEF IsRepeated, UeHolds, Ue!InFlight
    <3>2. QED
      BY <2>3, <2>5, <3>1 DEF Ue!IsNewTx, UeState
  <2>6. QED
    BY <2>2, <2>4, <2>5
<1>2. QED
  BY <1>1, LoopSafe, PTL

\* The UE never takes a feedback that its process is not waiting for.
THEOREM LoopFeedbackIsAwaited ==
  ASSUME NeverEarly
  PROVE  Spec => []FeedbackIsAwaited
<1>1. LoopInv => FeedbackIsAwaited
  <2> SUFFICES ASSUME LoopInv, phichCh # <<>>
               PROVE  Ue!StateOf(proc[Head(phichCh).item.pid]) = "WAITING_FB"
    BY DEF FeedbackIsAwaited, Channel!Visible
  <2> PICK m : m = Head(phichCh)
    OBVIOUS
  <2> PICK p : p = m.item.pid
    OBVIOUS
  <2>1. p \in Pids /\ PhichOf(p) = {m}
    <3>1. PhichChOK
      BY DEF LoopInv, ChannelsOK
    <3>2. QED
      BY <3>1, PhichFirst
  <2>2. QED
    BY <2>1, FeedbackOf
<1>2. QED
  BY <1>1, LoopSafe, PTL

\* The soft buffer never mixes TBs, and both ends count alike.
THEOREM LoopSoftBufferPure ==
  ASSUME NeverEarly
  PROVE  Spec => []SoftBufferPure
<1>1. LoopInv => SoftBufferPure
  <2> SUFFICES ASSUME LoopInv PROVE SoftBufferPure
    OBVIOUS
  <2>1. ASSUME NEW p \in Pids PROVE rx[p].soft \subseteq {rx[p].tb}
    <3>1. EnbHolds(p) \/ EnbIdle(p)
      BY DEF LoopInv, Stage, IsFree, IsGranted, IsOnAir, IsDue, IsRepeated
    <3>2. QED
      BY <3>1 DEF EnbHolds, EnbIdle
  <2>2. ASSUME NEW t \in Pdus
        PROVE  t.nb = 1 + (IF rx[t.grant.pid].ndiKnown THEN rx[t.grant.pid].txCount ELSE 0)
    <3>1. PICK i \in DOMAIN puschCh : t = puschCh[i].item
      BY DEF Pdus, Channel!Items
    <3> PICK p : p = t.grant.pid
      OBVIOUS
    <3>2. t \in PuschItems
      BY <3>1, OnWayTyped DEF LoopInv, ChannelsOK, PuschChOK, Channel!OnWay
    <3>3. p \in Pids
      BY <3>2 DEF PuschItems, GrantItems
    <3>4. puschCh[i] \in PuschOf(p)
      BY <3>1, <3>2 DEF PuschOf, Channel!Of, Channel!OnWay, PuschItemsOf
    <3>5. IsOnAir(p)
      BY <3>3, <3>4
      DEF LoopInv, Stage, IsFree, IsGranted, IsDue, IsRepeated, NothingOnAir,
          Granted
    <3>6. t.nb = rx[p].txCount + 1 /\ (EnbHolds(p) \/ EnbIdle(p))
      BY <3>1, <3>4, <3>5 DEF IsOnAir
    <3>7. rx[p].txCount \in Int
      BY <3>3 DEF LoopInv, StateTypes, RxProcesses
    <3>8. QED
      BY <3>6, <3>7 DEF EnbHolds, EnbIdle
  <2>3. QED
    BY <2>1, <2>2 DEF SoftBufferPure
<1>2. QED
  BY <1>1, LoopSafe, PTL
-----------------------------------------------------------------------------
(* The loop implements the abstract transfer                               *)

\* The verdicts the UE takes from the PHICH are those of the eNB.
LEMMA FeedbackRefines ==
  ASSUME NeverEarly, LoopInv, UeFeedback
  PROVE  [Transfer!TransferNext]_(Transfer!transferVars)
<1> PICK f : f = Head(phichCh)
  OBVIOUS
<1> PICK p : p = f.item.pid
  OBVIOUS
<1> PICK r : r = Ue!ApplyPhich(proc[p], f.item.ack)
  OBVIOUS
<1>1. SettlesTb(p, r) \/ RepeatsTb(p, r)
  BY FeedbackTakes
<1>2. proc[p].tb \in Tbs /\ sender[proc[p].tb] = "sent"
  <2>1. PhichChOK /\ phichCh # <<>>
    BY DEF UeFeedback, Channel!Visible, LoopInv, ChannelsOK
  <2>2. p \in Pids /\ PhichOf(p) = {f}
    BY <2>1, PhichFirst
  <2>3. QED
    BY <2>2, FeedbackOf
<1>3. receiver' = receiver
  BY DEF UeFeedback
<1>4. CASE SettlesTb(p, r)
  <2>1. Transfer!Learn(proc[p].tb)
    BY <1>2, <1>3, <1>4 DEF SettlesTb, Transfer!Learn
  <2>2. QED
    BY <1>2, <2>1 DEF Transfer!TransferNext
<1>5. CASE RepeatsTb(p, r)
  BY <1>3, <1>5 DEF RepeatsTb, Transfer!transferVars
<1>6. QED
  BY <1>1, <1>4, <1>5

\* A grant the UE takes puts a new TB on the air, or an old one once more.
LEMMA GrantRefines ==
  ASSUME LoopInv, UeGrant
  PROVE  [Transfer!TransferNext]_(Transfer!transferVars)
<1> PICK m : m = Head(grantCh)
  OBVIOUS
<1> PICK p : p = m.item.pid
  OBVIOUS
<1> PICK t : t = harqTb[p]
  OBVIOUS
<1>1. sender[t] \in {"unsent", "sent"} /\ sender' = [sender EXCEPT ![t] = "sent"]
  BY GrantTransmits DEF OwnsTb
<1>2. t \in Tbs
  <2>1. GrantChOK /\ grantCh # <<>> /\ m.left = 0 /\ uePc # "phich"
    BY DEF UeGrant, Channel!Visible, LoopInv, ChannelsOK
  <2>2. p \in Pids /\ GrantsOf(p) = {m}
    BY <2>1, GrantFirst
  <2>3. QED
    BY <2>1, <2>2, GrantRead
<1>3. receiver' = receiver
  BY DEF UeGrant
<1>4. CASE sender[t] = "unsent"
  BY <1>1, <1>2, <1>3, <1>4 DEF Transfer!TransferNext, Transfer!Transmit
<1>5. CASE sender[t] = "sent"
  <2>1. sender' = sender
    BY <1>1, <1>2, <1>5 DEF LoopInv, StateTypes
  <2>2. QED
    BY <1>3, <2>1 DEF Transfer!transferVars
<1>6. QED
  BY <1>1, <1>4, <1>5

\* The eNB decides the TB it receives once, or leaves it open.
LEMMA ReceptionRefines ==
  ASSUME LoopInv, EnbReceive
  PROVE  [Transfer!TransferNext]_(Transfer!transferVars)
<1> PICK m : m = Head(puschCh)
  OBVIOUS
<1> PICK p : p = m.item.grant.pid
  OBVIOUS
<1> PICK t : t = harqTb[p]
  OBVIOUS
<1>1. puschCh # <<>> /\ sender' = sender
  BY DEF EnbReceive, Channel!Visible
<1>2. PICK crcOk \in BOOLEAN :
        receiver' = EnbVerdict(Enb!ReceiveTb(rx[p], m.item.grant, m.item.tb, crcOk))
  BY DEF EnbReceive
<1> PICK r : r = Enb!ReceiveTb(rx[p], m.item.grant, m.item.tb, crcOk)
  OBVIOUS
<1>3. t \in Tbs /\ sender[t] = "sent" /\ UeHolds(p) /\ m.item.grant.tb = t
  BY <1>1, Arrival
<1>4. receiver[t] = "open"
  BY <1>3 DEF UeHolds
<1>5. HasReceived(rx[p], m.item.grant, crcOk, r)
  BY <1>1, Reception
<1>6. r.tb = t
  BY <1>3, <1>5 DEF HasReceived
<1>7. \/ receiver' = [receiver EXCEPT ![t] = "delivered"]
      \/ receiver' = [receiver EXCEPT ![t] = "dropped"]
      \/ receiver' = receiver
  BY <1>2, <1>6 DEF EnbVerdict
<1>8. QED
  BY <1>1, <1>3, <1>4, <1>7
  DEF Transfer!TransferNext, Transfer!Decide, Transfer!transferVars

\* A TB is sent once, decided once by the eNB and known to the UE only then,
\* by the verdict of the eNB: the loop implements HarqTransfer.
THEOREM LoopImplementsTransfer ==
  ASSUME NeverEarly
  PROVE  Spec => ImplementsTransfer
<1>1. Init => Transfer!TransferInit
  BY DEF Init, Transfer!TransferInit
<1>2. LoopInv /\ [Next]_vars => [Transfer!TransferNext]_(Transfer!transferVars)
  <2> SUFFICES ASSUME LoopInv, [Next]_vars
               PROVE  [Transfer!TransferNext]_(Transfer!transferVars)
    OBVIOUS
  <2>1. CASE UeFeedback
    BY <2>1, FeedbackRefines
  <2>2. CASE UeGrant
    BY <2>2, GrantRefines
  <2>3. CASE EnbReceive
    BY <2>3, ReceptionRefines
  <2>4. CASE UeFeedbackDone \/ UeGrantDone
    BY <2>4 DEF UeFeedbackDone, UeGrantDone, verdictVars, Transfer!transferVars
  <2>5. ASSUME NEW p \in Pids, EnbGrantRetx(p)
        PROVE  UNCHANGED Transfer!transferVars
    BY <2>5 DEF EnbGrantRetx, verdictVars, Transfer!transferVars
  <2>6. CASE EnbGrantNew \/ EnbGrantNothing \/ EnbReceiveDone
    BY <2>6
    DEF EnbGrantNew, EnbGrantNothing, EnbReceiveDone, verdictVars,
        Transfer!transferVars
  <2>7. CASE NextTti
    BY <2>7 DEF NextTti, verdictVars, Transfer!transferVars
  <2>8. CASE UNCHANGED vars
    BY <2>8 DEF vars, verdictVars, Transfer!transferVars
  <2>9. QED
    BY <2>1, <2>2, <2>3, <2>4, <2>5, <2>6, <2>7, <2>8 DEF Next, UeNext, EnbNext
<1>3. QED
  BY <1>1, <1>2, LoopSafe, PTL DEF Spec, ImplementsTransfer, Transfer!TransferSpec
===========================================================================
