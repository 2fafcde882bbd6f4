------------------------ MODULE UeHarqManagerProofs ------------------------
(***************************************************************************)
(* The UE's HARQ manager keeps ManagerInv for every number of processes,   *)
(* every set of limits and every order of grants, feedback, resets and     *)
(* configuration changes; its properties follow from that invariant.       *)
(***************************************************************************)
EXTENDS UeHarqManager, TLAPS
-----------------------------------------------------------------------------
(* What feedback and grants do to a process                                *)

\* An idle process is a process of the manager, whatever its limit.
LEMMA IdleType ==
  ASSUME config \in [tx : MaxTxs, msg3 : MaxTxs]
  PROVE  /\ Process!IdleProcess \in ProcessType
         /\ \A m \in MaxTxs : [Process!IdleProcess EXCEPT !.maxTx = m] \in ProcessType
<1>1. config.tx \in MaxTxs /\ 0 \in 0 .. MaxSent /\ 0 \in 0 .. 3
  BY ManagerAssumption
<1>2. Process!IdleProcess \in ProcessType
  BY <1>1 DEF ProcessType, Process!IdleProcess, Process!NackLimit, Process!NoRv, NoTb
<1>3. QED
  BY <1>2 DEF ProcessType

\* An ACK leaves the process without a TB in flight, and its counts alone.
LEMMA AckInv ==
  ASSUME NEW q \in ProcessType
  PROVE  LET r == Process!ApplyAck(q)
         IN  /\ r.proc \in ProcessType
             /\ r.action = Process!NoAction
             /\ r.proc.irv = q.irv /\ r.proc.txNb = q.txNb /\ r.proc.maxTx = q.maxTx
             /\ ~Process!InFlight(r.proc)
<1> DEFINE acked == [q EXCEPT !.nacks = 0, !.acked = TRUE, !.received = TRUE]
<1>1. acked \in ProcessType
  <2>1. [q EXCEPT !.nacks = 0] \in ProcessType
    BY DEF ProcessType, Process!NackLimit
  <2>2. \A c \in ProcessType : [c EXCEPT !.acked = TRUE, !.received = TRUE] \in ProcessType
    BY DEF ProcessType
  <2>3. QED
    BY <2>1, <2>2
<1>2. acked.irv = q.irv /\ acked.txNb = q.txNb /\ acked.maxTx = q.maxTx
  BY DEF ProcessType
<1>3. acked.acked
  BY DEF ProcessType
<1>4. /\ Process!ApplyAck(q).action = Process!NoAction
      /\ Process!ApplyAck(q).proc = IF Process!InFlight(q) THEN acked ELSE q
  BY DEF Process!ApplyAck
<1> HIDE DEF acked
<1>5. QED
  BY <1>1, <1>3, <1>2, <1>4 DEF Process!InFlight

\* A NACK gives the TB up at the limit, or by early termination, and only then.
LEMMA NackInv ==
  ASSUME NEW q \in ProcessType, config \in [tx : MaxTxs, msg3 : MaxTxs]
  PROVE  LET r == Process!ApplyNack(q)
         IN  /\ r.proc \in ProcessType
             /\ r.proc.maxTx = q.maxTx
             /\ r.action.kind = "discard" =>
                  /\ Process!InFlight(q) /\ ~Process!InFlight(r.proc)
                  /\ q.txNb >= q.maxTx \/ (early /\ q.txNb >= 2)
                  /\ r.proc.txNb = 0
             /\ r.action.kind # "discard" =>
                  /\ r.proc.txNb = q.txNb /\ r.proc.irv = q.irv
                  /\ Process!InFlight(r.proc) <=> Process!InFlight(q)
<1> DEFINE counted == [q EXCEPT !.nacks = IF @ < Process!NackLimit THEN @ + 1 ELSE @]
           marked  == [counted EXCEPT !.received = TRUE]
           idle    == [Process!IdleProcess EXCEPT !.maxTx = q.maxTx]
           r       == Process!ApplyNack(q)
<1>1. /\ counted \in ProcessType
      /\ counted.irv = q.irv /\ counted.txNb = q.txNb /\ counted.maxTx = q.maxTx
      /\ counted.configured = q.configured /\ counted.acked = q.acked
  BY DEF ProcessType, Process!NackLimit
<1>2. /\ marked \in ProcessType
      /\ marked.irv = q.irv /\ marked.txNb = q.txNb /\ marked.maxTx = q.maxTx
      /\ marked.configured = q.configured /\ marked.acked = q.acked
  <2> HIDE DEF counted
  <2>1. QED
    BY <1>1 DEF ProcessType
<1>3. q.maxTx \in MaxTxs
  BY DEF ProcessType
<1>4. idle \in ProcessType
  BY <1>3, IdleType
<1>5. idle.maxTx = q.maxTx /\ idle.txNb = 0 /\ idle.configured = FALSE
  BY DEF Process!IdleProcess
<1>6. CASE ~Process!InFlight(q)
  <2>1. r.proc = counted /\ r.action.kind = "none"
    BY <1>6 DEF Process!ApplyNack, Process!NoAction
  <2>2. QED
    BY <2>1, <1>1 DEF Process!InFlight
<1>7. CASE Process!InFlight(q) /\ Process!Exhausted(counted)
  <2>1. r.proc = idle /\ r.action.kind = "discard"
    BY <1>7 DEF Process!ApplyNack, Process!NoAction
  <2>2. q.txNb >= q.maxTx \/ (early /\ q.txNb >= 2)
    <3> HIDE DEF counted
    <3>1. QED
      BY <1>7, <1>1 DEF Process!Exhausted
  <2>3. QED
    BY <2>1, <2>2, <1>4, <1>5, <1>7 DEF Process!InFlight
<1>8. CASE Process!InFlight(q) /\ ~Process!Exhausted(counted)
  <2>1. r.proc = marked /\ r.action.kind = "none"
    BY <1>8 DEF Process!ApplyNack, Process!NoAction
  <2>2. QED
    BY <2>1, <1>2, <1>8 DEF Process!InFlight
<1>9. QED
  BY <1>6, <1>7, <1>8

\* The RV sequence and its inverse: one step on in the sequence follows the RV.
LEMMA RvTable ==
  /\ \A irv \in 0 .. 3 : /\ Process!RvOfIrv(irv) \in 0 .. 3
                         /\ (irv + 1) % 4 \in 0 .. 3
                         /\ Process!RvOfIrv((irv + 1) % 4) = Following(Process!RvOfIrv(irv))
  /\ \A rv \in 0 .. 3 : /\ Process!IrvOfRv(rv) \in 0 .. 3
                        /\ Process!RvOfIrv(Process!IrvOfRv(rv)) = rv
<1>1. /\ Process!RvOfIrv(0) = 0 /\ Process!RvOfIrv(1) = 2
      /\ Process!RvOfIrv(2) = 3 /\ Process!RvOfIrv(3) = 1
  BY DEF Process!RvOfIrv
<1>2. /\ Process!IrvOfRv(0) = 0 /\ Process!IrvOfRv(2) = 1
      /\ Process!IrvOfRv(3) = 2 /\ Process!IrvOfRv(1) = 3
  BY DEF Process!IrvOfRv
<1>3. 1 % 4 = 1 /\ 2 % 4 = 2 /\ 3 % 4 = 3 /\ 4 % 4 = 0
  OBVIOUS
<1>4. ASSUME NEW irv \in 0 .. 3
      PROVE  irv = 0 \/ irv = 1 \/ irv = 2 \/ irv = 3
  OBVIOUS
<1>5. Following(0) = 2 /\ Following(2) = 3 /\ Following(3) = 1 /\ Following(1) = 0
  BY DEF Following
<1>6. ASSUME NEW irv \in 0 .. 3
      PROVE  /\ Process!RvOfIrv(irv) \in 0 .. 3
             /\ (irv + 1) % 4 \in 0 .. 3
             /\ Process!RvOfIrv((irv + 1) % 4) = Following(Process!RvOfIrv(irv))
  BY <1>1, <1>3, <1>4, <1>5
<1>7. QED
  BY <1>1, <1>2, <1>4, <1>6

\* A process between the setting of the RV of a grant and its transmission.
GrantedType ==
  [txNb : 0 .. MaxSent, irv : 0 .. 3, configured : BOOLEAN, acked : BOOLEAN,
   received : BOOLEAN, tb : Tbs \union {NoTb}, rv : -1 .. 3,
   ndi : BOOLEAN, nacks : 0 .. Process!NackLimit, maxTx : MaxTxs]

\* generate_tx counts one transmission and moves the RV sequence one step on.
LEMMA GenerateTxStep ==
  ASSUME NEW q \in GrantedType, NEW kind,
         q.txNb < MaxSent, q.rv >= 0 => q.rv = Process!RvOfIrv(q.irv)
  PROVE  LET r == Process!GenerateTx(q, kind)
         IN  /\ r.proc \in ProcessType
             /\ r.proc.txNb = q.txNb + 1 /\ r.proc.maxTx = q.maxTx
             /\ Process!InFlight(r.proc) <=> Process!InFlight(q)
             /\ r.action.kind = kind /\ r.action.rv \in 0 .. 3
             /\ Process!RvOfIrv(r.proc.irv) = Following(r.action.rv)
<1> DEFINE p == [q EXCEPT !.txNb = @ + 1, !.rv = Process!NoRv, !.irv = (@ + 1) % 4]
<1>1. MaxSent \in Nat
  BY ManagerAssumption
<1>2. [q EXCEPT !.txNb = @ + 1, !.rv = Process!NoRv] \in ProcessType
  <2>1. [q EXCEPT !.rv = Process!NoRv] \in ProcessType
    BY DEF ProcessType, GrantedType
  <2>2. \A x \in ProcessType : x.txNb < MaxSent => [x EXCEPT !.txNb = @ + 1] \in ProcessType
    BY <1>1 DEF ProcessType
  <2>3. QED
    BY <2>1, <2>2
<1>3. \A x \in ProcessType : [x EXCEPT !.irv = (@ + 1) % 4] \in ProcessType
  BY RvTable DEF ProcessType
<1>4. p \in ProcessType
  BY <1>2, <1>3
<1>5. p.txNb = q.txNb + 1 /\ p.maxTx = q.maxTx /\ p.irv = (q.irv + 1) % 4
  BY DEF GrantedType
<1>6. p.configured = q.configured /\ p.acked = q.acked
  BY DEF GrantedType
<1> HIDE DEF p
<1>7. /\ Process!GenerateTx(q, kind).proc = p
      /\ Process!GenerateTx(q, kind).action.kind = kind
      /\ Process!GenerateTx(q, kind).action.rv =
           IF q.rv >= 0 THEN q.rv ELSE Process!RvOfIrv(q.irv)
  BY DEF p, Process!GenerateTx
<1>8. QED
  BY <1>4, <1>5, <1>6, <1>7, RvTable DEF Process!InFlight, GrantedType

\* What a grant of the interface may hold.
LEMMA GrantFields ==
  ASSUME NEW g \in Grants
  PROVE  /\ g.pid \in Pids /\ g.ndiPresent \in BOOLEAN /\ g.ndi \in BOOLEAN
         /\ g.tb \in Tbs \union {NoTb} /\ g.rv \in {-1, 0, 3}
<1> DEFINE some == [pid : Pids, ndiPresent : {TRUE}, ndi : BOOLEAN, isRar : BOOLEAN,
                    tb : Tbs, rv : {-1, 0, 3}]
           bare == [pid : Pids, ndiPresent : BOOLEAN, ndi : {FALSE}, isRar : {FALSE},
                    tb : {NoTb}, rv : {-1}]
<1>1. g \in some \/ g \in bare
  BY DEF Grants
<1>2. g.pid \in Pids
  BY <1>1
<1>3. g.ndiPresent \in BOOLEAN /\ g.ndi \in BOOLEAN
  BY <1>1
<1>4. g.tb \in Tbs \union {NoTb}
  BY <1>1
<1>5. g.rv \in {-1, 0, 3}
  BY <1>1
<1>6. QED
  BY <1>2, <1>3, <1>4, <1>5

\* A new transmission puts the TB of the grant in flight, sent once.
LEMMA NewTxStep ==
  ASSUME NEW q \in ProcessType, NEW g \in Grants, MaxSent > 0,
         g.ndiPresent, g.tb # NoTb, g.rv \in {-1, 0}
  PROVE  LET r == Process!GenerateNewTx(q, g)
         IN  /\ r.proc \in ProcessType
             /\ r.proc.txNb = 1 /\ r.proc.maxTx = q.maxTx
             /\ Process!InFlight(r.proc)
             /\ r.action.kind = "new" /\ r.action.rv \in 0 .. 3
             /\ Process!RvOfIrv(r.proc.irv) = Following(r.action.rv)
<1> DEFINE p == [q EXCEPT !.ndi = g.ndi, !.tb = g.tb, !.rv = g.rv,
                          !.acked = FALSE, !.received = FALSE,
                          !.configured = TRUE, !.txNb = 0, !.irv = 0]
<1>1. g.ndi \in BOOLEAN /\ g.tb \in Tbs /\ g.rv \in -1 .. 3
  BY GrantFields
<1>2. [q EXCEPT !.ndi = g.ndi, !.tb = g.tb] \in ProcessType
  BY <1>1 DEF ProcessType
<1>3. \A x \in ProcessType : [x EXCEPT !.rv = g.rv] \in GrantedType
  BY <1>1 DEF ProcessType, GrantedType
<1>4. \A x \in GrantedType : [x EXCEPT !.acked = FALSE, !.received = FALSE] \in GrantedType
  BY DEF GrantedType
<1>5. \A x \in GrantedType : [x EXCEPT !.configured = TRUE] \in GrantedType
  BY DEF GrantedType
<1>6. \A x \in GrantedType : [x EXCEPT !.txNb = 0] \in GrantedType
  BY ManagerAssumption DEF GrantedType
<1>7. \A x \in GrantedType : [x EXCEPT !.irv = 0] \in GrantedType
  BY DEF GrantedType
<1>8. p \in GrantedType
  BY <1>2, <1>3, <1>4, <1>5, <1>6, <1>7
<1>9. p.txNb = 0 /\ p.irv = 0 /\ p.maxTx = q.maxTx /\ p.rv = g.rv
  BY DEF ProcessType
<1>10. p.configured /\ ~p.acked
  BY DEF ProcessType
<1> HIDE DEF p
<1>11. Process!GenerateNewTx(q, g) = Process!GenerateTx(p, "new")
  BY DEF Process!GenerateNewTx, p
<1>12. Process!RvOfIrv(0) = 0
  BY DEF Process!RvOfIrv
<1>13. QED
  BY <1>8, <1>9, <1>10, <1>11, <1>12, GenerateTxStep DEF Process!InFlight

\* A retransmission puts the TB in flight once more, from the RV of the grant.
LEMMA RetxStep ==
  ASSUME NEW q \in ProcessType, NEW g \in Grants, q.txNb < MaxSent, q.configured,
         g.ndiPresent => g.tb # NoTb,
         g.ndiPresent \/ ~q.acked
  PROVE  LET r == Process!GenerateRetx(q, g)
         IN  /\ r.proc \in ProcessType
             /\ r.proc.txNb = q.txNb + 1 /\ r.proc.maxTx = q.maxTx
             /\ Process!InFlight(r.proc)
             /\ r.action.kind = "retx" /\ r.action.rv \in 0 .. 3
             /\ Process!RvOfIrv(r.proc.irv) = Following(r.action.rv)
<1>1. CASE g.ndiPresent
  <2> DEFINE p == [q EXCEPT !.irv = IF g.rv >= 0 THEN Process!IrvOfRv(g.rv) ELSE @,
                            !.tb = g.tb, !.rv = g.rv,
                            !.acked = FALSE, !.received = FALSE]
  <2>1. g.tb \in Tbs \union {NoTb} /\ g.rv \in -1 .. 3
    BY GrantFields
  <2>2. [q EXCEPT !.irv = IF g.rv >= 0 THEN Process!IrvOfRv(g.rv) ELSE @] \in ProcessType
    BY <2>1, RvTable DEF ProcessType
  <2>3. \A x \in ProcessType : [x EXCEPT !.tb = g.tb, !.rv = g.rv] \in GrantedType
    BY <2>1 DEF ProcessType, GrantedType
  <2>4. \A x \in GrantedType : [x EXCEPT !.acked = FALSE, !.received = FALSE] \in GrantedType
    BY DEF GrantedType
  <2>5. p \in GrantedType
    BY <2>2, <2>3, <2>4
  <2>6. /\ p.txNb = q.txNb /\ p.maxTx = q.maxTx /\ p.rv = g.rv
        /\ p.irv = IF g.rv >= 0 THEN Process!IrvOfRv(g.rv) ELSE q.irv
    BY DEF ProcessType
  <2>7. p.configured /\ ~p.acked
    BY DEF ProcessType
  <2> HIDE DEF p
  <2>8. p.rv >= 0 => p.rv = Process!RvOfIrv(p.irv)
    BY <2>1, <2>6, RvTable
  <2>9. Process!GenerateRetx(q, g) = Process!GenerateTx(p, "retx")
    BY <1>1 DEF Process!GenerateRetx, p
  <2>10. QED
    BY <2>5, <2>6, <2>7, <2>8, <2>9, GenerateTxStep DEF Process!InFlight
<1>2. CASE ~g.ndiPresent
  <2>1. Process!GenerateRetx(q, g) = Process!GenerateTx(q, "retx")
    BY <1>2 DEF Process!GenerateRetx
  <2>2. q \in GrantedType /\ q.rv = -1
    BY DEF ProcessType, GrantedType, Process!NoRv
  <2>3. QED
    BY <1>2, <2>1, <2>2, GenerateTxStep DEF Process!InFlight
<1>3. QED
  BY <1>1, <1>2

\* A grant sets the limit of the process, and sends the TB anew, again or not.
LEMMA NewGrantStep ==
  ASSUME NEW q \in ProcessType, NEW g \in Grants, NEW tempRnti \in BOOLEAN,
         config \in [tx : MaxTxs, msg3 : MaxTxs], q.txNb < MaxSent,
         Process!NewGrantUl(q, g, tempRnti).action.kind = "new" => g.rv \in {-1, 0}
  PROVE  LET r == Process!NewGrantUl(q, g, tempRnti)
         IN  /\ r.proc \in ProcessType
             /\ r.proc.maxTx = IF tempRnti THEN config.msg3 ELSE config.tx
             /\ \/ /\ r.action.kind = "none"
                   /\ r.proc.txNb = q.txNb /\ r.proc.irv = q.irv
                   /\ Process!InFlight(r.proc) <=> Process!InFlight(q)
                \/ /\ \/ r.action.kind = "new" /\ r.proc.txNb = 1
                      \/ r.action.kind = "retx" /\ r.proc.txNb = q.txNb + 1
                   /\ r.action.rv \in 0 .. 3
                   /\ Process!InFlight(r.proc)
                   /\ Process!RvOfIrv(r.proc.irv) = Following(r.action.rv)
<1> DEFINE lim == IF tempRnti THEN config.msg3 ELSE config.tx
           p   == Process!WithLimit(q, tempRnti)
           r   == Process!NewGrantUl(q, g, tempRnti)
           nothing == [proc |-> p, action |-> Process!NoAction]
<1>1. lim \in MaxTxs
  OBVIOUS
<1>2. p = [q EXCEPT !.maxTx = lim]
  BY DEF Process!WithLimit
<1>3. p \in ProcessType
  BY <1>1, <1>2 DEF ProcessType
<1>4. /\ p.txNb = q.txNb /\ p.irv = q.irv /\ p.maxTx = lim
      /\ p.configured = q.configured /\ p.acked = q.acked
  BY <1>2 DEF ProcessType
<1>5. MaxSent > 0
  <2>1. PICK m \in MaxTxs : m \in 1 .. MaxSent
    BY ManagerAssumption
  <2>2. QED
    BY <2>1, ManagerAssumption
<1> HIDE DEF p
<1>6. CASE r = nothing
  BY <1>3, <1>4, <1>6 DEF Process!NoAction, Process!InFlight
<1>7. CASE g.ndiPresent /\ g.tb # NoTb /\ r = Process!GenerateNewTx(p, g)
  <2>1. Process!GenerateNewTx(p, g).action.kind = "new"
    BY DEF Process!GenerateNewTx, Process!GenerateTx
  <2>2. g.rv \in {-1, 0}
    BY <1>7, <2>1
  <2>3. QED
    BY <1>3, <1>4, <1>5, <1>7, <2>2, NewTxStep
<1>8. CASE /\ p.configured /\ r = Process!GenerateRetx(p, g)
           /\ g.ndiPresent => g.tb # NoTb
           /\ g.ndiPresent \/ ~p.acked
  BY <1>3, <1>4, <1>8, RetxStep
<1>9. \/ r = nothing
      \/ g.ndiPresent /\ g.tb # NoTb /\ r = Process!GenerateNewTx(p, g)
      \/ /\ p.configured /\ r = Process!GenerateRetx(p, g)
         /\ g.ndiPresent => g.tb # NoTb
         /\ g.ndiPresent \/ ~p.acked
  BY DEF Process!NewGrantUl, p
<1> HIDE DEF nothing
<1>10. QED
  BY <1>6, <1>7, <1>8, <1>9, Zenon
-----------------------------------------------------------------------------
(* The steps                                                               *)

\* At the start no process has a TB.
LEMMA InitInv == Init => ManagerInv
<1> SUFFICES ASSUME Init PROVE ManagerInv
  OBVIOUS
<1>1. HistoryOK
  <2>1. config.tx \in MaxTxs
    BY DEF Init
  <2>2. [p \in Pids |-> config.tx] \in [Pids -> MaxTxs]
    BY <2>1
  <2>3. QED
    <3>1. config \in [tx : MaxTxs, msg3 : MaxTxs] /\ early \in BOOLEAN
      BY DEF Init
    <3>2. open \subseteq Pids /\ dropped \in Pids \union {NoPid}
      BY DEF Init
    <3>3. sent \in [Pids -> 0 .. MaxSent] /\ lastRv \in [Pids -> 0 .. 3]
      BY ManagerAssumption DEF Init
    <3>4. limit \in [Pids -> MaxTxs]
      BY <2>2 DEF Init
    <3>5. QED
      BY <3>1, <3>2, <3>3, <3>4 DEF HistoryOK
<1>2. proc \in [Pids -> ProcessType]
  BY <1>1, IdleType DEF Init, HistoryOK
<1>3. \A p \in Pids : Remembered(p)
  BY DEF Init, Remembered, Process!InFlight, Process!IdleProcess
<1>4. QED
  BY <1>1, <1>2, <1>3 DEF ManagerInv

\* A process that a step does not touch stays remembered.
LEMMA RememberedStays ==
  ASSUME NEW p \in Pids, Remembered(p), proc'[p] = proc[p],
         p \in open' <=> p \in open,
         sent'[p] = sent[p], limit'[p] = limit[p], lastRv'[p] = lastRv[p]
  PROVE  Remembered(p)'
BY DEF Remembered, Process!InFlight, Process!RvOfIrv

\* A grant keeps the history and the record of its process in step.
LEMMA NewGrantInv ==
  ASSUME ManagerInv, NEW g \in Grants, NEW tempRnti \in BOOLEAN,
         NewGrantUl(g, tempRnti)
  PROVE  ManagerInv' /\ dropped' = NoPid
<1> DEFINE p == g.pid
           r == Process!NewGrantUl(proc[p], g, tempRnti)
           lim == IF tempRnti THEN config.msg3 ELSE config.tx
<1> USE DEF ManagerInv, HistoryOK
<1>1. p \in Pids /\ proc[p] \in ProcessType /\ Remembered(p)
  BY GrantFields
<1>2. /\ sent[p] < MaxSent /\ proc' = [proc EXCEPT ![p] = r.proc]
      /\ limit' = [limit EXCEPT ![p] = lim]
      /\ r.action.kind = "new" => g.rv \in {-1, 0}
      /\ UNCHANGED <<config, early>> /\ dropped' = NoPid
  BY DEF NewGrantUl
<1>3. proc[p].txNb < MaxSent
  BY <1>1, <1>2 DEF Remembered
<1>4. /\ r.proc \in ProcessType
      /\ r.proc.maxTx = lim
      /\ \/ /\ r.action.kind = "none"
            /\ r.proc.txNb = proc[p].txNb /\ r.proc.irv = proc[p].irv
            /\ Process!InFlight(r.proc) <=> Process!InFlight(proc[p])
         \/ /\ \/ r.action.kind = "new" /\ r.proc.txNb = 1
               \/ r.action.kind = "retx" /\ r.proc.txNb = proc[p].txNb + 1
            /\ r.action.rv \in 0 .. 3
            /\ Process!InFlight(r.proc)
            /\ Process!RvOfIrv(r.proc.irv) = Following(r.action.rv)
  BY <1>1, <1>2, <1>3, NewGrantStep
<1>5. IF r.action.kind = "none" THEN UNCHANGED <<open, sent, lastRv>>
      ELSE /\ open' = open \union {p}
           /\ sent' = [sent EXCEPT ![p] =
                         IF r.action.kind = "new" THEN 1 ELSE @ + 1]
           /\ lastRv' = [lastRv EXCEPT ![p] = r.action.rv]
  BY DEF NewGrantUl
<1> HIDE DEF r
<1>6. proc' \in [Pids -> ProcessType]
  BY <1>1, <1>2, <1>4
<1>7. lim \in MaxTxs
  OBVIOUS
<1>8. limit' \in [Pids -> MaxTxs]
  BY <1>2, <1>7
<1>9. /\ open' \subseteq Pids /\ lastRv' \in [Pids -> 0 .. 3]
  BY <1>1, <1>4, <1>5
<1>10. r.action.kind # "none" => sent'[p] = r.proc.txNb
  BY <1>1, <1>4, <1>5 DEF Remembered
<1>11. sent' \in [Pids -> 0 .. MaxSent]
  <2>1. r.proc.txNb \in 0 .. MaxSent
    BY <1>4 DEF ProcessType
  <2>2. QED
    BY <1>5, <1>10, <2>1
<1>12. Remembered(p)'
  <2>1. proc'[p] = r.proc /\ limit'[p] = r.proc.maxTx
    BY <1>1, <1>2, <1>4
  <2>2. CASE r.action.kind = "none"
    BY <1>1, <1>4, <1>5, <2>1, <2>2 DEF Remembered, Process!RvOfIrv
  <2>3. CASE r.action.kind # "none"
    <3>1. p \in open' /\ lastRv'[p] = r.action.rv
      BY <1>1, <1>5, <2>3
    <3>2. QED
      BY <1>4, <1>10, <2>1, <2>3, <3>1 DEF Remembered
  <2>4. QED
    BY <2>2, <2>3
<1>13. ASSUME NEW q \in Pids, q # p
       PROVE  Remembered(q)'
  BY <1>1, <1>2, <1>5, <1>13, RememberedStays
<1>14. QED
  BY <1>2, <1>6, <1>8, <1>9, <1>11, <1>12, <1>13

\* Feedback keeps them in step, and discards a TB only with cause.
LEMMA FeedbackInv ==
  ASSUME ManagerInv, NEW p \in Pids, NEW ack \in BOOLEAN,
         HandleHarqFeedback(p, ack)
  PROVE  /\ ManagerInv'
         /\ dropped' # NoPid => /\ dropped' = p /\ p \in open
                                /\ sent[p] >= limit[p] \/ (early /\ sent[p] >= 2)
<1> DEFINE r == Process!ApplyPhich(proc[p], ack)
           discarded == r.action.kind = "discard"
<1> USE DEF ManagerInv, HistoryOK
<1>1. /\ proc' = [proc EXCEPT ![p] = r.proc]
      /\ open' = IF ack \/ discarded THEN open \ {p} ELSE open
      /\ sent' = IF discarded THEN [sent EXCEPT ![p] = 0] ELSE sent
      /\ dropped' = IF discarded THEN p ELSE NoPid
      /\ UNCHANGED <<config, early, lastRv, limit>>
  BY DEF HandleHarqFeedback
<1>2. proc[p] \in ProcessType /\ Remembered(p)
  OBVIOUS
<1>3. /\ r.proc \in ProcessType /\ r.proc.maxTx = proc[p].maxTx
      /\ discarded => /\ ~ack /\ Process!InFlight(proc[p])
                      /\ \/ proc[p].txNb >= proc[p].maxTx
                         \/ early /\ proc[p].txNb >= 2
                      /\ r.proc.txNb = 0
      /\ ~discarded => /\ r.proc.txNb = proc[p].txNb
                       /\ r.proc.irv = proc[p].irv
      /\ Process!InFlight(r.proc) <=>
           Process!InFlight(proc[p]) /\ ~ack /\ ~discarded
  <2>1. CASE ack
    <3>1. r = Process!ApplyAck(proc[p])
      BY <2>1 DEF Process!ApplyPhich
    <3>2. r.action.kind = "none"
      BY <1>2, <3>1, AckInv DEF Process!NoAction
    <3>3. QED
      BY <1>2, <2>1, <3>1, <3>2, AckInv
  <2>2. CASE ~ack
    <3>1. r = Process!ApplyNack(proc[p])
      BY <2>2 DEF Process!ApplyPhich
    <3>2. QED
      BY <1>2, <2>2, <3>1, NackInv
  <2>3. QED
    BY <2>1, <2>2
<1> HIDE DEF r
<1>4. proc' \in [Pids -> ProcessType]
  BY <1>1, <1>3
<1>5. sent' \in [Pids -> 0 .. MaxSent]
  BY <1>1, ManagerAssumption
<1>6. Remembered(p)'
  <2>1. proc'[p] = r.proc /\ limit'[p] = limit[p] /\ lastRv' = lastRv
    BY <1>1
  <2>2. p \in open' <=> p \in open /\ ~ack /\ ~discarded
    BY <1>1
  <2>3. sent'[p] = IF discarded THEN 0 ELSE sent[p]
    BY <1>1
  <2>4. QED
    BY <1>2, <1>3, <2>1, <2>2, <2>3 DEF Remembered, Process!RvOfIrv
<1>7. ASSUME NEW q \in Pids, q # p
      PROVE  Remembered(q)'
  BY <1>1, <1>7, RememberedStays
<1>8. open' \subseteq Pids /\ dropped' \in Pids \union {NoPid}
  BY <1>1
<1>9. dropped' # NoPid => /\ dropped' = p /\ p \in open
                          /\ sent[p] >= limit[p] \/ (early /\ sent[p] >= 2)
  BY <1>1, <1>2, <1>3 DEF Remembered
<1>10. QED
  BY <1>1, <1>4, <1>5, <1>6, <1>7, <1>8, <1>9

\* A reset forgets every TB in both.
LEMMA ResetInv == ManagerInv /\ Reset => ManagerInv' /\ dropped' = NoPid
<1> SUFFICES ASSUME ManagerInv, Reset PROVE ManagerInv' /\ dropped' = NoPid
  OBVIOUS
<1> DEFINE idle(p) == [Process!IdleProcess EXCEPT !.maxTx = proc[p].maxTx]
<1> USE DEF ManagerInv, HistoryOK
<1>1. /\ proc' = [p \in Pids |-> idle(p)]
      /\ open' = {} /\ dropped' = NoPid
      /\ sent' = [p \in Pids |-> 0]
      /\ UNCHANGED <<config, early, lastRv, limit>>
  BY DEF Reset
<1>2. ASSUME NEW p \in Pids
      PROVE  /\ idle(p) \in ProcessType
             /\ idle(p).txNb = 0 /\ idle(p).maxTx = proc[p].maxTx
             /\ idle(p).configured = FALSE
  <2>1. proc[p].maxTx \in MaxTxs
    BY DEF ProcessType
  <2>2. idle(p) \in ProcessType
    BY <2>1, IdleType
  <2>3. QED
    BY <2>2 DEF Process!IdleProcess
<1> HIDE DEF idle
<1>3. proc' \in [Pids -> ProcessType]
  BY <1>1, <1>2
<1>4. sent' \in [Pids -> 0 .. MaxSent]
  BY <1>1, ManagerAssumption
<1>5. ASSUME NEW p \in Pids
      PROVE  Remembered(p)'
  BY <1>1, <1>2, <1>5 DEF Remembered, Process!InFlight
<1>6. QED
  BY <1>1, <1>3, <1>4, <1>5

\* A new configuration or switch, or no step, leaves every process as it is.
LEMMA SettingsInv ==
  ASSUME ManagerInv, UNCHANGED <<proc, open, sent, lastRv, limit>>,
         config' \in [tx : MaxTxs, msg3 : MaxTxs], early' \in BOOLEAN,
         dropped' \in {dropped, NoPid}
  PROVE  ManagerInv'
<1>1. ASSUME NEW p \in Pids PROVE Remembered(p)'
  BY <1>1, RememberedStays DEF ManagerInv
<1>2. QED
  BY <1>1 DEF ManagerInv, HistoryOK

\* Every step keeps the invariant and discards a TB only with cause.
LEMMA NextManagerInv ==
  ASSUME ManagerInv, [Next]_vars
  PROVE  /\ ManagerInv'
         /\ vars' # vars /\ dropped' # NoPid =>
              /\ dropped' \in open
              /\ \/ sent[dropped'] >= limit[dropped']
                 \/ early /\ sent[dropped'] >= 2
<1>1. ASSUME NEW g \in Grants, NEW tempRnti \in BOOLEAN, NewGrantUl(g, tempRnti)
      PROVE  ManagerInv' /\ dropped' = NoPid
  BY <1>1, NewGrantInv
<1>2. ASSUME NEW p \in Pids, NEW ack \in BOOLEAN, HandleHarqFeedback(p, ack)
      PROVE  /\ ManagerInv'
             /\ dropped' # NoPid =>
                  /\ dropped' \in open
                  /\ \/ sent[dropped'] >= limit[dropped']
                     \/ early /\ sent[dropped'] >= 2
  BY <1>2, FeedbackInv
<1>3. CASE Reset
  BY <1>3, ResetInv
<1>4. CASE SetConfig
  BY <1>4, SettingsInv DEF SetConfig, ManagerInv, HistoryOK
<1>5. CASE SetEarlyTermination
  <2>1. early' \in BOOLEAN
    BY <1>5 DEF SetEarlyTermination
  <2>2. QED
    BY <1>5, <2>1, SettingsInv DEF SetEarlyTermination, ManagerInv, HistoryOK
<1>6. CASE UNCHANGED vars
  BY <1>6, SettingsInv DEF vars, ManagerInv, HistoryOK
<1>7. QED
  BY <1>1, <1>2, <1>3, <1>4, <1>5, <1>6 DEF Next

\* The history and the records of the processes agree for ever.
THEOREM ManagerSafe == Spec => []ManagerInv
BY InitInv, NextManagerInv, PTL DEF Spec

\* Counts, RVs and limits keep their ranges.
THEOREM ManagerTypeOK == Spec => []TypeOK
<1>1. ManagerInv => TypeOK
  <2> SUFFICES ASSUME ManagerInv PROVE TypeOK
    OBVIOUS
  <2>1. \A p \in Pids :
          /\ proc[p].txNb = sent[p] /\ proc[p].tb \in Tbs \union {NoTb}
          /\ proc[p].irv \in 0 .. 3 /\ proc[p].rv = -1
          /\ proc[p].nacks \in 0 .. Process!NackLimit
    BY DEF ManagerInv, Remembered, ProcessType, Process!NoRv
  <2>2. QED
    BY <2>1 DEF ManagerInv, HistoryOK, TypeOK
<1>2. QED
  BY <1>1, ManagerSafe, PTL

\* A transmission counts as pending exactly while its TB is neither acknowledged
\* nor given up.
THEOREM ManagerPendingIffOpen == Spec => []PendingIffOpen
<1>1. ManagerInv => PendingIffOpen
  BY DEF ManagerInv, HistoryOK, Remembered, PendingIffOpen, HasPendingTransmission,
         Process!StateOf, Process!InFlight
<1>2. QED
  BY <1>1, ManagerSafe, PTL

\* The RV sequence of a TB goes on from the latest RV sent.
THEOREM ManagerRvContinues == Spec => []RvContinues
<1>1. ManagerInv => RvContinues
  BY DEF ManagerInv, HistoryOK, Remembered, RvContinues
<1>2. QED
  BY <1>1, ManagerSafe, PTL

\* A TB is given up once, never after its ACK, and only with cause.
THEOREM ManagerDiscards == Spec => DiscardJustified
<1>1. ManagerInv /\ [Next]_vars =>
        [\A p \in Pids : dropped' = p =>
           p \in open /\ (sent[p] >= limit[p] \/ (early /\ sent[p] >= 2))]_vars
  BY NextManagerInv, ManagerAssumption DEF Pids, NoPid
<1>2. QED
  BY <1>1, ManagerSafe, PTL DEF Spec, DiscardJustified
=============================================================================
