------------------------ MODULE UlSchedulerProofs -------------------------
(***************************************************************************)
(* The scheduler keeps its inductive invariant, SchedInv: every HARQ       *)
(* process of every UE is in one of four stages - settled, due for a       *)
(* retransmission, granted, or with its PUSCH on the way - in which the    *)
(* two ends agree on its NDI and its TB; the grants of a TTI share no PRB; *)
(* and no UE waits longer than its place in the round, or the guard of     *)
(* EPF, allows. First the PRBs that a TB takes, what each kind of grant    *)
(* makes of the context of a UE, and what the turns of a TTI make of each  *)
(* other's grants: a round is a recursive function, so they argue turn by  *)
(* turn. Then one lemma per action carries SchedInv over the step; the     *)
(* properties of UlScheduler follow from it.                               *)
(***************************************************************************)
EXTENDS UlScheduler, FiniteSetTheorems, TLAPS

Lib == INSTANCE ProofLibrary WITH Delay <- Rtt
-----------------------------------------------------------------------------
(* The size of a TB                                                        *)

\* No MCS has less than two bytes in a PRB.
LEMMA BitsOfMcs ==
  ASSUME NEW mcs \in 0 .. 28
  PROVE  Ctx!BitsPerPrb(mcs) \in Nat /\ Ctx!BitsPerPrb(mcs) >= 16
<1>1. Ctx!Anchors = Lib!Anchors /\ Ctx!MaxMcs = Lib!MaxMcs
  BY DEF Ctx!Anchors, Lib!Anchors, Ctx!MaxMcs, Lib!MaxMcs
<1>2. Ctx!AnchorOf(mcs) = Lib!AnchorOf(mcs)
  BY <1>1 DEF Ctx!AnchorOf, Lib!AnchorOf
<1>3. Ctx!BitsPerPrb(mcs) = Lib!BitsPerPrb(mcs)
  BY <1>1, <1>2 DEF Ctx!BitsPerPrb, Lib!BitsPerPrb
<1>4. QED
  BY <1>3, Lib!BitsOfMcs

\* The MCS of a UE without a CQI is one of the table.
LEMMA McsOfContext == Ctx!NewContext.mcs \in 0 .. 28
<1> DEFINE S == {0} \union {m \in 0 .. 28 : 200 >= Ctx!SnrThresholds[m + 1]}
<1>1. Ctx!NewContext.mcs = Ctx!Highest(S)
  BY DEF Ctx!NewContext, Ctx!McsOfSnr, Ctx!MaxMcs, Ctx!UlSnr
<1>2. S \in SUBSET (0 .. 28) /\ S # {}
  OBVIOUS
<1> HIDE DEF S
<1>3. \E x \in S : \A y \in S : y <= x
  BY <1>2, Lib!GreatestNatural
<1>4. QED
  BY <1>1, <1>2, <1>3 DEF Ctx!Highest

\* A TB of n PRBs holds a number of bytes, two or more in a PRB.
LEMMA TbsOfMcs ==
  ASSUME NEW n \in Nat
  PROVE  /\ Ctx!Tbs(Ctx!NewContext.mcs, n) \in Nat
         /\ n = 1 => Ctx!Tbs(Ctx!NewContext.mcs, n) > 0
<1> DEFINE bits == Ctx!BitsPerPrb(Ctx!NewContext.mcs)
<1>1. bits \in Nat /\ bits >= 16
  BY BitsOfMcs, McsOfContext
<1>2. Ctx!Tbs(Ctx!NewContext.mcs, n) = (bits * n) \div 8
  BY DEF Ctx!Tbs
<1> HIDE DEF bits
<1>3. bits * n \in Nat
  BY <1>1
<1>4. \A a \in Nat : a \div 8 \in Nat /\ (a >= 16 => a \div 8 > 0)
  OBVIOUS
<1>5. n = 1 => bits * n = bits
  BY <1>1
<1>6. QED
  BY <1>1, <1>2, <1>3, <1>4, <1>5

\* Division by a number that goes at least once.
LEMMA GoesOnce ==
  ASSUME NEW a \in Nat, NEW b \in Nat \ {0}, a >= b
  PROVE  a \div b \in Nat /\ a \div b >= 1
OBVIOUS
-----------------------------------------------------------------------------
(* The demand of a UE                                                      *)

\* The sum of no amounts and of one amount.
LEMMA SumOfOne ==
  ASSUME NEW f \in [{0} -> Nat]
  PROVE  Ctx!SumFunctionOnSet(f, {}) = 0 /\ Ctx!Sum(f) = f[0]
<1>1. \A S : Ctx!SumFunctionOnSet(f, S) = Lib!SumOver(f, S)
  BY DEF Ctx!SumFunctionOnSet, Ctx!FoldFunctionOnSet, Ctx!MapThenFoldSet,
     Lib!SumOver, Lib!IsSum
<1>2. Ctx!Sum(f) = Ctx!SumFunctionOnSet(f, {0})
  BY DEF Ctx!Sum, Ctx!SumFunction
<1>3. IsFiniteSet({}) /\ IsFiniteSet({0}) /\ {0} \ {0} = {}
  BY FS_EmptySet, FS_Singleton
<1>4. Lib!SumOver(f, {}) = 0
  BY <1>3, Lib!SumSteps DEF IsFiniteSet, Lib!IsFiniteSet
<1>5. Lib!SumOver(f, {0}) = f[0]
  BY <1>3, <1>4, Lib!SumSteps DEF IsFiniteSet, Lib!IsFiniteSet
<1>6. QED
  BY <1>1, <1>2, <1>4, <1>5

\* What is drained was there: what remains is an amount.
LEMMA DrainedOfOne ==
  ASSUME NEW f \in [{0} -> Nat], NEW bytes \in Nat
  PROVE  Ctx!Drained(f, bytes) \in [{0} -> Nat]
<1>1. DOMAIN f = {0} /\ {j \in DOMAIN f : j < 0} = {}
  OBVIOUS
<1>2. Ctx!LeftFor(f, 0, bytes) \in Nat
  BY <1>1, SumOfOne DEF Ctx!LeftFor, Ctx!Higher
<1>3. f[0] - Ctx!Lower(f[0], Ctx!LeftFor(f, 0, bytes)) \in Nat
  BY <1>2 DEF Ctx!Lower
<1>4. Ctx!Drained(f, bytes) =
        [k \in {0} |-> f[k] - Ctx!Lower(f[k], Ctx!LeftFor(f, k, bytes))]
  BY <1>1 DEF Ctx!Drained, Ctx!Minus, Ctx!Taken
<1>5. QED
  BY <1>3, <1>4
-----------------------------------------------------------------------------
(* The PRBs of a TTI                                                       *)

\* The PRBs there are.
Band == 0 .. TotalPrb - 1

\* A run of PRBs that fits is free and inside the band.
LEMMA FirstFitIsFree ==
  ASSUME NEW used, NEW n \in Nat, Ctx!FirstFit(used, n) # Ctx!NoPrb
  PROVE  /\ Ctx!FirstFit(used, n) \in Band /\ n \in 1 .. TotalPrb
         /\ Ctx!PrbRange(Ctx!FirstFit(used, n), n) \subseteq Band
         /\ Ctx!PrbRange(Ctx!FirstFit(used, n), n) \cap used = {}
<1> DEFINE starts == {s \in 0 .. TotalPrb - n : Ctx!PrbRange(s, n) \cap used = {}}
           start  == Ctx!FirstFit(used, n)
<1>1. n # 0 /\ starts # {} /\ start = Ctx!Lowest(starts)
  BY DEF Ctx!FirstFit
<1>2. starts \in SUBSET Nat /\ \A s \in starts : /\ s \in 0 .. TotalPrb - n
                                               /\ Ctx!PrbRange(s, n) \cap used = {}
  OBVIOUS
<1> HIDE DEF starts
<1>3. \E s \in starts : \A t \in starts : s <= t
  BY <1>1, <1>2, Lib!LeastNatural
<1>4. start \in starts
  BY <1>1, <1>3 DEF Ctx!Lowest
<1> HIDE DEF start
<1>5. TotalPrb \in Nat /\ start \in 0 .. TotalPrb - n
  BY <1>2, <1>4, SchedulerAssumption
<1>6. start \in Band /\ n \in 1 .. TotalPrb
  BY <1>1, <1>5 DEF Band
<1>7. Ctx!PrbRange(start, n) \subseteq Band
  BY <1>5 DEF Ctx!PrbRange, Band
<1>8. QED
  BY <1>2, <1>4, <1>6, <1>7 DEF start

\* With the first k PRBs in use, the next n are given.
LEMMA FirstFitPacks ==
  ASSUME NEW k \in Nat, NEW n \in Nat \ {0}, k + n <= TotalPrb
  PROVE  Ctx!FirstFit(0 .. k - 1, n) = k
<1> DEFINE used == 0 .. k - 1
           starts == {s \in 0 .. TotalPrb - n : Ctx!PrbRange(s, n) \cap used = {}}
<1>1. TotalPrb \in Nat
  BY SchedulerAssumption
<1>2. k \in starts
  <2>1. k \in 0 .. TotalPrb - n
    BY <1>1
  <2>2. Ctx!PrbRange(k, n) \cap used = {}
    BY DEF Ctx!PrbRange
  <2>3. QED
    BY <2>1, <2>2
<1>3. ASSUME NEW s \in starts PROVE k <= s
  <2>1. s \in Nat /\ s \in Ctx!PrbRange(s, n)
    BY <1>1 DEF Ctx!PrbRange
  <2>2. s \notin used
    BY <1>3, <2>1
  <2>3. QED
    BY <2>1, <2>2
<1>4. starts \subseteq Nat
  BY <1>1
<1>5. Ctx!FirstFit(used, n) = Ctx!Lowest(starts)
  BY <1>2 DEF Ctx!FirstFit
<1> HIDE DEF starts
<1>6. Ctx!Lowest(starts) = k
  <2>1. \A x \in starts : (\A y \in starts : x <= y) => x = k
    BY <1>2, <1>3, <1>4
  <2>2. QED
    BY <1>2, <1>3, <2>1 DEF Ctx!Lowest
<1>7. QED
  BY <1>5, <1>6
-----------------------------------------------------------------------------
(* The grants of a UE                                                      *)

\* Every process whose retransmission is due is busy, and has its TB.
Healthy(c) ==
  /\ c \in Contexts /\ c.pendingRetx \subseteq c.busy
  /\ \A p \in c.pendingRetx : c.harqTb[p].nPrb > 0

\* Grant g makes context d of context c: a new TB on a free process, or one
\* that is due once more.
TbGranted(c, d, g) ==
  /\ d \in Contexts /\ g \in Grants
  /\ g.pid \in d.busy /\ g.pid \notin d.pendingRetx
  /\ Remembers(d, g.pid, g.ndi, g.tb, g.nPrb)
  /\ \A q \in Pids : q # g.pid =>
       /\ q \in d.busy <=> q \in c.busy
       /\ q \in d.pendingRetx <=> q \in c.pendingRetx
       /\ d.ndi[q] = c.ndi[q] /\ d.harqTb[q] = c.harqTb[q]
  /\ \/ /\ g.rv = 0 /\ g.pid \notin c.busy /\ d.ndi[g.pid] # c.ndi[g.pid]
     \/ /\ g.rv = -1 /\ g.pid \in c.pendingRetx
        /\ d.ndi[g.pid] = c.ndi[g.pid] /\ d.harqTb[g.pid] = c.harqTb[g.pid]

\* The PRBs of g are free in the band, and taken from then on.
TakesPrbs(g, before, after) ==
  /\ PrbsOf(g) \subseteq Band /\ PrbsOf(g) \cap before = {}
  /\ after = before \union PrbsOf(g)

\* What a turn answers: nothing, or one grant of its kind.
Answers(r, c, used, rv) ==
  \/ r.grants = <<>> /\ r.ctx = c /\ r.used = used
  \/ \E g : /\ r.grants = <<g>> /\ g.rv = rv
            /\ TbGranted(c, r.ctx, g) /\ TakesPrbs(g, used, r.used)

\* A grant for a process whose TB is known and fits in the band.
LEMMA GrantedFits ==
  ASSUME NEW d \in Contexts, NEW used, NEW p \in Pids, NEW rv \in {-1, 0},
         Ctx!FirstFit(used, d.harqTb[p].nPrb) # Ctx!NoPrb
  PROVE  LET r == Ctx!Granted(d, used, p, rv)
             g == r.grants[1]
         IN  /\ r.ctx = d /\ r.grants = <<g>> /\ g.pid = p /\ g.rv = rv
             /\ g \in Grants /\ Remembers(d, p, g.ndi, g.tb, g.nPrb)
             /\ TakesPrbs(g, used, r.used)
             /\ g.prbStart = Ctx!FirstFit(used, d.harqTb[p].nPrb)
<1> DEFINE tb    == d.harqTb[p]
           start == Ctx!FirstFit(used, tb.nPrb)
           r     == Ctx!Granted(d, used, p, rv)
           g     == [pid |-> p, ndi |-> d.ndi[p], rv |-> rv, tb |-> tb.tbs,
                     prbStart |-> start, nPrb |-> tb.nPrb]
<1>1. /\ r.ctx = d /\ r.grants = <<g>> /\ r.grants[1] = g
      /\ r.used = used \union Ctx!PrbRange(start, tb.nPrb)
  BY DEF Ctx!Granted
<1>2. tb \in TbRecords /\ tb.tbs \in Nat /\ tb.nPrb \in Nat
  BY SchedulerAssumption DEF Contexts, TbRecords
<1>3. /\ start \in Band /\ tb.nPrb \in 1 .. TotalPrb
      /\ Ctx!PrbRange(start, tb.nPrb) \subseteq Band
      /\ Ctx!PrbRange(start, tb.nPrb) \cap used = {}
  BY <1>2, FirstFitIsFree
<1>4. d.ndi[p] \in BOOLEAN
  BY DEF Contexts
<1> HIDE DEF start
<1>5. g \in Grants
  BY <1>2, <1>3, <1>4 DEF Grants, Band
<1>6. Remembers(d, p, g.ndi, g.tb, g.nPrb)
  <2>1. tb = [tbs |-> tb.tbs, nPrb |-> tb.nPrb]
    BY <1>2 DEF TbRecords
  <2>2. QED
    BY <2>1 DEF Remembers
<1>7. TakesPrbs(g, used, r.used)
  BY <1>1, <1>3 DEF TakesPrbs, PrbsOf
<1>8. QED
  BY <1>1, <1>5, <1>6, <1>7 DEF start

\* A context without orphans stays as it is when they are dropped.
LEMMA NothingDropped ==
  ASSUME NEW c, Healthy(c)
  PROVE  Ctx!Orphans(c) = {} /\ Ctx!Without(c, {}) = c
<1>1. Ctx!Orphans(c) = {}
  BY DEF Ctx!Orphans, Ctx!NoTb, Healthy
<1>2. c \in Contexts
  BY DEF Healthy
<1>3. c.pendingRetx \ {} = c.pendingRetx /\ c.busy \ {} = c.busy
  OBVIOUS
<1>4. [c EXCEPT !.pendingRetx = c.pendingRetx, !.busy = c.busy] = c
  BY <1>2 DEF Contexts
<1>5. QED
  BY <1>1, <1>3, <1>4 DEF Ctx!Without

\* A retransmission that is due and fits is granted, with the TB it repeats.
LEMMA RetxAnswers ==
  ASSUME NEW c, NEW used, Healthy(c)
  PROVE  Answers(Ctx!GrantRetx(c, used), c, used, -1)
<1> DEFINE fits == {p \in c.pendingRetx : Ctx!FirstFit(used, c.harqTb[p].nPrb) # Ctx!NoPrb}
           p    == Ctx!Lowest(fits)
           d    == [c EXCEPT !.pendingRetx = @ \ {p}]
           r    == Ctx!GrantRetx(c, used)
<1>1. Ctx!Orphans(c) = {} /\ Ctx!Without(c, {}) = c /\ c \in Contexts
  BY NothingDropped DEF Healthy
<1>2. c.pendingRetx \ Ctx!Orphans(c) = c.pendingRetx
  BY <1>1
<1>3. CASE fits = {}
  <2>1. r = Ctx!NoGrant(c, used)
    BY <1>1, <1>2, <1>3 DEF Ctx!GrantRetx
  <2>2. QED
    BY <2>1 DEF Ctx!NoGrant, Answers
<1>4. CASE fits # {}
  <2>1. {q \in Ctx!Orphans(c) : q < p} = {}
    BY <1>1
  <2>2. r = Ctx!Granted(d, used, p, -1)
    BY <1>1, <1>2, <1>4, <2>1 DEF Ctx!GrantRetx
  <2>3. fits \in SUBSET Nat
    BY <1>1, SchedulerAssumption DEF Contexts, Pids
  <2> HIDE DEF fits
  <2>4. \E x \in fits : \A y \in fits : x <= y
    BY <1>4, <2>3, Lib!LeastNatural
  <2>5. p \in fits
    BY <2>4 DEF Ctx!Lowest
  <2> HIDE DEF p, r
  <2>6. /\ p \in c.pendingRetx /\ p \in Pids /\ p \in c.busy
        /\ Ctx!FirstFit(used, c.harqTb[p].nPrb) # Ctx!NoPrb
    BY <1>1, <2>5 DEF fits, Contexts, Healthy
  <2>7. /\ d \in Contexts
        /\ d.pendingRetx = c.pendingRetx \ {p} /\ d.busy = c.busy
        /\ d.ndi = c.ndi /\ d.harqTb = c.harqTb
    BY <1>1 DEF Contexts
  <2> HIDE DEF d
  <2> DEFINE g == r.grants[1]
  <2>8. /\ r.ctx = d /\ r.grants = <<g>> /\ g.pid = p /\ g.rv = -1
        /\ g \in Grants /\ Remembers(d, p, g.ndi, g.tb, g.nPrb)
        /\ TakesPrbs(g, used, r.used)
    BY <2>2, <2>6, <2>7, GrantedFits
  <2> HIDE DEF g
  <2>9. TbGranted(c, d, g)
    BY <2>6, <2>7, <2>8 DEF TbGranted
  <2>10. QED
    BY <2>8, <2>9 DEF Answers, r
<1>5. QED
  BY <1>3, <1>4

\* A new TB toggles the NDI of the process it occupies.
LEMMA CommittedContext ==
  ASSUME NEW c \in Contexts, NEW p \in Pids, NEW n \in 0 .. TotalPrb
  PROVE  LET d == Ctx!Committed(c, p, n)
         IN  /\ d \in Contexts
             /\ d.busy = c.busy \union {p} /\ d.pendingRetx = c.pendingRetx
             /\ d.ndi = [c.ndi EXCEPT ![p] = ~@]
             /\ d.harqTb = [c.harqTb EXCEPT ![p] =
                              [tbs |-> Ctx!Tbs(c.mcs, n), nPrb |-> n]]
<1> DEFINE tbs == Ctx!Tbs(c.mcs, n)
           e   == Ctx!Sampled(c, tbs)
           d   == Ctx!Committed(c, p, n)
           tb  == [tbs |-> tbs, nPrb |-> n]
<1>1. n \in Nat /\ c.mcs = Ctx!NewContext.mcs
  BY SchedulerAssumption DEF Contexts
<1>2. tbs \in Nat
  BY <1>1, TbsOfMcs
<1>3. tb \in TbRecords
  BY <1>2 DEF TbRecords
<1>4. d = [e EXCEPT !.busy = @ \union {p}, !.ndi[p] = ~@, !.harqTb[p] = tb,
                    !.srPending = FALSE, !.ulBuffer = Ctx!Drained(@, tbs)]
  BY DEF Ctx!Committed
<1> HIDE DEF tbs, tb
<1>5. /\ e \in Contexts
      /\ e.busy = c.busy /\ e.pendingRetx = c.pendingRetx
      /\ e.ndi = c.ndi /\ e.harqTb = c.harqTb
  <2> DEFINE x == [c EXCEPT !.samples = c.samples + 1, !.granted = c.granted + tbs]
  <2>1. e = c \/ e = x
    BY DEF Ctx!Sampled
  <2>2. c.samples + 1 \in Nat /\ c.granted + tbs \in Nat
    BY <1>2 DEF Contexts
  <2>3. \A a, b \in Nat : [c EXCEPT !.samples = a, !.granted = b] \in Contexts
    BY DEF Contexts
  <2>4. x \in Contexts
    BY <2>2, <2>3
  <2>5. /\ x.busy = c.busy /\ x.pendingRetx = c.pendingRetx
        /\ x.ndi = c.ndi /\ x.harqTb = c.harqTb
    BY DEF Contexts
  <2>6. QED
    BY <2>1, <2>4, <2>5
<1> HIDE DEF e, d
<1>6. Ctx!Drained(e.ulBuffer, tbs) \in [{0} -> Nat]
  BY <1>2, <1>5, DrainedOfOne DEF Contexts
<1>7. [e.ndi EXCEPT ![p] = ~@] \in [Pids -> BOOLEAN]
  BY <1>5 DEF Contexts
<1>8. [e.harqTb EXCEPT ![p] = tb] \in [Pids -> TbRecords]
  BY <1>3, <1>5 DEF Contexts
<1>9. \A x \in Contexts, b \in SUBSET Pids : [x EXCEPT !.busy = b] \in Contexts
  BY DEF Contexts
<1>10. \A x \in Contexts, b \in [Pids -> BOOLEAN] : [x EXCEPT !.ndi = b] \in Contexts
  BY DEF Contexts
<1>11. \A x \in Contexts, b \in [Pids -> TbRecords] : [x EXCEPT !.harqTb = b] \in Contexts
  BY DEF Contexts
<1>12. \A x \in Contexts, b \in [{0} -> Nat] :
         [x EXCEPT !.srPending = FALSE, !.ulBuffer = b] \in Contexts
  BY DEF Contexts
<1>13. d = [e EXCEPT !.busy = e.busy \union {p}, !.ndi = [e.ndi EXCEPT ![p] = ~@],
                     !.harqTb = [e.harqTb EXCEPT ![p] = tb],
                     !.srPending = FALSE, !.ulBuffer = Ctx!Drained(e.ulBuffer, tbs)]
  BY <1>4, <1>5 DEF Contexts
<1>14. d \in Contexts
  <2>1. e.busy \union {p} \in SUBSET Pids
    BY <1>5 DEF Contexts
  <2>2. QED
    BY <1>5, <1>6, <1>7, <1>8, <1>9, <1>10, <1>11, <1>12, <1>13, <2>1
<1>15. /\ d.busy = e.busy \union {p} /\ d.pendingRetx = e.pendingRetx
       /\ d.ndi = [e.ndi EXCEPT ![p] = ~@]
       /\ d.harqTb = [e.harqTb EXCEPT ![p] = tb]
  BY <1>5, <1>13 DEF Contexts
<1>16. QED
  BY <1>5, <1>14, <1>15 DEF d, tb, tbs

\* A UE with demand and a free process is granted a new TB that fits.
LEMMA NewAnswers ==
  ASSUME NEW c, NEW used, NEW n \in 1 .. TotalPrb, Healthy(c)
  PROVE  LET r == Ctx!GrantPrbs(c, used, n)
             g == r.grants[1]
         IN  /\ Answers(r, c, used, 0)
             /\ \/ r.grants = <<>>
                \/ g.nPrb = n /\ g.prbStart = Ctx!FirstFit(used, n)
             /\ (/\ Ctx!HasDemand(c) /\ c.busy # Pids
                 /\ Ctx!FirstFit(used, n) # Ctx!NoPrb) => r.grants # <<>>
<1> DEFINE p == Ctx!Lowest(Pids \ c.busy)
           d == Ctx!Committed(c, p, n)
           r == Ctx!GrantPrbs(c, used, n)
           g == r.grants[1]
           fits == /\ Ctx!HasDemand(c) /\ c.busy # Pids
                   /\ Ctx!FirstFit(used, n) # Ctx!NoPrb
<1>1. c \in Contexts /\ c.pendingRetx \subseteq c.busy
  BY DEF Healthy
<1>2. Ctx!Pids = Pids
  BY DEF Ctx!Pids, Pids
<1>3. CASE ~fits
  <2>1. r = Ctx!NoGrant(c, used)
    BY <1>2, <1>3 DEF Ctx!GrantPrbs
  <2>2. QED
    BY <1>3, <2>1 DEF Ctx!NoGrant, Answers
<1>4. CASE fits
  <2>1. r = Ctx!Granted(d, used, p, 0)
    BY <1>2, <1>4 DEF Ctx!GrantPrbs
  <2>2. Pids \ c.busy \in SUBSET Nat /\ Pids \ c.busy # {}
    <3>1. c.busy \subseteq Pids /\ c.busy # Pids
      BY <1>1, <1>4 DEF Contexts
    <3>2. Pids \subseteq Nat
      BY SchedulerAssumption DEF Pids
    <3>3. QED
      BY <3>1, <3>2
  <2>3. \E x \in Pids \ c.busy : \A y \in Pids \ c.busy : x <= y
    BY <2>2, Lib!LeastNatural
  <2>4. p \in Pids \ c.busy
    BY <2>3 DEF Ctx!Lowest
  <2> HIDE DEF p
  <2>5. /\ d \in Contexts
        /\ d.busy = c.busy \union {p} /\ d.pendingRetx = c.pendingRetx
        /\ d.ndi = [c.ndi EXCEPT ![p] = ~@]
        /\ d.harqTb = [c.harqTb EXCEPT ![p] =
                         [tbs |-> Ctx!Tbs(c.mcs, n), nPrb |-> n]]
    <3>1. n \in 0 .. TotalPrb
      OBVIOUS
    <3>2. QED
      BY <1>1, <2>4, <3>1, CommittedContext
  <2>6. d.harqTb[p].nPrb = n /\ d.ndi[p] # c.ndi[p]
    BY <1>1, <2>4, <2>5 DEF Contexts
  <2> HIDE DEF d, r
  <2>7. /\ r.ctx = d /\ r.grants = <<g>> /\ g.pid = p /\ g.rv = 0
        /\ g \in Grants /\ Remembers(d, p, g.ndi, g.tb, g.nPrb)
        /\ TakesPrbs(g, used, r.used)
        /\ g.prbStart = Ctx!FirstFit(used, n)
    <3>1. Ctx!FirstFit(used, d.harqTb[p].nPrb) # Ctx!NoPrb
      BY <1>4, <2>6
    <3>2. p \in Pids /\ d \in Contexts
      BY <2>4, <2>5
    <3>3. /\ r.ctx = d /\ r.grants = <<g>> /\ g.pid = p /\ g.rv = 0
          /\ g \in Grants /\ Remembers(d, p, g.ndi, g.tb, g.nPrb)
          /\ TakesPrbs(g, used, r.used)
          /\ g.prbStart = Ctx!FirstFit(used, d.harqTb[p].nPrb)
      BY <2>1, <3>1, <3>2, GrantedFits
    <3>4. QED
      BY <2>6, <3>3
  <2> HIDE DEF g
  <2>8. TbGranted(c, d, g)
    <3>1. g.pid \in d.busy /\ g.pid \notin d.pendingRetx /\ g.pid \notin c.busy
      BY <1>1, <2>4, <2>5, <2>7
    <3>2. \A q \in Pids : q # p =>
            /\ q \in d.busy <=> q \in c.busy
            /\ q \in d.pendingRetx <=> q \in c.pendingRetx
            /\ d.ndi[q] = c.ndi[q] /\ d.harqTb[q] = c.harqTb[q]
      BY <1>1, <2>5 DEF Contexts
    <3>3. QED
      BY <2>5, <2>6, <2>7, <3>1, <3>2 DEF TbGranted
  <2>9. g.nPrb = n
    BY <2>6, <2>7 DEF Remembers
  <2>10. r.grants # <<>>
    BY <2>7
  <2>11. QED
    BY <1>4, <2>7, <2>8, <2>9, <2>10 DEF Answers, r, g
<1>5. QED
  BY <1>3, <1>4

\* The PRBs for the demand are some, and no more than the band has.
LEMMA NeededPrbs ==
  ASSUME NEW c, Healthy(c)
  PROVE  Ctx!NeededPrb(c) \in 1 .. TotalPrb
<1> DEFINE one == Ctx!Tbs(c.mcs, 1)
           req == Ctx!Requested(c)
<1>1. c.mcs = Ctx!NewContext.mcs /\ c.ulBuffer \in [{0} -> Nat]
  BY DEF Healthy, Contexts
<1>2. one \in Nat \ {0}
  <2>1. 1 \in Nat
    OBVIOUS
  <2>2. QED
    BY <1>1, <2>1, TbsOfMcs
<1>3. req \in Nat \ {0}
  <2>1. Ctx!TotalUlBuffer(c) \in Nat
    BY <1>1, SumOfOne DEF Ctx!TotalUlBuffer
  <2>2. QED
    BY <2>1 DEF Ctx!Requested, Ctx!ProbeBytes
<1>4. Ctx!NeededPrb(c) = Ctx!Lower((req + one - 1) \div one, TotalPrb)
  BY DEF Ctx!NeededPrb
<1> HIDE DEF one, req
<1>5. req + one - 1 \in Nat /\ req + one - 1 >= one
  BY <1>2, <1>3
<1>6. (req + one - 1) \div one \in Nat /\ (req + one - 1) \div one >= 1
  BY <1>2, <1>5, GoesOnce
<1>7. QED
  BY <1>4, <1>6, SchedulerAssumption DEF Ctx!Lower
-----------------------------------------------------------------------------
(* The turns of a TTI                                                      *)

\* The states of the TTI after each turn of a round.
After(kind, s, order) ==
  CHOOSE f : f = [k \in 0 .. NofUes |->
                    IF k = 0 THEN s ELSE Turn(kind, f[k - 1], order[k])]

\* The turns of a round follow each other.
LEMMA RoundTurns ==
  ASSUME NEW kind, NEW s, NEW order
  PROVE  LET after == After(kind, s, order)
         IN  /\ after[0] = s
             /\ \A k \in Rntis : after[k] = Turn(kind, after[k - 1], order[k])
             /\ Round(kind, s, order) = after[NofUes]
<1> DEFINE IsAfter(f, n) ==
             f = [k \in 0 .. n |->
                    IF k = 0 THEN s ELSE Turn(kind, f[k - 1], order[k])]
           S == {n \in Nat : \E f : IsAfter(f, n)}
           after == After(kind, s, order)
<1>1. 0 \in S
  <2>1. IsAfter([k \in 0 .. 0 |-> s], 0)
    OBVIOUS
  <2>2. QED
    BY <2>1
<1>2. ASSUME NEW n \in Nat, n \in S PROVE n + 1 \in S
  <2>1. PICK f : IsAfter(f, n)
    BY <1>2
  <2> DEFINE g == [k \in 0 .. n + 1 |->
                     IF k <= n THEN f[k] ELSE Turn(kind, f[n], order[n + 1])]
  <2>2. \A k \in 0 .. n : f[k] = IF k = 0 THEN s ELSE Turn(kind, f[k - 1], order[k])
    BY <2>1
  <2>3. \A k \in 0 .. n + 1 : g[k] = IF k = 0 THEN s ELSE Turn(kind, g[k - 1], order[k])
    <3> SUFFICES ASSUME NEW k \in 0 .. n + 1
                 PROVE  g[k] = IF k = 0 THEN s ELSE Turn(kind, g[k - 1], order[k])
      OBVIOUS
    <3>1. CASE k <= n
      <4>1. k \in 0 .. n /\ g[k] = f[k] /\ (k # 0 => g[k - 1] = f[k - 1])
        BY <3>1
      <4> HIDE DEF g
      <4>2. QED
        BY <2>2, <4>1
    <3>2. CASE k = n + 1
      <4>1. k # 0 /\ k - 1 = n /\ g[n] = f[n] /\ g[k] = Turn(kind, f[n], order[k])
        BY <3>2
      <4> HIDE DEF g
      <4>2. QED
        BY <4>1
    <3>3. QED
      BY <3>1, <3>2
  <2>4. IsAfter(g, n + 1)
    <3>1. g = [k \in 0 .. n + 1 |-> g[k]]
      OBVIOUS
    <3> HIDE DEF g
    <3>2. QED
      BY <2>3, <3>1
  <2>5. QED
    <3> HIDE DEF g
    <3>1. \E f2 : IsAfter(f2, n + 1)
      BY <2>4
    <3>2. QED
      BY <3>1
<1>3. NofUes \in Nat
  BY SchedulerAssumption
<1>4. \E f : IsAfter(f, NofUes)
  <2> HIDE DEF S
  <2>1. \A k \in 0 .. NofUes : k \in S
    BY <1>1, <1>2, <1>3, Lib!InductionUpTo
  <2>2. QED
    BY <1>3, <2>1 DEF S
<1>5. IsAfter(after, NofUes)
  BY <1>4 DEF After
<1>6. \A k \in 0 .. NofUes :
        after[k] = IF k = 0 THEN s ELSE Turn(kind, after[k - 1], order[k])
  <2> HIDE DEF after
  <2>1. QED
    BY <1>5
<1>7. Round(kind, s, order) = after[NofUes]
  BY DEF Round, After
<1>8. QED
  <2> HIDE DEF after
  <2>1. QED
    BY <1>3, <1>6, <1>7 DEF Rntis, after

\* What the turns of a TTI have made of the contexts: a grant for some UEs,
\* nothing for the others, and the PRBs of the grants side by side.
TtiOK(s) ==
  /\ s.db \in [Rntis -> Contexts] /\ s.issued \subseteq Messages
  /\ s.used = UNION {PrbsOf(m.grant) : m \in s.issued}
  /\ \A m \in s.issued : PrbsOf(m.grant) \subseteq Band
  /\ \A m, n \in s.issued : m # n =>
       m.rnti # n.rnti /\ PrbsOf(m.grant) \cap PrbsOf(n.grant) = {}
  /\ \A m \in s.issued : TbGranted(db[m.rnti], s.db[m.rnti], m.grant)
  /\ \A u \in Rntis : u \notin Served(s) => s.db[u] = db[u]

\* Turn t after s: it adds a grant of one kind for u, or nothing.
TurnOK(s, t, u, rv) ==
  /\ TtiOK(t)
  /\ s.issued \subseteq t.issued /\ Served(t) \subseteq Served(s) \union {u}
  /\ \A m \in t.issued \ s.issued : m.rnti = u /\ m.grant.rv = rv

\* A UE without a grant in this TTI takes what its turn answers.
LEMMA TakeOK ==
  ASSUME NEW s, NEW u \in Rntis, NEW r, NEW rv,
         TtiOK(s), u \notin Served(s), Answers(r, s.db[u], s.used, rv)
  PROVE  /\ TurnOK(s, Take(s, u, r), u, rv)
         /\ r.grants # <<>> => u \in Served(Take(s, u, r))
<1> DEFINE t == Take(s, u, r)
<1>1. /\ t.db = [s.db EXCEPT ![u] = r.ctx] /\ t.used = r.used
      /\ t.issued = s.issued \union {[rnti |-> u, grant |-> g] : g \in Range(r.grants)}
  BY DEF Take
<1>2. s.db[u] = db[u] /\ s.db \in [Rntis -> Contexts]
  BY DEF TtiOK
<1>3. \A m \in s.issued : m.rnti \in Rntis /\ m.rnti # u
  BY DEF TtiOK, Messages, Served
<1>4. CASE r.grants = <<>>
  <2>1. r.ctx = db[u] /\ r.used = s.used
    BY <1>2, <1>4 DEF Answers
  <2>2. t.issued = s.issued
    BY <1>1, <1>4 DEF Range
  <2>3. t.db = s.db
    BY <1>1, <1>2, <2>1
  <2> HIDE DEF t
  <2>4. Served(t) = Served(s)
    BY <2>2 DEF Served
  <2>5. QED
    BY <1>1, <1>4, <2>1, <2>2, <2>3, <2>4 DEF TurnOK, TtiOK, t
<1>5. CASE r.grants # <<>>
  <2>1. PICK g : /\ r.grants = <<g>> /\ g.rv = rv
                 /\ TbGranted(db[u], r.ctx, g) /\ TakesPrbs(g, s.used, r.used)
    BY <1>2, <1>5 DEF Answers
  <2> DEFINE n == [rnti |-> u, grant |-> g]
  <2>2. t.issued = s.issued \union {n}
    <3>1. Range(r.grants) = {g}
      BY <2>1 DEF Range
    <3>2. QED
      BY <1>1, <3>1
  <2>3. n.rnti = u /\ n.grant = g /\ n \in Messages
    BY <2>1 DEF TbGranted, Messages
  <2> HIDE DEF n, t
  <2>4. t.db \in [Rntis -> Contexts] /\ t.db[u] = r.ctx
    BY <1>1, <1>2, <2>1 DEF TbGranted
  <2>5. \A o \in Rntis : o # u => t.db[o] = s.db[o]
    BY <1>1, <1>2
  <2>6. Served(t) = Served(s) \union {u}
    BY <2>2, <2>3 DEF Served
  <2>7. /\ PrbsOf(g) \subseteq Band /\ PrbsOf(g) \cap s.used = {}
        /\ t.used = s.used \union PrbsOf(g)
    BY <1>1, <2>1 DEF TakesPrbs
  <2>8. TtiOK(t)
    <3>1. t.issued \subseteq Messages
      BY <2>2, <2>3 DEF TtiOK
    <3>2. t.used = UNION {PrbsOf(m.grant) : m \in t.issued}
      BY <2>2, <2>3, <2>7 DEF TtiOK
    <3>3. \A m \in t.issued : PrbsOf(m.grant) \subseteq Band
      BY <2>2, <2>3, <2>7 DEF TtiOK
    <3>4. \A m \in s.issued : PrbsOf(m.grant) \cap PrbsOf(g) = {}
      BY <2>7 DEF TtiOK
    <3>5. \A m, o \in t.issued : m # o =>
            m.rnti # o.rnti /\ PrbsOf(m.grant) \cap PrbsOf(o.grant) = {}
      BY <1>3, <2>2, <2>3, <3>4 DEF TtiOK
    <3>6. \A m \in t.issued : TbGranted(db[m.rnti], t.db[m.rnti], m.grant)
      BY <1>3, <2>1, <2>2, <2>3, <2>4, <2>5 DEF TtiOK
    <3>7. \A o \in Rntis : o \notin Served(t) => t.db[o] = db[o]
      BY <2>5, <2>6 DEF TtiOK
    <3>8. QED
      BY <2>4, <3>1, <3>2, <3>3, <3>5, <3>6, <3>7 DEF TtiOK
  <2>9. QED
    BY <2>1, <2>2, <2>3, <2>6, <2>8 DEF TurnOK, t
<1>6. QED
  BY <1>4, <1>5

\* The redundancy version of the grants of a round.
RvOf(kind) == IF kind = "retx" THEN -1 ELSE 0

\* A turn of any phase adds a grant for its UE or nothing.
LEMMA TurnStep ==
  ASSUME NEW s, NEW u \in Rntis, NEW kind \in {"retx", "guard", "new"},
         \A o \in Rntis : Healthy(db[o]), TtiOK(s),
         kind = "retx" => u \notin Served(s)
  PROVE  TurnOK(s, Turn(kind, s, u), u, RvOf(kind))
<1>1. TurnOK(s, s, u, RvOf(kind))
  BY DEF TurnOK
<1>2. u \notin Served(s) => s.db[u] = db[u] /\ Healthy(s.db[u])
  BY DEF TtiOK
<1>3. CASE kind = "retx"
  <2>1. Turn(kind, s, u) = Take(s, u, Ctx!GrantRetx(s.db[u], s.used))
    BY <1>3 DEF Turn, RetxTurn
  <2>2. Answers(Ctx!GrantRetx(s.db[u], s.used), s.db[u], s.used, -1)
    BY <1>2, <1>3, RetxAnswers
  <2>3. QED
    BY <1>3, <2>1, <2>2, TakeOK DEF RvOf
<1>4. CASE kind = "guard"
  <2>1. Turn(kind, s, u) = GuardTurn(s, u)
    BY <1>4 DEF Turn
  <2>2. CASE u \in Starving \ Served(s)
    <3> DEFINE n == Ctx!Lower(Ctx!NeededPrb(s.db[u]), MinPrb)
               r == Ctx!GrantPrbs(s.db[u], s.used, n)
    <3>1. n \in 1 .. TotalPrb
      BY <1>2, <2>2, NeededPrbs, SchedulerAssumption DEF Ctx!Lower
    <3>2. GuardTurn(s, u) = Take(s, u, r)
      BY <2>2 DEF GuardTurn, Ctx!GrantShare
    <3> HIDE DEF n
    <3>3. Answers(r, s.db[u], s.used, 0)
      BY <1>2, <2>2, <3>1, NewAnswers
    <3> HIDE DEF r
    <3>4. QED
      BY <1>4, <2>1, <2>2, <3>2, <3>3, TakeOK DEF RvOf
  <2>3. CASE u \notin Starving \ Served(s)
    BY <1>1, <2>1, <2>3 DEF GuardTurn
  <2>4. QED
    BY <2>2, <2>3
<1>5. CASE kind = "new"
  <2>1. Turn(kind, s, u) = NewTurn(s, u)
    BY <1>5 DEF Turn
  <2>2. CASE u \notin Served(s)
    <3> DEFINE n == Ctx!NeededPrb(s.db[u])
               r == Ctx!GrantPrbs(s.db[u], s.used, n)
    <3>1. n \in 1 .. TotalPrb
      BY <1>2, <2>2, NeededPrbs
    <3>2. NewTurn(s, u) = Take(s, u, r)
      BY <2>2 DEF NewTurn, Ctx!GrantNew
    <3> HIDE DEF n
    <3>3. Answers(r, s.db[u], s.used, 0)
      BY <1>2, <2>2, <3>1, NewAnswers
    <3> HIDE DEF r
    <3>4. QED
      BY <1>5, <2>1, <2>2, <3>2, <3>3, TakeOK DEF RvOf
  <2>3. CASE u \in Served(s)
    BY <1>1, <2>1, <2>3 DEF NewTurn
  <2>4. QED
    BY <2>2, <2>3
<1>6. QED
  BY <1>3, <1>4, <1>5

\* Every turn of a round adds to the grants of those before it.
LEMMA RoundOK ==
  ASSUME NEW s, NEW kind \in {"retx", "guard", "new"}, NEW order \in [Rntis -> Rntis],
         \A o \in Rntis : Healthy(db[o]), TtiOK(s),
         kind = "retx" => order = ByRnti /\ s.issued = {}
  PROVE  LET after == After(kind, s, order)
         IN  \A k \in 0 .. NofUes :
               /\ TtiOK(after[k]) /\ s.issued \subseteq after[k].issued
               /\ \A m \in after[k].issued \ s.issued : m.grant.rv = RvOf(kind)
               /\ k > 0 => TurnOK(after[k - 1], after[k], order[k], RvOf(kind))
<1> DEFINE after == After(kind, s, order)
           Good(k) ==
             /\ TtiOK(after[k]) /\ s.issued \subseteq after[k].issued
             /\ \A m \in after[k].issued \ s.issued : m.grant.rv = RvOf(kind)
             /\ k > 0 => TurnOK(after[k - 1], after[k], order[k], RvOf(kind))
             /\ kind = "retx" => Served(after[k]) \subseteq 1 .. k
           S == {k \in 0 .. NofUes : Good(k)}
<1>1. NofUes \in Nat
  BY SchedulerAssumption
<1>2. /\ after[0] = s
      /\ \A k \in Rntis : after[k] = Turn(kind, after[k - 1], order[k])
  BY RoundTurns
<1> HIDE DEF after
<1>3. 0 \in S
  BY <1>1, <1>2 DEF Served
<1>4. ASSUME NEW k \in Nat, k < NofUes, k \in S PROVE k + 1 \in S
  <2> DEFINE u == order[k + 1]
  <2>1. k + 1 \in Rntis /\ k + 1 \in 0 .. NofUes /\ (k + 1) - 1 = k /\ k + 1 > 0
    <3> HIDE DEF S
    <3>1. QED
      BY <1>1, <1>4 DEF Rntis
  <2>2. u \in Rntis /\ after[k + 1] = Turn(kind, after[k], u)
    BY <1>2, <2>1
  <2>3. Good(k)
    BY <1>4
  <2>4. kind = "retx" => u = k + 1 /\ u \notin Served(after[k])
    BY <2>1, <2>3 DEF ByRnti
  <2> HIDE DEF u
  <2>5. TurnOK(after[k], after[k + 1], u, RvOf(kind))
    BY <2>2, <2>3, <2>4, TurnStep
  <2>6. TtiOK(after[k + 1]) /\ s.issued \subseteq after[k + 1].issued
    BY <2>3, <2>5 DEF TurnOK
  <2>7. \A m \in after[k + 1].issued \ s.issued : m.grant.rv = RvOf(kind)
    BY <2>3, <2>5 DEF TurnOK
  <2>8. kind = "retx" => Served(after[k + 1]) \subseteq 1 .. k + 1
    BY <2>3, <2>4, <2>5 DEF TurnOK
  <2>9. QED
    BY <2>1, <2>5, <2>6, <2>7, <2>8 DEF u
<1>5. \A k \in 0 .. NofUes : k \in S
  <2> HIDE DEF S
  <2>1. QED
    BY <1>1, <1>3, <1>4, Lib!InductionUpTo
<1>6. QED
  BY <1>5 DEF after

\* A grant once issued stays through the turns that follow.
LEMMA ServedStays ==
  ASSUME NEW s, NEW kind \in {"retx", "guard", "new"}, NEW order \in [Rntis -> Rntis],
         \A o \in Rntis : Healthy(db[o]), TtiOK(s),
         kind = "retx" => order = ByRnti /\ s.issued = {},
         NEW j \in 0 .. NofUes
  PROVE  LET after == After(kind, s, order)
         IN  \A k \in j .. NofUes : after[j].issued \subseteq after[k].issued
<1> DEFINE after == After(kind, s, order)
           S == {k \in Nat : k < j \/ after[j].issued \subseteq after[k].issued}
<1>1. NofUes \in Nat
  BY SchedulerAssumption
<1>2. \A k \in 0 .. NofUes :
        k > 0 => TurnOK(after[k - 1], after[k], order[k], RvOf(kind))
  BY RoundOK
<1> HIDE DEF after
<1>3. 0 \in S
  BY <1>1
<1>4. ASSUME NEW k \in Nat, k < NofUes, k \in S PROVE k + 1 \in S
  <2>1. k + 1 \in 0 .. NofUes /\ (k + 1) - 1 = k /\ k + 1 > 0
    BY <1>1, <1>4
  <2>2. after[k].issued \subseteq after[k + 1].issued
    BY <1>2, <2>1 DEF TurnOK
  <2>3. CASE k + 1 <= j
    BY <2>1, <2>3
  <2>4. CASE ~(k + 1 <= j)
    <3>1. ~(k < j)
      BY <1>1, <2>4
    <3>2. QED
      BY <1>4, <2>1, <2>2, <3>1
  <2>5. QED
    BY <2>3, <2>4
<1>5. \A k \in 0 .. NofUes : k \in S
  <2> HIDE DEF S
  <2>1. QED
    BY <1>1, <1>3, <1>4, Lib!InductionUpTo
<1>6. \A k \in j .. NofUes : k \in 0 .. NofUes /\ ~(k < j)
  BY <1>1
<1>7. QED
  BY <1>5, <1>6 DEF after

\* The TTI before the first turn.
IdleTti == [db |-> db, used |-> {}, issued |-> {}]

\* The TTI after the retransmissions.
RetxDone == Round("retx", IdleTti, ByRnti)

\* The TTI after the guard of EPF.
GuardDone(order) ==
  IF algorithm = "EPF" THEN Round("guard", RetxDone, order) ELSE RetxDone

\* An order visits UEs.
LEMMA OrderOfUes ==
  ASSUME StateTypes, NEW order \in Orders
  PROVE  order \in [Rntis -> Rntis]
<1>1. NofUes \in Nat \ {0} /\ rrOffset \in 0 .. NofUes - 1
  BY SchedulerAssumption DEF StateTypes
<1>2. \A k \in Rntis : ((rrOffset + k - 1) % NofUes) + 1 \in Rntis
  <2> SUFFICES ASSUME NEW k \in Rntis
               PROVE  ((rrOffset + k - 1) % NofUes) + 1 \in Rntis
    OBVIOUS
  <2>1. rrOffset + k - 1 \in Nat
    BY <1>1 DEF Rntis
  <2>2. \A a \in Nat : a % NofUes \in 0 .. NofUes - 1
    BY <1>1
  <2>3. (rrOffset + k - 1) % NofUes \in 0 .. NofUes - 1
    BY <2>1, <2>2
  <2>4. QED
    BY <1>1, <2>3 DEF Rntis
<1>3. RoundRobin \in [Rntis -> Rntis]
  BY <1>2 DEF RoundRobin
<1>4. QED
  BY <1>3 DEF Orders

\* The phases of a TTI add their grants to each other.
LEMMA ScheduledOK ==
  ASSUME StateTypes, \A o \in Rntis : Healthy(db[o]), NEW order \in Orders
  PROVE  /\ TtiOK(RetxDone) /\ TtiOK(GuardDone(order)) /\ TtiOK(Scheduled(order))
         /\ \A m \in RetxDone.issued : m.grant.rv = -1
         /\ RetxDone.issued \subseteq GuardDone(order).issued
         /\ GuardDone(order).issued \subseteq Scheduled(order).issued
         /\ Scheduled(order) = Round("new", GuardDone(order), order)
<1>1. order \in [Rntis -> Rntis] /\ ByRnti \in [Rntis -> Rntis]
  BY OrderOfUes DEF ByRnti
<1>2. NofUes \in 0 .. NofUes
  BY SchedulerAssumption
<1>3. TtiOK(IdleTti) /\ IdleTti.issued = {}
  BY DEF IdleTti, TtiOK, StateTypes
<1>4. ASSUME NEW s, TtiOK(s), NEW kind \in {"retx", "guard", "new"},
             NEW o \in [Rntis -> Rntis], kind = "retx" => o = ByRnti /\ s.issued = {}
      PROVE  /\ TtiOK(Round(kind, s, o)) /\ s.issued \subseteq Round(kind, s, o).issued
             /\ \A m \in Round(kind, s, o).issued \ s.issued : m.grant.rv = RvOf(kind)
  <2> DEFINE after == After(kind, s, o)
  <2>1. Round(kind, s, o) = after[NofUes]
    BY RoundTurns
  <2>2. \A k \in 0 .. NofUes :
          /\ TtiOK(after[k]) /\ s.issued \subseteq after[k].issued
          /\ \A m \in after[k].issued \ s.issued : m.grant.rv = RvOf(kind)
    BY <1>4, RoundOK
  <2> HIDE DEF after
  <2>3. QED
    BY <1>2, <2>1, <2>2
<1>5. TtiOK(RetxDone) /\ \A m \in RetxDone.issued : m.grant.rv = -1
  BY <1>1, <1>3, <1>4 DEF RetxDone, RvOf
<1>6. TtiOK(GuardDone(order)) /\ RetxDone.issued \subseteq GuardDone(order).issued
  BY <1>1, <1>4, <1>5 DEF GuardDone
<1>7. Scheduled(order) = Round("new", GuardDone(order), order)
  BY DEF Scheduled, GuardDone, RetxDone, IdleTti
<1>8. /\ TtiOK(Scheduled(order))
      /\ GuardDone(order).issued \subseteq Scheduled(order).issued
  BY <1>1, <1>4, <1>6, <1>7
<1>9. QED
  BY <1>5, <1>6, <1>7, <1>8

\* What the grants of a TTI leave of the record of a process that has none.
LEMMA PidKept ==
  ASSUME NEW s, TtiOK(s), NEW u \in Rntis, NEW p \in Pids,
         \A m \in s.issued : ~IsFor(m, u, p)
  PROVE  /\ p \in s.db[u].busy <=> p \in db[u].busy
         /\ p \in s.db[u].pendingRetx <=> p \in db[u].pendingRetx
         /\ s.db[u].ndi[p] = db[u].ndi[p] /\ s.db[u].harqTb[p] = db[u].harqTb[p]
<1>1. CASE u \notin Served(s)
  BY <1>1 DEF TtiOK
<1>2. CASE u \in Served(s)
  <2>1. PICK m \in s.issued : m.rnti = u
    BY <1>2 DEF Served
  <2>2. m.grant.pid # p /\ TbGranted(db[u], s.db[u], m.grant)
    BY <2>1 DEF TtiOK, IsFor
  <2>3. QED
    BY <2>2 DEF TbGranted
<1>3. QED
  BY <1>1, <1>2
-----------------------------------------------------------------------------
(* Between two TTIs                                                        *)

\* Between two TTIs every UE is one that the scheduler can go on with.
LEMMA AllHealthy ==
  ASSUME SchedInv
  PROVE  \A u \in Rntis : Healthy(db[u])
<1> SUFFICES ASSUME NEW u \in Rntis PROVE Healthy(db[u])
  OBVIOUS
<1>1. db[u] \in Contexts
  BY DEF SchedInv, StateTypes
<1>2. ASSUME NEW p \in db[u].pendingRetx
      PROVE  p \in db[u].busy /\ db[u].harqTb[p].nPrb > 0
  <2>1. p \in Pids
    BY <1>1 DEF Contexts
  <2>2. IsDue(u, p)
    BY <1>2, <2>1 DEF SchedInv, Stage, IsSettled, IsGranted, IsOnWay
  <2>3. QED
    BY <2>2 DEF IsDue, Holds, Remembers
<1>3. QED
  BY <1>1, <1>2 DEF Healthy

\* After its grants of a TTI every process is in a stage.
LEMMA ScheduleStage ==
  ASSUME SchedInv, phase = "schedule", NEW s, TtiOK(s), db' = s.db, issued' = s.issued,
         phase' = "pusch", UNCHANGED <<pipe, held>>, NEW u \in Rntis, NEW p \in Pids
  PROVE  Stage(u, p)'
<1>1. Stage(u, p) /\ ~IsGranted(u, p)
  BY DEF SchedInv, IsGranted
<1>2. NotOnWay(u, p)' <=> NotOnWay(u, p)
  BY DEF NotOnWay
<1>3. CASE \A m \in s.issued : ~IsFor(m, u, p)
  <2>1. /\ p \in db'[u].busy <=> p \in db[u].busy
        /\ p \in db'[u].pendingRetx <=> p \in db[u].pendingRetx
        /\ db'[u].ndi[p] = db[u].ndi[p] /\ db'[u].harqTb[p] = db[u].harqTb[p]
    BY <1>3, PidKept
  <2>2. NotIssued(u, p)'
    BY <1>3 DEF NotIssued
  <2>3. Holds(u, p)' <=> Holds(u, p)
    BY <2>1 DEF Holds, Remembers
  <2>4. CASE IsSettled(u, p)
    BY <1>2, <2>1, <2>2, <2>4 DEF IsSettled, Stage
  <2>5. CASE IsDue(u, p)
    BY <1>2, <2>1, <2>2, <2>3, <2>5 DEF IsDue, Stage
  <2>6. CASE IsOnWay(u, p)
    BY <2>1, <2>2, <2>3, <2>6 DEF IsOnWay, Stage
  <2>7. QED
    BY <1>1, <2>4, <2>5, <2>6 DEF Stage
<1>4. CASE \E m \in s.issued : IsFor(m, u, p)
  <2>1. PICK m \in s.issued : IsFor(m, u, p)
    BY <1>4
  <2>2. TbGranted(db[u], db'[u], m.grant) /\ m.grant.pid = p
    BY <2>1 DEF TtiOK, IsFor
  <2>3. /\ p \in db'[u].busy /\ p \notin db'[u].pendingRetx
        /\ Remembers(db'[u], p, m.grant.ndi, m.grant.tb, m.grant.nPrb)
    BY <2>2 DEF TbGranted
  <2>4. \/ /\ p \notin db[u].busy /\ db'[u].ndi[p] # db[u].ndi[p]
        \/ /\ p \in db[u].pendingRetx
           /\ db'[u].ndi[p] = db[u].ndi[p] /\ db'[u].harqTb[p] = db[u].harqTb[p]
    BY <2>2 DEF TbGranted
  <2>5. CASE p \notin db[u].busy /\ db'[u].ndi[p] # db[u].ndi[p]
    <3>1. IsSettled(u, p)
      BY <1>1, <2>5 DEF Stage, IsDue, IsOnWay
    <3>2. NotOnWay(u, p)' /\ held'[u][p].tx = 0 /\ held'[u][p].ndi # db'[u].ndi[p]
      BY <1>2, <2>5, <3>1 DEF IsSettled
    <3>3. IsGranted(u, p)'
      BY <2>1, <2>3, <3>2 DEF IsGranted, IsFor
    <3>4. QED
      BY <3>3 DEF Stage
  <2>6. CASE /\ p \in db[u].pendingRetx
             /\ db'[u].ndi[p] = db[u].ndi[p] /\ db'[u].harqTb[p] = db[u].harqTb[p]
    <3>1. IsDue(u, p)
      BY <1>1, <2>6 DEF Stage, IsSettled, IsOnWay
    <3>2. NotOnWay(u, p)' /\ Holds(u, p)' /\ held'[u][p].tx < MaxHarqTx
      BY <1>2, <2>6, <3>1 DEF IsDue, Holds, Remembers
    <3>3. IsGranted(u, p)'
      BY <2>1, <2>3, <3>2 DEF IsGranted, IsFor
    <3>4. QED
      BY <3>3 DEF Stage
  <2>7. QED
    BY <2>4, <2>5, <2>6
<1>5. QED
  BY <1>3, <1>4
-----------------------------------------------------------------------------
(* Who is served                                                           *)

\* Without retransmissions the first phase takes no PRB.
LEMMA NoRetransmissions ==
  ASSUME StateTypes, \A o \in Rntis : Healthy(db[o]), NEW order \in Orders,
         Retransmissions(Scheduled(order)) = {}
  PROVE  RetxDone.issued = {} /\ RetxDone.used = {} /\ Served(RetxDone) = {}
<1>1. RetxDone.issued \subseteq Retransmissions(Scheduled(order))
  BY ScheduledOK DEF Retransmissions
<1>2. RetxDone.issued = {}
  BY <1>1
<1>3. RetxDone.used = {}
  BY <1>2, ScheduledOK DEF TtiOK
<1>4. QED
  BY <1>2, <1>3 DEF Served

\* With the first j PRBs in use, a turn serves a UE that has demand and a free
\* process with the PRBs after them, and uses no others.
LEMMA PackedTurn ==
  ASSUME NEW s, TtiOK(s), NEW u \in Rntis, u \notin Served(s), Healthy(db[u]),
         NEW j \in Nat, s.used = 0 .. j - 1,
         NEW n \in 1 .. TotalPrb, j + n <= TotalPrb
  PROVE  LET t == Take(s, u, Ctx!GrantPrbs(s.db[u], s.used, n))
         IN  /\ Ctx!HasDemand(db[u]) /\ db[u].busy # Pids => u \in Served(t)
             /\ t.used = s.used \/ t.used = 0 .. j + n - 1
<1> DEFINE r == Ctx!GrantPrbs(s.db[u], s.used, n)
           t == Take(s, u, r)
           g == r.grants[1]
<1>1. s.db[u] = db[u]
  BY DEF TtiOK
<1>2. TotalPrb \in Nat /\ n \in Nat \ {0}
  BY SchedulerAssumption
<1>3. Ctx!FirstFit(s.used, n) = j /\ j # Ctx!NoPrb
  BY <1>2, FirstFitPacks DEF Ctx!NoPrb
<1>4. /\ Answers(r, s.db[u], s.used, 0)
      /\ r.grants = <<>> \/ (g.nPrb = n /\ g.prbStart = j)
      /\ Ctx!HasDemand(db[u]) /\ db[u].busy # Pids => r.grants # <<>>
  BY <1>1, <1>3, NewAnswers
<1> HIDE DEF r
<1>5. r.grants # <<>> => u \in Served(t)
  BY <1>4, TakeOK
<1>6. t.used = r.used
  BY DEF Take
<1>7. r.used = s.used \/ r.used = 0 .. j + n - 1
  <2>1. CASE r.grants = <<>>
    BY <1>4, <2>1 DEF Answers
  <2>2. CASE r.grants # <<>>
    <3>1. PICK h : r.grants = <<h>> /\ TakesPrbs(h, s.used, r.used)
      BY <1>4, <2>2 DEF Answers
    <3>2. h.nPrb = n /\ h.prbStart = j
      BY <1>4, <2>2, <3>1
    <3>3. PrbsOf(h) = j .. j + n - 1
      BY <3>2 DEF PrbsOf, Ctx!PrbRange
    <3>4. (0 .. j - 1) \union (j .. j + n - 1) = 0 .. j + n - 1
      BY <1>2
    <3>5. QED
      BY <3>1, <3>3, <3>4 DEF TakesPrbs
  <2>3. QED
    BY <2>1, <2>2
<1>8. QED
  BY <1>4, <1>5, <1>6, <1>7 DEF r

\* Round robin serves the first of the round, unless PRBs are repeated.
LEMMA RrServesFirst ==
  ASSUME SchedInv, NEW order \in Orders, algorithm = "RR",
         Retransmissions(Scheduled(order)) = {},
         NEW u \in Rntis, u = rrOffset + 1, Ctx!HasDemand(db[u]), db[u].busy # Pids
  PROVE  u \in Served(Scheduled(order))
<1> DEFINE s     == RetxDone
           after == After("new", s, order)
           n     == Ctx!NeededPrb(db[u])
<1>1. StateTypes /\ \A o \in Rntis : Healthy(db[o])
  BY AllHealthy DEF SchedInv
<1>2. s.used = {} /\ Served(s) = {} /\ TtiOK(s) /\ s.db[u] = db[u]
  BY <1>1, NoRetransmissions, ScheduledOK DEF TtiOK
<1>3. /\ NofUes \in Nat \ {0} /\ rrOffset \in 0 .. NofUes - 1
      /\ 1 \in Rntis /\ 1 \in 0 .. NofUes
  BY <1>1, SchedulerAssumption DEF StateTypes, Rntis
<1>4. order \in [Rntis -> Rntis] /\ order[1] = u
  <2>1. order = RoundRobin
    BY DEF Orders
  <2>2. order[1] = ((rrOffset + 1 - 1) % NofUes) + 1
    BY <1>3, <2>1 DEF RoundRobin
  <2>3. rrOffset % NofUes = rrOffset
    BY <1>3
  <2>4. QED
    BY <1>1, <1>3, <2>2, <2>3, OrderOfUes
<1>5. n \in 1 .. TotalPrb /\ 0 + n <= TotalPrb
  BY <1>1, NeededPrbs, SchedulerAssumption
<1>6. after[0] = s /\ after[1] = Turn("new", after[1 - 1], order[1])
  BY <1>3, RoundTurns
<1>7. after[1] = Take(s, u, Ctx!GrantPrbs(s.db[u], s.used, n))
  <2> HIDE DEF after
  <2>1. after[1] = NewTurn(s, u)
    BY <1>4, <1>6 DEF Turn
  <2>2. QED
    BY <1>2, <2>1 DEF NewTurn, Ctx!GrantNew
<1>8. s.used = 0 .. 0 - 1 /\ u \notin Served(s)
  BY <1>2
<1>9. u \in Served(after[1])
  <2> HIDE DEF after, s, n
  <2>1. u \in Served(Take(s, u, Ctx!GrantPrbs(s.db[u], s.used, n)))
    BY <1>1, <1>2, <1>5, <1>8, PackedTurn
  <2>2. QED
    BY <1>7, <2>1
<1>10. Scheduled(order) = after[NofUes]
  <2>1. GuardDone(order) = s
    BY DEF GuardDone
  <2>2. QED
    BY <1>1, <2>1, ScheduledOK, RoundTurns
<1>11. after[1].issued \subseteq after[NofUes].issued
  <2>1. NofUes \in 1 .. NofUes
    BY <1>3
  <2>2. QED
    BY <1>1, <1>2, <1>3, <1>4, <2>1, ServedStays
<1>12. QED
  <2> HIDE DEF after
  <2>1. QED
    BY <1>9, <1>10, <1>11 DEF Served

\* An order visits every UE.
LEMMA OrderVisitsAll ==
  ASSUME StateTypes, NEW order \in Orders, algorithm = "EPF", NEW u \in Rntis
  PROVE  \E k \in Rntis : order[k] = u
<1>1. order \in Injection(Rntis, Rntis)
  BY OrderOfUes DEF Orders, Injection
<1>2. IsFiniteSet(Rntis)
  BY SchedulerAssumption, FS_Interval DEF Rntis
<1>3. order \in Surjection(Rntis, Rntis)
  BY <1>1, <1>2, FS_Injection
<1>4. QED
  BY <1>3 DEF Surjection

\* The shares of the UEs before a turn leave room for one more.
LEMMA ShareFits ==
  ASSUME NEW k \in Nat, k < NofUes, NofUes * MinPrb <= TotalPrb,
         NEW j \in Nat, j <= k * MinPrb, NEW n \in 1 .. MinPrb
  PROVE  j + n <= (k + 1) * MinPrb /\ j + n <= TotalPrb
<1>1. NofUes \in Nat /\ MinPrb \in Nat /\ TotalPrb \in Nat
  BY SchedulerAssumption
<1>2. (k + 1) * MinPrb = k * MinPrb + MinPrb /\ k * MinPrb \in Nat
  BY <1>1
<1>3. (k + 1) * MinPrb <= NofUes * MinPrb
  <2>1. PICK d \in Nat : NofUes = (k + 1) + d
    <3>1. NofUes - (k + 1) \in Nat /\ NofUes = (k + 1) + (NofUes - (k + 1))
      BY <1>1
    <3>2. QED
      BY <3>1
  <2>2. NofUes * MinPrb = (k + 1) * MinPrb + d * MinPrb /\ d * MinPrb \in Nat
    BY <1>1, <2>1
  <2>3. (k + 1) * MinPrb \in Nat
    BY <1>1
  <2>4. QED
    BY <2>2, <2>3
<1>4. QED
  <2>1. NofUes * MinPrb \in Nat
    BY <1>1
  <2>2. QED
    BY <1>1, <1>2, <1>3, <2>1

\* EPF serves every starving UE as long as the shares of all fit the band,
\* unless PRBs are repeated.
LEMMA EpfServesStarving ==
  ASSUME SchedInv, NEW order \in Orders, algorithm = "EPF",
         NofUes * MinPrb <= TotalPrb,
         Retransmissions(Scheduled(order)) = {},
         NEW u \in Starving, Ctx!HasDemand(db[u]), db[u].busy # Pids
  PROVE  u \in Served(Scheduled(order))
<1> DEFINE s     == RetxDone
           after == After("guard", s, order)
           Packed(k) == \E j \in Nat : j <= k * MinPrb /\ after[k].used = 0 .. j - 1
           Fed(o, k) == o \in Starving /\ Ctx!HasDemand(db[o]) /\ db[o].busy # Pids
                          => o \in Served(after[k])
           S == {k \in 0 .. NofUes : Packed(k) /\ \A i \in 1 .. k : Fed(order[i], k)}
<1>1. StateTypes /\ \A o \in Rntis : Healthy(db[o])
  BY AllHealthy DEF SchedInv
<1>2. s.used = {} /\ Served(s) = {} /\ TtiOK(s)
  BY <1>1, NoRetransmissions, ScheduledOK
<1>3. order \in [Rntis -> Rntis]
  BY <1>1, OrderOfUes
<1>4. NofUes \in Nat /\ MinPrb \in Nat \ {0} /\ TotalPrb \in Nat \ {0}
  BY SchedulerAssumption
<1>5. /\ after[0] = s
      /\ \A k \in Rntis : after[k] = Turn("guard", after[k - 1], order[k])
  BY RoundTurns
<1>6. \A k \in 0 .. NofUes :
        /\ TtiOK(after[k])
        /\ k > 0 => after[k - 1].issued \subseteq after[k].issued
  <2>1. "guard" \in {"retx", "guard", "new"} /\ "guard" # "retx"
    OBVIOUS
  <2>2. \A k \in 0 .. NofUes :
          /\ TtiOK(after[k])
          /\ k > 0 => TurnOK(after[k - 1], after[k], order[k], RvOf("guard"))
    BY <1>1, <1>2, <1>3, <2>1, RoundOK
  <2> HIDE DEF after
  <2>3. QED
    BY <2>2 DEF TurnOK
<1> HIDE DEF after, s
<1>7. 0 \in S
  <2>1. 0 \in 0 .. NofUes /\ 0 <= 0 * MinPrb /\ after[0].used = 0 .. 0 - 1
    BY <1>2, <1>4, <1>5
  <2>2. Packed(0)
    BY <2>1
  <2>3. \A i \in 1 .. 0 : Fed(order[i], 0)
    OBVIOUS
  <2> HIDE DEF Packed, Fed
  <2>4. QED
    BY <2>1, <2>2, <2>3
<1>8. ASSUME NEW k \in Nat, k < NofUes, k \in S PROVE k + 1 \in S
  <2> DEFINE o == order[k + 1]
             t == after[k]
  <2>1. k + 1 \in Rntis /\ k + 1 \in 0 .. NofUes /\ (k + 1) - 1 = k /\ k \in 0 .. NofUes
    BY <1>4, <1>8 DEF Rntis
  <2>2. o \in Rntis /\ after[k + 1] = GuardTurn(t, o) /\ TtiOK(t)
    <3>1. after[k + 1] = Turn("guard", after[k], o)
      BY <1>5, <2>1
    <3>2. QED
      BY <1>3, <1>6, <2>1, <3>1 DEF Turn
  <2>3. Served(t) \subseteq Served(after[k + 1])
    BY <1>6, <2>1 DEF Served
  <2>4. PICK j \in Nat : j <= k * MinPrb /\ t.used = 0 .. j - 1
    BY <1>8
  <2>5. Packed(k + 1) /\ Fed(o, k + 1)
    <3>1. CASE o \notin Starving \ Served(t)
      <4>1. after[k + 1] = t
        BY <2>2, <3>1 DEF GuardTurn
      <4>2. j <= (k + 1) * MinPrb
        <5>1. MinPrb \in 1 .. MinPrb
          BY <1>4
        <5>2. j + MinPrb <= (k + 1) * MinPrb /\ (k + 1) * MinPrb \in Nat
          BY <1>4, <1>8, <2>4, <5>1, ShareFits
        <5>3. QED
          BY <1>4, <5>2
      <4>3. QED
        BY <2>4, <3>1, <4>1, <4>2
    <3>2. CASE o \in Starving \ Served(t)
      <4> DEFINE n == Ctx!Lower(Ctx!NeededPrb(db[o]), MinPrb)
      <4>1. t.db[o] = db[o]
        BY <2>2, <3>2 DEF TtiOK
      <4>2. n \in 1 .. TotalPrb /\ n \in 1 .. MinPrb
        BY <1>1, <1>4, <2>2, NeededPrbs DEF Ctx!Lower
      <4>3. after[k + 1] = Take(t, o, Ctx!GrantPrbs(t.db[o], t.used, n))
        BY <2>2, <3>2, <4>1 DEF GuardTurn, Ctx!GrantShare
      <4> HIDE DEF n, t, o
      <4>4. j + n <= (k + 1) * MinPrb /\ j + n <= TotalPrb
        BY <1>8, <2>4, <4>2, ShareFits
      <4>5. /\ Ctx!HasDemand(db[o]) /\ db[o].busy # Pids => o \in Served(after[k + 1])
            /\ after[k + 1].used = t.used \/ after[k + 1].used = 0 .. j + n - 1
        BY <1>1, <2>2, <2>4, <3>2, <4>2, <4>3, <4>4, PackedTurn
      <4>6. j <= (k + 1) * MinPrb /\ j + n \in Nat
        BY <1>4, <4>2, <4>4
      <4>7. Packed(k + 1)
        <5>1. t.used = 0 .. j - 1
          BY <2>4 DEF t
        <5>2. CASE after[k + 1].used = t.used
          <6>1. j <= (k + 1) * MinPrb
            BY <1>4, <4>2, <4>4
          <6>2. QED
            BY <5>1, <5>2, <6>1
        <5>3. CASE after[k + 1].used = 0 .. j + n - 1
          <6>1. PICK i \in Nat : i = j + n
            BY <4>6
          <6>2. i <= (k + 1) * MinPrb
            BY <4>4, <6>1
          <6>3. n \in Nat /\ i - 1 = j + n - 1
            BY <4>2, <6>1
          <6>4. after[k + 1].used = 0 .. i - 1
            BY <5>3, <6>3
          <6>5. QED
            BY <6>2, <6>4
        <5>4. QED
          BY <4>5, <5>2, <5>3
      <4>8. QED
        BY <4>5, <4>7
    <3>3. QED
      BY <3>1, <3>2
  <2>6. \A i \in 1 .. k + 1 : i = k + 1 \/ i \in 1 .. k
    OBVIOUS
  <2>7. \A i \in 1 .. k + 1 : Fed(order[i], k + 1)
    BY <1>8, <2>3, <2>5, <2>6
  <2>8. QED
    BY <2>1, <2>5, <2>7
<1>9. NofUes \in S
  <2> HIDE DEF S
  <2>1. \A k \in 0 .. NofUes : k \in S
    BY <1>4, <1>7, <1>8, Lib!InductionUpTo
  <2>2. QED
    BY <1>4, <2>1
<1>10. u \in Served(after[NofUes])
  <2>1. u \in Rntis
    BY DEF Starving
  <2>2. PICK k \in Rntis : order[k] = u
    BY <1>1, <2>1, OrderVisitsAll
  <2>3. Fed(order[k], NofUes)
    BY <1>9, <2>2 DEF Rntis
  <2>4. QED
    BY <2>2, <2>3
<1>11. after[NofUes].issued \subseteq Scheduled(order).issued
  <2>1. GuardDone(order) = after[NofUes]
    BY RoundTurns DEF GuardDone, after, s
  <2>2. QED
    BY <1>1, <2>1, ScheduledOK
<1>12. QED
  BY <1>10, <1>11 DEF Served
-----------------------------------------------------------------------------
(* Schedule                                                                *)

\* What a TTI of the scheduler does with an order of the UEs.
ScheduleIn(order) ==
  LET s == Scheduled(order)
  IN  /\ db' = s.db /\ issued' = s.issued /\ since' = Since(s)
      /\ wait' = [u \in Rntis |->
                    IF u \notin PassedOver(s) THEN 0
                    ELSE IF wait[u] < MaxWait THEN wait[u] + 1 ELSE MaxWait]
      /\ phase = "schedule" /\ phase' = "pusch" /\ rrOffset' = NextOffset
      /\ UNCHANGED <<algorithm, pipe, held>>

\* The wait of a UE grows by one at most, and only when it is passed over.
LEMMA WaitGrows ==
  ASSUME SchedInv, NEW order \in Orders, ScheduleIn(order), NEW u \in Rntis
  PROVE  /\ wait'[u] \in 0 .. MaxWait /\ wait'[u] <= wait[u] + 1
         /\ u \notin PassedOver(Scheduled(order)) => wait'[u] = 0
<1>1. wait[u] \in 0 .. MaxWait /\ MaxWait \in Nat
  BY SchedulerAssumption DEF SchedInv, StateTypes, MaxWait
<1>2. wait'[u] = IF u \notin PassedOver(Scheduled(order)) THEN 0
                 ELSE IF wait[u] < MaxWait THEN wait[u] + 1 ELSE MaxWait
  BY DEF ScheduleIn
<1>3. QED
  BY <1>1, <1>2

\* Round robin: the first of the round is not passed over, and everybody else
\* has come closer to being the first.
LEMMA RrWaits ==
  ASSUME SchedInv, NEW order \in Orders, ScheduleIn(order), algorithm = "RR",
         NEW u \in Rntis
  PROVE  wait'[u] <= SinceFirst(u)'
<1> DEFINE s == Scheduled(order)
<1>1. /\ NofUes \in Nat \ {0} /\ rrOffset \in 0 .. NofUes - 1 /\ u \in 1 .. NofUes
      /\ wait[u] \in Nat
  BY SchedulerAssumption DEF SchedInv, StateTypes, Rntis, MaxWait
<1>2. rrOffset' = IF rrOffset + 1 = NofUes THEN 0 ELSE rrOffset + 1
  <2>1. rrOffset' = (rrOffset + 1) % NofUes
    BY DEF ScheduleIn, NextOffset
  <2>2. CASE rrOffset + 1 = NofUes
    BY <1>1, <2>1, <2>2
  <2>3. CASE rrOffset + 1 # NofUes
    BY <1>1, <2>1, <2>3
  <2>4. QED
    BY <2>2, <2>3
<1>3. wait[u] <= SinceFirst(u)
  BY DEF SchedInv, WaitsOK
<1>4. CASE u \notin PassedOver(s)
  <2>1. wait'[u] = 0
    BY <1>4, WaitGrows
  <2>2. QED
    BY <1>1, <1>2, <2>1 DEF SinceFirst
<1>5. CASE u \in PassedOver(s)
  <2>1. /\ u \notin Served(s) /\ Ctx!HasDemand(db[u]) /\ db[u].busy # Pids
        /\ Retransmissions(s) = {}
    BY <1>5 DEF PassedOver
  <2> HIDE DEF s
  <2>2. u # rrOffset + 1
    BY <2>1, RrServesFirst DEF s
  <2>3. SinceFirst(u)' = SinceFirst(u) + 1
    BY <1>1, <1>2, <2>2 DEF SinceFirst
  <2>4. wait'[u] \in Nat /\ wait'[u] <= wait[u] + 1
    BY WaitGrows, SchedulerAssumption DEF MaxWait
  <2>5. SinceFirst(u) \in Nat
    BY <1>1 DEF SinceFirst
  <2>6. QED
    BY <1>1, <1>3, <2>3, <2>4, <2>5
<1>6. QED
  BY <1>4, <1>5

\* EPF: a UE that is passed over was not starving yet.
LEMMA EpfWaits ==
  ASSUME SchedInv, NEW order \in Orders, ScheduleIn(order), algorithm = "EPF",
         NofUes * MinPrb <= TotalPrb, NEW u \in Rntis
  PROVE  wait'[u] <= since'[u] /\ wait'[u] <= StarveTti
<1> DEFINE s == Scheduled(order)
<1>1. /\ wait[u] \in Nat /\ since[u] \in 0 .. StarveTti + 1 /\ StarveTti \in Nat
      /\ wait[u] <= since[u]
  BY SchedulerAssumption DEF SchedInv, StateTypes, WaitsOK, MaxWait
<1>2. since'[u] = IF u \in Served(s) THEN 0
                  ELSE IF since[u] > StarveTti THEN since[u] ELSE since[u] + 1
  BY DEF ScheduleIn, Since
<1>3. CASE u \notin PassedOver(s)
  <2>1. wait'[u] = 0
    BY <1>3, WaitGrows
  <2>2. QED
    BY <1>1, <1>2, <2>1
<1>4. CASE u \in PassedOver(s)
  <2>1. /\ u \notin Served(s) /\ Ctx!HasDemand(db[u]) /\ db[u].busy # Pids
        /\ Retransmissions(s) = {}
    BY <1>4 DEF PassedOver
  <2>2. u \notin Starving
    BY <2>1, EpfServesStarving
  <2>3. since[u] + 1 <= StarveTti
    BY <1>1, <2>2 DEF Starving
  <2>4. wait'[u] \in Nat /\ wait'[u] <= wait[u] + 1
    BY WaitGrows, SchedulerAssumption DEF MaxWait
  <2> HIDE DEF s
  <2>5. QED
    BY <1>1, <1>2, <2>1, <2>3, <2>4
<1>5. QED
  BY <1>3, <1>4

\* A TTI of the scheduler keeps the invariant.
LEMMA ScheduleKeeps ==
  ASSUME SchedInv, Schedule
  PROVE  SchedInv'
<1>1. PICK order \in Orders : ScheduleIn(order)
  BY DEF Schedule, ScheduleIn
<1> DEFINE s == Scheduled(order)
<1>2. StateTypes /\ \A o \in Rntis : Healthy(db[o])
  BY AllHealthy DEF SchedInv
<1>3. TtiOK(s)
  BY <1>2, ScheduledOK
<1>4. /\ db' = s.db /\ issued' = s.issued /\ since' = Since(s)
      /\ phase = "schedule" /\ phase' = "pusch" /\ rrOffset' = NextOffset
      /\ algorithm' = algorithm /\ pipe' = pipe /\ held' = held
  BY <1>1 DEF ScheduleIn
<1>5. DOMAIN wait' = Rntis /\ wait' = [u \in Rntis |-> wait'[u]]
  BY <1>1 DEF ScheduleIn
<1> HIDE DEF s
<1>6. StateTypes'
  <2>1. algorithm' \in Algorithms /\ phase' \in Phases
    BY <1>2, <1>4 DEF StateTypes, Phases
  <2>2. db' \in [Rntis -> Contexts] /\ issued' \subseteq Messages
    BY <1>3, <1>4 DEF TtiOK
  <2>3. since' \in [Rntis -> 0 .. StarveTti + 1]
    <3>1. \A u \in Rntis : since[u] \in 0 .. StarveTti + 1
      BY <1>2 DEF StateTypes
    <3>2. StarveTti \in Nat
      BY SchedulerAssumption
    <3>3. QED
      BY <1>4, <3>1, <3>2 DEF Since
  <2>4. rrOffset' \in 0 .. NofUes - 1
    <3>1. NofUes \in Nat \ {0} /\ rrOffset \in 0 .. NofUes - 1
      BY <1>2, SchedulerAssumption DEF StateTypes
    <3>2. (rrOffset + 1) % NofUes \in 0 .. NofUes - 1
      BY <3>1
    <3>3. QED
      BY <1>4, <3>1, <3>2 DEF NextOffset
  <2>5. pipe' \in Seq(SUBSET Messages) /\ Len(pipe') = Rtt
    BY <1>2, <1>4 DEF StateTypes
  <2>6. held' \in [Rntis -> [Pids -> HeldTbs]]
    BY <1>2, <1>4 DEF StateTypes
  <2>7. wait' \in [Rntis -> 0 .. MaxWait]
    <3>1. \A u \in Rntis : wait'[u] \in 0 .. MaxWait
      BY <1>1, WaitGrows
    <3>2. QED
      BY <1>5, <3>1
  <2>8. QED
    BY <2>1, <2>2, <2>3, <2>4, <2>5, <2>6, <2>7 DEF StateTypes
<1>7. OneGrantPerUe' /\ PrbsDisjoint'
  BY <1>3, <1>4 DEF OneGrantPerUe, PrbsDisjoint, TtiOK, Band, PrbsOf
<1>8. WaitsOK'
  <2>1. algorithm = "RR" => \A u \in Rntis : wait'[u] <= SinceFirst(u)'
    BY <1>1, RrWaits
  <2>2. algorithm = "EPF" /\ NofUes * MinPrb <= TotalPrb =>
          \A u \in Rntis : wait'[u] <= since'[u] /\ wait'[u] <= StarveTti
    BY <1>1, EpfWaits
  <2>3. QED
    BY <1>4, <2>1, <2>2 DEF WaitsOK
<1>9. \A u \in Rntis, p \in Pids : Stage(u, p)'
  BY <1>3, <1>4, ScheduleStage
<1>10. QED
  BY <1>6, <1>7, <1>8, <1>9 DEF SchedInv
-----------------------------------------------------------------------------
(* The other steps                                                         *)

\* A step leaves a process of a UE, at both ends, as it is.
ProcessKept(u, p) ==
  /\ p \in db'[u].busy <=> p \in db[u].busy
  /\ p \in db'[u].pendingRetx <=> p \in db[u].pendingRetx
  /\ db'[u].ndi[p] = db[u].ndi[p] /\ db'[u].harqTb[p] = db[u].harqTb[p]
  /\ held'[u][p] = held[u][p]

\* What both ends hold stays the same.
LEMMA HoldsKept ==
  ASSUME NEW u \in Rntis, NEW p \in Pids, ProcessKept(u, p)
  PROVE  Holds(u, p)' <=> Holds(u, p)
BY DEF ProcessKept, Holds, Remembers

\* No step but Schedule touches what the waits and the PRBs depend on.
LEMMA GrantsKept ==
  ASSUME SchedInv, UNCHANGED <<algorithm, since, rrOffset, issued, wait>>
  PROVE  OneGrantPerUe' /\ PrbsDisjoint' /\ WaitsOK'
<1>1. OneGrantPerUe'
  BY DEF SchedInv, OneGrantPerUe
<1>2. PrbsDisjoint'
  BY DEF SchedInv, PrbsDisjoint
<1>3. \A u \in Rntis : SinceFirst(u)' = SinceFirst(u)
  BY DEF SinceFirst
<1>4. WaitsOK'
  BY <1>3 DEF SchedInv, WaitsOK
<1>5. QED
  BY <1>1, <1>2, <1>4

\* An SR raises the estimate of the demand and nothing else.
LEMMA SrContext ==
  ASSUME NEW c \in Contexts, NEW bytes \in Nat
  PROVE  LET d == Ctx!HandleSr(c, [l \in {0} |-> bytes])
         IN  /\ d \in Contexts
             /\ d.busy = c.busy /\ d.pendingRetx = c.pendingRetx
             /\ d.ndi = c.ndi /\ d.harqTb = c.harqTb
<1> DEFINE pending == [l \in {0} |-> bytes]
           b == [l \in {0} |-> IF pending[l] > c.ulBuffer[l] THEN pending[l]
                               ELSE c.ulBuffer[l]]
           d == [c EXCEPT !.srPending = TRUE, !.ulBuffer = b]
<1>1. Ctx!HandleSr(c, pending) = d
  BY DEF Ctx!HandleSr
<1>2. b \in [{0} -> Nat]
  BY DEF Contexts
<1> HIDE DEF b
<1>3. d \in Contexts
  BY <1>2 DEF Contexts
<1>4. /\ d.busy = c.busy /\ d.pendingRetx = c.pendingRetx
      /\ d.ndi = c.ndi /\ d.harqTb = c.harqTb
  BY DEF Contexts
<1>5. QED
  BY <1>1, <1>3, <1>4

\* The SRs of a TTI keep the invariant.
LEMMA EnbSrKeeps ==
  ASSUME SchedInv, EnbSr
  PROVE  SchedInv'
<1>1. /\ phase = "sr" /\ phase' = "schedule"
      /\ UNCHANGED <<algorithm, since, rrOffset, issued, pipe, held, wait>>
  BY DEF EnbSr
<1>2. PICK bytes \in [Rntis -> SrDemands \union {0}] :
        db' = [u \in Rntis |->
                 IF bytes[u] = 0 THEN db[u]
                 ELSE Ctx!HandleSr(db[u], [l \in {0} |-> bytes[u]])]
  BY DEF EnbSr
<1>3. ASSUME NEW u \in Rntis
      PROVE  /\ db'[u] \in Contexts
             /\ db'[u].busy = db[u].busy /\ db'[u].pendingRetx = db[u].pendingRetx
             /\ db'[u].ndi = db[u].ndi /\ db'[u].harqTb = db[u].harqTb
  <2>1. db[u] \in Contexts /\ bytes[u] \in Nat
    BY <1>2, SchedulerAssumption DEF SchedInv, StateTypes
  <2>2. CASE bytes[u] = 0
    BY <1>2, <2>1, <2>2
  <2>3. CASE bytes[u] # 0
    <3> DEFINE d == Ctx!HandleSr(db[u], [l \in {0} |-> bytes[u]])
    <3>1. db'[u] = d
      BY <1>2, <2>3
    <3>2. /\ d \in Contexts
          /\ d.busy = db[u].busy /\ d.pendingRetx = db[u].pendingRetx
          /\ d.ndi = db[u].ndi /\ d.harqTb = db[u].harqTb
      BY <2>1, SrContext
    <3> HIDE DEF d
    <3>3. QED
      BY <3>1, <3>2
  <2>4. QED
    BY <2>2, <2>3
<1>4. StateTypes'
  <2>1. db' \in [Rntis -> Contexts]
    BY <1>2, <1>3
  <2>2. QED
    BY <1>1, <2>1 DEF SchedInv, StateTypes, Phases
<1>5. ASSUME NEW u \in Rntis, NEW p \in Pids PROVE Stage(u, p)'
  <2>1. ProcessKept(u, p)
    BY <1>1, <1>3 DEF ProcessKept
  <2>2. (Holds(u, p)' <=> Holds(u, p)) /\ (NotOnWay(u, p)' <=> NotOnWay(u, p))
    BY <1>1, <2>1, HoldsKept DEF NotOnWay
  <2>3. NotIssued(u, p)'
    BY <1>1 DEF NotIssued
  <2>4. CASE IsSettled(u, p)
    BY <2>1, <2>2, <2>3, <2>4 DEF IsSettled, Stage, ProcessKept
  <2>5. CASE IsDue(u, p)
    BY <2>1, <2>2, <2>3, <2>5 DEF IsDue, Stage, ProcessKept
  <2>6. CASE IsOnWay(u, p)
    BY <1>1, <2>1, <2>2, <2>3, <2>6 DEF IsOnWay, Stage, ProcessKept
  <2>7. ~IsGranted(u, p)
    BY <1>1 DEF IsGranted
  <2>8. QED
    BY <2>4, <2>5, <2>6, <2>7 DEF SchedInv, Stage
<1>6. QED
  BY <1>1, <1>4, <1>5, GrantsKept DEF SchedInv
-----------------------------------------------------------------------------
(* EnbReceive                                                              *)

\* A decoded TB, or one that is given up, settles its process; any other is
\* due for a retransmission.
LEMMA CrcContext ==
  ASSUME NEW c \in Contexts, NEW bytes \in Nat, NEW p \in Pids, NEW ok \in BOOLEAN
  PROVE  LET b == IF bytes = 0 THEN c ELSE Ctx!HandleBsr(c, 0, bytes)
             d == Ctx!HandleUlCrc(b, p, ok)
         IN  /\ d \in Contexts /\ d.ndi = c.ndi
             /\ \A q \in Pids : q # p =>
                  /\ q \in d.busy <=> q \in c.busy
                  /\ q \in d.pendingRetx <=> q \in c.pendingRetx
                  /\ d.harqTb[q] = c.harqTb[q]
             /\ ok => p \notin d.busy /\ p \notin d.pendingRetx
             /\ ~ok => /\ p \in d.busy /\ p \in d.pendingRetx
                       /\ d.harqTb[p] = c.harqTb[p]
<1> DEFINE b == IF bytes = 0 THEN c ELSE Ctx!HandleBsr(c, 0, bytes)
           d == Ctx!HandleUlCrc(b, p, ok)
<1>1. /\ b \in Contexts /\ b.busy = c.busy /\ b.pendingRetx = c.pendingRetx
      /\ b.ndi = c.ndi /\ b.harqTb = c.harqTb
  <2> DEFINE e == [c EXCEPT !.ulBuffer[0] = bytes]
  <2>1. e \in Contexts
    BY DEF Contexts
  <2>2. /\ e.busy = c.busy /\ e.pendingRetx = c.pendingRetx
        /\ e.ndi = c.ndi /\ e.harqTb = c.harqTb
    BY DEF Contexts
  <2>3. b = c \/ b = e
    BY DEF Ctx!HandleBsr
  <2> HIDE DEF e, b
  <2>4. QED
    BY <2>1, <2>2, <2>3
<1> HIDE DEF b
<1>2. CASE ok
  <2> DEFINE tb == [tbs |-> 0, nPrb |-> 0]
             e  == [b EXCEPT !.pendingRetx = @ \ {p}, !.busy = @ \ {p}]
             f  == [e EXCEPT !.harqTb[p] = tb]
  <2>1. tb \in TbRecords
    BY SchedulerAssumption DEF TbRecords
  <2> HIDE DEF tb
  <2>2. /\ e \in Contexts
        /\ e.busy = b.busy \ {p} /\ e.pendingRetx = b.pendingRetx \ {p}
        /\ e.ndi = b.ndi /\ e.harqTb = b.harqTb
    BY <1>1 DEF Contexts
  <2>3. d = f
    BY <1>1, <1>2 DEF Ctx!HandleUlCrc, Ctx!NoTb, tb, Contexts
  <2> HIDE DEF e
  <2>4. f \in Contexts
    <3>1. [e.harqTb EXCEPT ![p] = tb] \in [Pids -> TbRecords]
      BY <2>1, <2>2 DEF Contexts
    <3>2. f = [e EXCEPT !.harqTb = [e.harqTb EXCEPT ![p] = tb]]
      BY <2>2
    <3>3. \A x \in [Pids -> TbRecords] : [e EXCEPT !.harqTb = x] \in Contexts
      BY <2>2 DEF Contexts
    <3> HIDE DEF f
    <3>4. QED
      BY <3>1, <3>2, <3>3
  <2>5. /\ f.busy = e.busy /\ f.pendingRetx = e.pendingRetx /\ f.ndi = e.ndi
        /\ f.harqTb = [e.harqTb EXCEPT ![p] = tb]
    BY <2>2 DEF Contexts
  <2>6. \A q \in Pids : q # p => f.harqTb[q] = c.harqTb[q]
    BY <1>1, <2>2, <2>5 DEF Contexts
  <2> HIDE DEF d, f
  <2>7. QED
    BY <1>1, <1>2, <2>2, <2>3, <2>4, <2>5, <2>6 DEF d, b
<1>3. CASE ~ok
  <2> DEFINE e == [b EXCEPT !.pendingRetx = @ \union {p}, !.busy = @ \union {p}]
  <2>1. d = e
    BY <1>3 DEF Ctx!HandleUlCrc
  <2>2. /\ e \in Contexts
        /\ e.busy = b.busy \union {p} /\ e.pendingRetx = b.pendingRetx \union {p}
        /\ e.ndi = b.ndi /\ e.harqTb = b.harqTb
    BY <1>1 DEF Contexts
  <2> HIDE DEF d, e
  <2>3. QED
    BY <1>1, <1>3, <2>1, <2>2 DEF d, b
<1>4. QED
  BY <1>2, <1>3

\* The TB of a PUSCH that is received is settled or due again; what is under
\* way for the other processes stays.
LEMMA EnbReceiveKeeps ==
  ASSUME SchedInv, NEW m \in pipe[1], NEW bytes \in BsrDemands \union {0},
         NEW crcOk \in BOOLEAN, EnbReceive(m, bytes, crcOk)
  PROVE  SchedInv'
<1> DEFINE u == m.rnti
           p == m.grant.pid
           h == held[u][p]
           settled == crcOk \/ h.tx = MaxHarqTx
           c == IF bytes = 0 THEN db[u] ELSE Ctx!HandleBsr(db[u], 0, bytes)
           d == Ctx!HandleUlCrc(c, p, settled)
<1>1. StateTypes
  BY DEF SchedInv
<1>2. /\ phase = "pusch" /\ db' = [db EXCEPT ![u] = d]
      /\ held' = [held EXCEPT ![u][p].tx = IF settled THEN 0 ELSE @]
      /\ pipe' = [pipe EXCEPT ![1] = @ \ {m}]
      /\ UNCHANGED <<algorithm, phase, since, rrOffset, issued, wait>>
  BY DEF EnbReceive
<1>3. 1 \in 1 .. Rtt /\ Rtt \in Nat /\ DOMAIN pipe = 1 .. Rtt
  BY <1>1, SchedulerAssumption DEF StateTypes
<1>4. m \in Messages /\ u \in Rntis /\ p \in Pids
  <2>1. pipe[1] \subseteq Messages
    BY <1>1, <1>3 DEF StateTypes
  <2>2. QED
    BY <2>1 DEF Messages, Grants
<1>5. IsFor(m, u, p)
  BY DEF IsFor
<1>6. IsOnWay(u, p)
  BY <1>3, <1>4, <1>5 DEF SchedInv, Stage, IsSettled, IsDue, IsGranted, NotOnWay
<1>7. \A j \in 1 .. Rtt : \A n \in pipe[j] : IsFor(n, u, p) => j = 1 /\ n = m
  BY <1>3, <1>5, <1>6 DEF IsOnWay
<1>8. db[u] \in Contexts /\ held[u][p] \in HeldTbs
  BY <1>1, <1>4 DEF StateTypes
<1>9. /\ d \in Contexts /\ d.ndi = db[u].ndi
      /\ \A q \in Pids : q # p =>
           /\ q \in d.busy <=> q \in db[u].busy
           /\ q \in d.pendingRetx <=> q \in db[u].pendingRetx
           /\ d.harqTb[q] = db[u].harqTb[q]
      /\ settled => p \notin d.busy /\ p \notin d.pendingRetx
      /\ ~settled => /\ p \in d.busy /\ p \in d.pendingRetx
                     /\ d.harqTb[p] = db[u].harqTb[p]
  <2>1. bytes \in Nat /\ settled \in BOOLEAN
    BY SchedulerAssumption
  <2>2. db[u] \in Contexts /\ p \in Pids
    BY <1>4, <1>8
  <2> HIDE DEF settled, u, p
  <2>3. QED
    BY <2>1, <2>2, CrcContext
<1> HIDE DEF d
<1>10. /\ db'[u] = d /\ \A v \in Rntis : v # u => db'[v] = db[v]
       /\ db' \in [Rntis -> Contexts]
  <2>1. db \in [Rntis -> Contexts] /\ d \in Contexts /\ u \in Rntis
    BY <1>1, <1>4, <1>9 DEF StateTypes
  <2>2. db' = [db EXCEPT ![u] = d]
    BY <1>2
  <2> HIDE DEF u
  <2>3. QED
    BY <2>1, <2>2
<1>11. /\ held'[u][p] = [h EXCEPT !.tx = IF settled THEN 0 ELSE h.tx]
       /\ \A v \in Rntis, q \in Pids : v # u \/ q # p => held'[v][q] = held[v][q]
       /\ held' \in [Rntis -> [Pids -> HeldTbs]]
  <2> DEFINE e == [h EXCEPT !.tx = IF settled THEN 0 ELSE h.tx]
  <2>1. e \in HeldTbs
    BY <1>8, SchedulerAssumption DEF HeldTbs
  <2>2. held' = [held EXCEPT ![u] = [held[u] EXCEPT ![p] = e]]
    BY <1>1, <1>2, <1>4 DEF StateTypes
  <2> HIDE DEF e, u, p
  <2>3. held[u] \in [Pids -> HeldTbs] /\ held \in [Rntis -> [Pids -> HeldTbs]]
    BY <1>1, <1>4 DEF StateTypes
  <2>4. held'[u][p] = e
    BY <1>4, <2>2, <2>3
  <2>5. \A v \in Rntis, q \in Pids : v # u \/ q # p => held'[v][q] = held[v][q]
    BY <1>4, <2>2, <2>3
  <2>6. held' \in [Rntis -> [Pids -> HeldTbs]]
    BY <1>4, <2>1, <2>2, <2>3
  <2>7. QED
    BY <2>4, <2>5, <2>6 DEF e
<1>12. /\ pipe'[1] = pipe[1] \ {m} /\ \A j \in 1 .. Rtt : j # 1 => pipe'[j] = pipe[j]
       /\ pipe' \in Seq(SUBSET Messages) /\ Len(pipe') = Rtt
  <2>1. pipe \in Seq(SUBSET Messages) /\ Len(pipe) = Rtt
    BY <1>1 DEF StateTypes
  <2>2. pipe[1] \ {m} \in SUBSET Messages
    BY <1>3, <2>1
  <2>3. QED
    BY <1>2, <1>3, <2>1, <2>2
<1>13. StateTypes'
  BY <1>1, <1>2, <1>10, <1>11, <1>12 DEF StateTypes
<1>14. Stage(u, p)'
  <2>1. NotOnWay(u, p)'
    BY <1>7, <1>12 DEF NotOnWay
  <2>2. NotIssued(u, p)'
    BY <1>2, <1>6 DEF IsOnWay, NotIssued
  <2>3. /\ held'[u][p].ndi = h.ndi /\ held'[u][p].tb = h.tb
        /\ held'[u][p].nPrb = h.nPrb
        /\ held'[u][p].tx = IF settled THEN 0 ELSE h.tx
    BY <1>8, <1>11 DEF HeldTbs
  <2>4. /\ h.tx > 0 /\ h.nPrb > 0 /\ h.ndi = db[u].ndi[p]
        /\ db[u].harqTb[p] = [tbs |-> h.tb, nPrb |-> h.nPrb]
    BY <1>6 DEF IsOnWay, Holds, Remembers
  <2>5. h.tx \in 0 .. MaxHarqTx /\ MaxHarqTx \in Nat
    BY <1>8, SchedulerAssumption DEF HeldTbs
  <2> HIDE DEF u, p, h
  <2>6. CASE settled
    <3>1. IsSettled(u, p)'
      BY <1>9, <1>10, <2>1, <2>2, <2>3, <2>4, <2>6 DEF IsSettled
    <3>2. QED
      BY <3>1 DEF Stage
  <2>7. CASE ~settled
    <3>1. h.tx < MaxHarqTx
      BY <2>5, <2>7
    <3>2. Holds(u, p)'
      BY <1>9, <1>10, <2>3, <2>4, <2>7 DEF Holds, Remembers
    <3>3. IsDue(u, p)'
      BY <1>9, <1>10, <2>1, <2>2, <2>3, <2>4, <2>7, <3>1, <3>2 DEF IsDue
    <3>4. QED
      BY <3>3 DEF Stage
  <2>8. QED
    BY <2>6, <2>7
<1>15. ASSUME NEW v \in Rntis, NEW q \in Pids, v # u \/ q # p PROVE Stage(v, q)'
  <2>1. ~IsFor(m, v, q)
    BY <1>15 DEF IsFor
  <2>2. ProcessKept(v, q)
    BY <1>9, <1>10, <1>11, <1>15 DEF ProcessKept
  <2>3. Holds(v, q)' <=> Holds(v, q)
    BY <2>2, HoldsKept
  <2>4. NotIssued(v, q)' <=> NotIssued(v, q)
    BY <1>2 DEF NotIssued
  <2>5. \A j \in 1 .. Rtt : \A n : IsFor(n, v, q) => (n \in pipe'[j] <=> n \in pipe[j])
    BY <1>3, <1>12, <2>1
  <2>6. NotOnWay(v, q)' <=> NotOnWay(v, q)
    BY <2>5 DEF NotOnWay
  <2> HIDE DEF u, p
  <2>7. CASE IsSettled(v, q)
    BY <2>2, <2>4, <2>6, <2>7 DEF IsSettled, Stage, ProcessKept
  <2>8. CASE IsDue(v, q)
    BY <2>2, <2>3, <2>4, <2>6, <2>8 DEF IsDue, Stage, ProcessKept
  <2>9. CASE IsGranted(v, q)
    <3>1. db'[v].ndi[q] = db[v].ndi[q] /\ held'[v][q] = held[v][q]
      BY <2>2 DEF ProcessKept
    <3>2. q \in db'[v].busy /\ q \notin db'[v].pendingRetx
      BY <2>2, <2>9 DEF IsGranted, ProcessKept
    <3>3. \E n \in issued' :
            IsFor(n, v, q) /\ Remembers(db'[v], q, n.grant.ndi, n.grant.tb, n.grant.nPrb)
      BY <1>2, <2>2, <2>9 DEF IsGranted, ProcessKept, Remembers
    <3>4. IsGranted(v, q)'
      BY <1>2, <2>3, <2>6, <2>9, <3>1, <3>2, <3>3 DEF IsGranted
    <3>5. QED
      BY <3>4 DEF Stage
  <2>10. CASE IsOnWay(v, q)
    <3>1. \E i \in 1 .. Rtt : \E n \in pipe'[i] :
            /\ IsFor(n, v, q)
            /\ \A j \in 1 .. Rtt : \A o \in pipe'[j] : IsFor(o, v, q) => j = i /\ o = n
      BY <2>5, <2>10 DEF IsOnWay
    <3>2. IsOnWay(v, q)'
      BY <2>2, <2>3, <2>4, <2>10, <3>1 DEF IsOnWay, ProcessKept
    <3>3. QED
      BY <3>2 DEF Stage
  <2>11. QED
    BY <2>7, <2>8, <2>9, <2>10 DEF SchedInv, Stage
<1>16. QED
  BY <1>2, <1>13, <1>14, <1>15, GrantsKept DEF SchedInv
-----------------------------------------------------------------------------
(* NextTti                                                                 *)

\* The messages on their way move up, those of the TTI join them.
LEMMA PipeMoves ==
  ASSUME StateTypes, pipe' = Append(Tail(pipe), issued)
  PROVE  /\ pipe' \in Seq(SUBSET Messages) /\ Len(pipe') = Rtt
         /\ pipe'[Rtt] = issued
         /\ \A i \in 1 .. Rtt - 1 : pipe'[i] = pipe[i + 1]
<1>1. pipe \in Seq(SUBSET Messages) /\ Len(pipe) = Rtt /\ Rtt \in Nat \ {0}
  BY SchedulerAssumption DEF StateTypes
<1>2. issued \in SUBSET Messages
  BY DEF StateTypes
<1>3. Tail(pipe) \in Seq(SUBSET Messages) /\ Len(Tail(pipe)) = Rtt - 1
  BY <1>1
<1>4. \A i \in 1 .. Rtt - 1 : Tail(pipe)[i] = pipe[i + 1]
  BY <1>1
<1>5. pipe' \in Seq(SUBSET Messages) /\ Len(pipe') = Rtt
  BY <1>1, <1>2, <1>3
<1>6. pipe'[Rtt] = issued
  BY <1>1, <1>3
<1>7. \A i \in 1 .. Rtt - 1 : pipe'[i] = Tail(pipe)[i]
  BY <1>1, <1>3
<1>8. QED
  BY <1>4, <1>5, <1>6, <1>7

\* A TB that is granted is taken up, and its message is on its way.
LEMMA NextTtiKeeps ==
  ASSUME SchedInv, NextTti
  PROVE  SchedInv'
<1> DEFINE Mine(u, p) == {m \in issued : m.rnti = u /\ m.grant.pid = p}
<1>1. StateTypes /\ OneGrantPerUe
  BY DEF SchedInv
<1>2. /\ phase = "pusch" /\ phase' = "sr" /\ pipe[1] = {}
      /\ pipe' = Append(Tail(pipe), issued)
      /\ UNCHANGED <<algorithm, db, since, rrOffset, issued, wait>>
  BY DEF NextTti
<1>3. held' = [u \in Rntis |-> [p \in Pids |->
                 IF Mine(u, p) = {} THEN held[u][p]
                 ELSE TakenUp(held[u][p], (CHOOSE m \in Mine(u, p) : TRUE).grant)]]
  BY DEF NextTti
<1>4. Rtt \in Nat \ {0} /\ MaxHarqTx \in Nat \ {0} /\ TotalPrb \in Nat
  BY SchedulerAssumption
<1>5. /\ pipe' \in Seq(SUBSET Messages) /\ Len(pipe') = Rtt
      /\ pipe'[Rtt] = issued
      /\ \A i \in 1 .. Rtt - 1 : pipe'[i] = pipe[i + 1]
  BY <1>1, <1>2, PipeMoves
<1>6. ASSUME NEW u \in Rntis, NEW p \in Pids, \A m \in issued : ~IsFor(m, u, p)
      PROVE  held'[u][p] = held[u][p] /\ Stage(u, p)'
  <2>1. held'[u][p] = held[u][p]
    <3>1. Mine(u, p) = {}
      BY <1>6 DEF IsFor
    <3> HIDE DEF Mine
    <3>2. QED
      BY <1>3, <3>1
  <2>2. ProcessKept(u, p)
    BY <1>2, <2>1 DEF ProcessKept
  <2>3. (Holds(u, p)' <=> Holds(u, p)) /\ NotIssued(u, p)'
    BY <1>2, <2>2, HoldsKept DEF NotIssued
  <2>4. NotOnWay(u, p) => NotOnWay(u, p)'
    <3>1. ASSUME NotOnWay(u, p), NEW i \in 1 .. Rtt, NEW m \in pipe'[i]
          PROVE  ~IsFor(m, u, p)
      <4>1. CASE i = Rtt
        BY <1>5, <1>6, <3>1, <4>1
      <4>2. CASE i # Rtt
        <5>1. i \in 1 .. Rtt - 1 /\ i + 1 \in 1 .. Rtt
          BY <1>4, <4>2
        <5>2. QED
          BY <1>5, <3>1, <5>1 DEF NotOnWay
      <4>3. QED
        BY <4>1, <4>2
    <3>2. QED
      BY <3>1 DEF NotOnWay
  <2>5. CASE IsSettled(u, p)
    BY <2>1, <2>2, <2>3, <2>4, <2>5 DEF IsSettled, Stage, ProcessKept
  <2>6. CASE IsDue(u, p)
    BY <2>1, <2>2, <2>3, <2>4, <2>6 DEF IsDue, Stage, ProcessKept
  <2>7. CASE IsOnWay(u, p)
    <3>1. PICK i \in 1 .. Rtt : \E m \in pipe[i] :
            /\ IsFor(m, u, p)
            /\ \A j \in 1 .. Rtt : \A n \in pipe[j] : IsFor(n, u, p) => j = i /\ n = m
      BY <2>7 DEF IsOnWay
    <3>2. PICK m \in pipe[i] :
            /\ IsFor(m, u, p)
            /\ \A j \in 1 .. Rtt : \A n \in pipe[j] : IsFor(n, u, p) => j = i /\ n = m
      BY <3>1
    <3>3. i - 1 \in 1 .. Rtt - 1 /\ i - 1 \in 1 .. Rtt /\ (i - 1) + 1 = i
      BY <1>2, <1>4, <3>2
    <3>4. m \in pipe'[i - 1]
      BY <1>5, <3>3
    <3>5. ASSUME NEW j \in 1 .. Rtt, NEW n \in pipe'[j], IsFor(n, u, p)
          PROVE  j = i - 1 /\ n = m
      <4>1. j # Rtt
        BY <1>5, <1>6, <3>5
      <4>2. j \in 1 .. Rtt - 1 /\ j + 1 \in 1 .. Rtt
        BY <1>4, <4>1
      <4>3. n \in pipe[j + 1]
        BY <1>5, <3>5, <4>2
      <4>4. j + 1 = i /\ n = m
        BY <3>2, <3>5, <4>2, <4>3
      <4>5. QED
        BY <3>3, <4>4
    <3>6. \E k \in 1 .. Rtt : \E o \in pipe'[k] :
            /\ IsFor(o, u, p)
            /\ \A j \in 1 .. Rtt : \A n \in pipe'[j] : IsFor(n, u, p) => j = k /\ n = o
      BY <3>2, <3>3, <3>4, <3>5
    <3>7. IsOnWay(u, p)'
      BY <2>2, <2>3, <2>7, <3>6 DEF IsOnWay, ProcessKept
    <3>8. QED
      BY <2>1, <3>7 DEF Stage
  <2>8. ~IsGranted(u, p)
    BY <1>6 DEF IsGranted
  <2>9. IsSettled(u, p) \/ IsDue(u, p) \/ IsOnWay(u, p)
    BY <2>8 DEF SchedInv, Stage
  <2>10. QED
    BY <2>1, <2>5, <2>6, <2>7, <2>9
<1>7. ASSUME NEW u \in Rntis, NEW p \in Pids, NEW m \in issued, IsFor(m, u, p)
      PROVE  held'[u][p] \in HeldTbs /\ Stage(u, p)'
  <2>1. m \in Messages /\ m.grant \in Grants
    BY <1>1 DEF StateTypes, Messages
  <2>2. IsGranted(u, p)
    BY <1>2, <1>7 DEF SchedInv, Stage, IsSettled, IsDue, IsOnWay, NotIssued
  <2>3. \A n \in issued : IsFor(n, u, p) => n = m
    BY <1>1, <1>7 DEF OneGrantPerUe, IsFor
  <2>4. held'[u][p] = TakenUp(held[u][p], m.grant)
    <3>1. Mine(u, p) = {m}
      BY <1>7, <2>3 DEF IsFor
    <3>2. (CHOOSE n \in {m} : TRUE) = m
      OBVIOUS
    <3> HIDE DEF Mine
    <3>3. QED
      BY <1>3, <3>1, <3>2
  <2>5. /\ held'[u][p].ndi = m.grant.ndi /\ held'[u][p].tb = m.grant.tb
        /\ held'[u][p].nPrb = m.grant.nPrb /\ held'[u][p].tx = held[u][p].tx + 1
    BY <2>4 DEF TakenUp
  <2>6. /\ held[u][p].tx \in 0 .. MaxHarqTx
        /\ held[u][p].tx = 0 \/ held[u][p].tx < MaxHarqTx
    BY <1>1, <2>2 DEF StateTypes, HeldTbs, IsGranted
  <2>7. held[u][p].tx + 1 \in 1 .. MaxHarqTx
    BY <1>4, <2>6
  <2>8. m.grant.nPrb \in 1 .. TotalPrb /\ m.grant.ndi \in BOOLEAN /\ m.grant.tb \in Nat
    BY <2>1 DEF Grants
  <2>9. held'[u][p] \in HeldTbs
    <3>1. m.grant.nPrb \in 0 .. TotalPrb /\ held[u][p].tx + 1 \in 0 .. MaxHarqTx
      BY <1>4, <2>7, <2>8
    <3>2. QED
      BY <2>4, <2>8, <3>1 DEF TakenUp, HeldTbs
  <2>10. Remembers(db[u], p, m.grant.ndi, m.grant.tb, m.grant.nPrb)
    BY <2>2, <2>3 DEF IsGranted
  <2>11. Holds(u, p)' /\ held'[u][p].nPrb > 0
    BY <1>2, <2>5, <2>7, <2>8, <2>10 DEF Holds, Remembers
  <2>12. ASSUME NEW j \in 1 .. Rtt, NEW n \in pipe'[j], IsFor(n, u, p)
         PROVE  j = Rtt /\ n = m
    <3>1. CASE j = Rtt
      BY <1>5, <2>3, <2>12, <3>1
    <3>2. CASE j # Rtt
      <4>1. j \in 1 .. Rtt - 1 /\ j + 1 \in 1 .. Rtt
        BY <1>4, <3>2
      <4>2. n \in pipe[j + 1]
        BY <1>5, <2>12, <4>1
      <4>3. QED
        BY <2>2, <2>12, <4>1, <4>2 DEF IsGranted, NotOnWay
    <3>3. QED
      BY <3>1, <3>2
  <2>13. Rtt \in 1 .. Rtt /\ m \in pipe'[Rtt]
    BY <1>4, <1>5, <1>7
  <2>14. \E i \in 1 .. Rtt : \E o \in pipe'[i] :
           /\ IsFor(o, u, p)
           /\ \A j \in 1 .. Rtt : \A n \in pipe'[j] : IsFor(n, u, p) => j = i /\ n = o
    BY <1>7, <2>12, <2>13
  <2>15. p \in db'[u].busy /\ p \notin db'[u].pendingRetx /\ NotIssued(u, p)'
    BY <1>2, <2>2 DEF IsGranted, NotIssued
  <2>16. IsOnWay(u, p)'
    BY <2>11, <2>14, <2>15 DEF IsOnWay
  <2>17. QED
    BY <2>9, <2>16 DEF Stage
<1>8. held' \in [Rntis -> [Pids -> HeldTbs]]
  <2>1. \A u \in Rntis, p \in Pids : held'[u][p] \in HeldTbs
    BY <1>1, <1>6, <1>7 DEF StateTypes
  <2>2. held' = [u \in Rntis |-> [p \in Pids |-> held'[u][p]]]
    BY <1>3
  <2>3. \A u \in Rntis : [p \in Pids |-> held'[u][p]] \in [Pids -> HeldTbs]
    BY <2>1
  <2>4. QED
    BY <2>2, <2>3
<1>9. StateTypes'
  BY <1>1, <1>2, <1>5, <1>8 DEF StateTypes, Phases
<1>10. \A u \in Rntis, p \in Pids : Stage(u, p)'
  BY <1>6, <1>7
<1>11. QED
  BY <1>2, <1>9, <1>10, GrantsKept DEF SchedInv
-----------------------------------------------------------------------------
(* The specification                                                       *)

\* At the start nobody has a grant and every process is settled.
LEMMA InitHolds ==
  ASSUME Init
  PROVE  SchedInv
<1>1. /\ {NofUes, NofProcesses, MaxHarqTx, TotalPrb, MinPrb, Rtt} \subseteq Nat \ {0}
      /\ StarveTti \in Nat
  BY SchedulerAssumption
<1>2. Ctx!NewContext \in Contexts
  <2>1. [l \in {0} |-> 0] \in [{0} -> Nat]
    OBVIOUS
  <2>2. [p \in Pids |-> FALSE] \in [Pids -> BOOLEAN]
    OBVIOUS
  <2>3. [p \in Pids |-> [tbs |-> 0, nPrb |-> 0]] \in [Pids -> TbRecords]
    BY <1>1 DEF TbRecords
  <2>4. Ctx!Pids = Pids
    BY DEF Ctx!Pids, Pids
  <2> DEFINE mcs == Ctx!NewContext.mcs
             c   == [mcs |-> mcs, srPending |-> FALSE, ulBuffer |-> [l \in {0} |-> 0],
                     busy |-> {}, pendingRetx |-> {}, ndi |-> [p \in Pids |-> FALSE],
                     harqTb |-> [p \in Pids |-> [tbs |-> 0, nPrb |-> 0]],
                     samples |-> 0, granted |-> 0]
  <2>5. Ctx!NewContext = c
    BY <2>4 DEF Ctx!NewContext, Ctx!NoTb
  <2> HIDE DEF mcs
  <2>6. c \in [mcs : {mcs}, srPending : BOOLEAN, ulBuffer : [{0} -> Nat],
               busy : SUBSET Pids, pendingRetx : SUBSET Pids, ndi : [Pids -> BOOLEAN],
               harqTb : [Pids -> TbRecords], samples : Nat, granted : Nat]
    BY <2>1, <2>2, <2>3
  <2>7. QED
    BY <2>5, <2>6 DEF Contexts, mcs
<1>3. StateTypes
  <2>1. algorithm \in Algorithms /\ phase \in Phases /\ issued \subseteq Messages
    BY DEF Init, Phases
  <2>2. db \in [Rntis -> Contexts]
    BY <1>2 DEF Init
  <2>3. since \in [Rntis -> 0 .. StarveTti + 1] /\ rrOffset \in 0 .. NofUes - 1
    BY <1>1 DEF Init
  <2>4. pipe \in Seq(SUBSET Messages) /\ Len(pipe) = Rtt
    <3>1. pipe = [i \in 1 .. Rtt |-> {}] /\ Rtt \in Nat
      BY <1>1 DEF Init
    <3>2. QED
      BY <3>1
  <2>5. held \in [Rntis -> [Pids -> HeldTbs]]
    <3>1. NothingHeld \in HeldTbs
      BY <1>1 DEF NothingHeld, HeldTbs
    <3>2. QED
      BY <3>1 DEF Init
  <2>6. wait \in [Rntis -> 0 .. MaxWait]
    BY <1>1 DEF Init, MaxWait
  <2>7. QED
    BY <2>1, <2>2, <2>3, <2>4, <2>5, <2>6 DEF StateTypes
<1>4. OneGrantPerUe /\ PrbsDisjoint
  BY DEF Init, OneGrantPerUe, PrbsDisjoint
<1>5. WaitsOK
  <2>1. \A u \in Rntis : wait[u] = 0 /\ since[u] = 0 /\ rrOffset = 0
    BY DEF Init
  <2>2. \A u \in Rntis : SinceFirst(u) >= 0
    BY <1>1, <2>1 DEF SinceFirst, Rntis
  <2>3. QED
    BY <1>1, <2>1, <2>2 DEF WaitsOK
<1>6. ASSUME NEW u \in Rntis, NEW p \in Pids PROVE IsSettled(u, p)
  <2>1. db[u].busy = {} /\ db[u].pendingRetx = {} /\ db[u].ndi[p] = FALSE
    <3>1. Ctx!Pids = Pids
      BY DEF Ctx!Pids, Pids
    <3>2. QED
      BY <3>1 DEF Init, Ctx!NewContext
  <2>2. held[u][p].tx = 0 /\ held[u][p].ndi = FALSE
    BY DEF Init, NothingHeld
  <2>3. NotOnWay(u, p) /\ NotIssued(u, p)
    BY DEF Init, NotOnWay, NotIssued
  <2>4. QED
    BY <2>1, <2>2, <2>3 DEF IsSettled
<1>7. QED
  BY <1>3, <1>4, <1>5, <1>6 DEF SchedInv, Stage

\* A step that changes nothing keeps the invariant.
LEMMA StutterKeeps ==
  ASSUME SchedInv, UNCHANGED vars
  PROVE  SchedInv'
<1>1. UNCHANGED <<algorithm, phase, db, since, rrOffset, issued, pipe, held, wait>>
  BY DEF vars
<1>2. StateTypes'
  BY <1>1 DEF SchedInv, StateTypes
<1>3. \A u \in Rntis, p \in Pids : Stage(u, p)'
  BY <1>1 DEF SchedInv, Stage, IsSettled, IsDue, IsGranted, IsOnWay, Holds, Remembers,
     NotOnWay, NotIssued
<1>4. QED
  BY <1>1, <1>2, <1>3, GrantsKept DEF SchedInv

\* The scheduler keeps SchedInv: whatever algorithm runs, in whatever order it
\* visits the UEs and whatever SRs, BSRs and CRC results it hears, it and the
\* UEs agree on every process, and the waits are bounded.
THEOREM SchedSafe == Spec => []SchedInv
<1>1. Init => SchedInv
  BY InitHolds
<1>2. SchedInv /\ [Next]_vars => SchedInv'
  <2> SUFFICES ASSUME SchedInv, [Next]_vars PROVE SchedInv'
    OBVIOUS
  <2>1. CASE EnbSr
    BY <2>1, EnbSrKeeps
  <2>2. CASE Schedule
    BY <2>2, ScheduleKeeps
  <2>3. ASSUME NEW m \in pipe[1], NEW bytes \in BsrDemands \union {0},
               NEW crcOk \in BOOLEAN, EnbReceive(m, bytes, crcOk)
        PROVE  SchedInv'
    BY <2>3, EnbReceiveKeeps
  <2>4. CASE NextTti
    BY <2>4, NextTtiKeeps
  <2>5. CASE UNCHANGED vars
    BY <2>5, StutterKeeps
  <2>6. QED
    BY <2>1, <2>2, <2>3, <2>4, <2>5 DEF Next
<1>3. QED
  BY <1>1, <1>2, PTL DEF Spec

\* schedule_ul and the handlers keep the records of the UEs well formed: a
\* process due for a retransmission is busy and its TB record is there, so the
\* branch of schedule_retx_first that drops orphans is never needed.
THEOREM SchedTypeOK == Spec => []TypeOK
<1>1. SchedInv => TypeOK
  <2> SUFFICES ASSUME SchedInv PROVE TypeOK
    OBVIOUS
  <2>1. StateTypes
    BY DEF SchedInv
  <2>2. ASSUME NEW u \in Rntis
        PROVE  /\ db[u].pendingRetx \subseteq db[u].busy /\ db[u].busy \subseteq Pids
               /\ db[u].ulBuffer \in [{0} -> Nat]
               /\ \A p \in db[u].pendingRetx : db[u].harqTb[p] # Ctx!NoTb
               /\ \A p \in Pids : held[u][p].tx \in 0 .. MaxHarqTx
    <3>1. Healthy(db[u])
      BY AllHealthy
    <3>2. db[u] \in Contexts
      BY <3>1 DEF Healthy
    <3>3. \A p \in db[u].pendingRetx : db[u].harqTb[p] # Ctx!NoTb
      BY <3>1 DEF Healthy, Ctx!NoTb
    <3>4. \A p \in Pids : held[u][p].tx \in 0 .. MaxHarqTx
      BY <2>1 DEF StateTypes, HeldTbs
    <3>5. db[u].busy \subseteq Pids /\ db[u].ulBuffer \in [{0} -> Nat]
      BY <3>2 DEF Contexts
    <3>6. QED
      BY <3>1, <3>3, <3>4, <3>5 DEF Healthy
  <2>3. QED
    BY <2>1, <2>2 DEF TypeOK, StateTypes
<1>2. QED
  BY <1>1, SchedSafe, PTL

\* The grants of a TTI lie inside the band and share no PRB, for every size of
\* the band, number of UEs and mix of retransmissions, shares and new TBs.
THEOREM SchedPrbsDisjoint == Spec => []PrbsDisjoint
<1>1. SchedInv => PrbsDisjoint
  BY DEF SchedInv
<1>2. QED
  BY <1>1, SchedSafe, PTL

\* The phases of schedule_ul never grant to the same UE twice in a TTI.
THEOREM SchedOneGrantPerUe == Spec => []OneGrantPerUe
<1>1. SchedInv => OneGrantPerUe
  BY DEF SchedInv
<1>2. QED
  BY <1>1, SchedSafe, PTL

\* The UE reads each grant as it was meant: with the NDI it knows it repeats the
\* TB it holds, in its size and PRBs; with the other its process is settled; and
\* no answer for the process is on its way.
THEOREM SchedGrantReadAsMeant == Spec => []GrantReadAsMeant
<1>1. SchedInv => GrantReadAsMeant
  <2> SUFFICES ASSUME SchedInv, phase = "pusch", NEW m \in issued
               PROVE  LET g == m.grant
                          h == held[m.rnti][g.pid]
                      IN  /\ IF g.ndi = h.ndi
                             THEN h.tx > 0 /\ g.tb = h.tb /\ g.nPrb = h.nPrb
                             ELSE h.tx = 0
                          /\ \A i \in 2 .. Rtt : \A n \in pipe[i] :
                               ~(n.rnti = m.rnti /\ n.grant.pid = g.pid)
    BY DEF GrantReadAsMeant
  <2> DEFINE u == m.rnti
             p == m.grant.pid
             g == m.grant
             h == held[u][p]
  <2>1. u \in Rntis /\ p \in Pids
    BY DEF SchedInv, StateTypes, Messages, Grants
  <2>2. IsFor(m, u, p)
    BY DEF IsFor
  <2>3. IsGranted(u, p)
    BY <2>1, <2>2 DEF SchedInv, Stage, IsSettled, IsDue, IsOnWay, NotIssued
  <2>4. Remembers(db[u], p, g.ndi, g.tb, g.nPrb)
    BY <2>2, <2>3 DEF IsGranted, SchedInv, OneGrantPerUe, IsFor
  <2>5. /\ NotOnWay(u, p)
        /\ \/ h.tx = 0 /\ h.ndi # db[u].ndi[p]
           \/ h.tx > 0 /\ Remembers(db[u], p, h.ndi, h.tb, h.nPrb)
    BY <2>3 DEF IsGranted, Holds
  <2>6. Rtt \in Nat
    BY SchedulerAssumption
  <2>7. \A i \in 2 .. Rtt : \A n \in pipe[i] : ~(n.rnti = u /\ n.grant.pid = p)
    BY <2>5, <2>6 DEF NotOnWay, IsFor
  <2> HIDE DEF u, p, g, h
  <2>8. IF g.ndi = h.ndi THEN h.tx > 0 /\ g.tb = h.tb /\ g.nPrb = h.nPrb ELSE h.tx = 0
    BY <2>4, <2>5 DEF Remembers
  <2>9. QED
    BY <2>7, <2>8 DEF u, p, g, h
<1>2. QED
  BY <1>1, SchedSafe, PTL

\* Round robin passes no UE over more often than there are other UEs.
THEOREM SchedRrBoundedWait == Spec => []RrBoundedWait
<1>1. SchedInv => RrBoundedWait
  <2> SUFFICES ASSUME SchedInv, algorithm = "RR", NEW u \in Rntis
               PROVE  wait[u] < NofUes
    BY DEF RrBoundedWait
  <2>1. /\ NofUes \in Nat \ {0} /\ rrOffset \in 0 .. NofUes - 1 /\ u \in 1 .. NofUes
        /\ wait[u] \in Nat
    BY SchedulerAssumption DEF SchedInv, StateTypes, Rntis, MaxWait
  <2>2. wait[u] <= SinceFirst(u)
    BY DEF SchedInv, WaitsOK
  <2>3. QED
    BY <2>1, <2>2 DEF SinceFirst
<1>2. QED
  BY <1>1, SchedSafe, PTL

\* EPF passes no UE over longer than starve_tti when the shares of all UEs fit
\* the band.
THEOREM SchedEpfBoundedWait == Spec => []EpfBoundedWait
<1>1. SchedInv => EpfBoundedWait
  BY DEF SchedInv, WaitsOK, EpfBoundedWait
<1>2. QED
  BY <1>1, SchedSafe, PTL
===========================================================================
