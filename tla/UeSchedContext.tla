--------------------------- MODULE UeSchedContext ---------------------------
(***************************************************************************)
(* What the UL scheduler keeps for one UE (ue_sched_context) and what it   *)
(* does with it (src/enb_ul_scheduler.cpp) as operators on a record:       *)
(* demand from SR and BSR, HARQ processes, and the two kinds of grant.     *)
(* The PRBs in use in the TTI are a set.                                   *)
(***************************************************************************)
EXTENDS Amounts, FiniteSets, McsTbs

CONSTANTS
  Lcgs,
  NofProcesses,   \* MAX_HARQ_PROCESSES
  TotalPrb,       \* total_prb_
  MaxSamples      \* bound: the grants of new TBs that the average rate counts

Pids == 0 .. NofProcesses - 1

NoTb == [tbs |-> 0, nPrb |-> 0]

\* ul_snr, which no call changes.
UlSnr == 200

NewContext ==
  [mcs |-> McsOfSnr(UlSnr), srPending |-> FALSE, ulBuffer |-> [l \in Lcgs |-> 0],
   busy |-> {}, pendingRetx |-> {}, ndi |-> [p \in Pids |-> FALSE],
   harqTb |-> [p \in Pids |-> NoTb], samples |-> 0, granted |-> 0]

Lowest(S) == CHOOSE x \in S : \A y \in S : x <= y

\* total_ul_buffer, which every change of ul_buffer recomputes.
TotalUlBuffer(c) == Sum(c.ulBuffer)

\* Mutant of HandleSr: the buffers that come with the SR are not recorded.
HandleSrBare(c, pending) == [c EXCEPT !.srPending = TRUE]

\* handle_sr: the buffers the UE had raise the estimates, never lower them.
HandleSr(c, pending) ==
  [c EXCEPT !.srPending = TRUE,
            !.ulBuffer = [l \in Lcgs |->
               IF pending[l] > @[l] THEN pending[l] ELSE @[l]]]

\* handle_bsr, with the index already converted to bytes.
HandleBsr(c, l, bytes) == [c EXCEPT !.ulBuffer[l] = bytes]

\* handle_cqi: the MCS is the one that follows from the reported CQI, and from
\* the SNR as long as there is none.
HandleCqi(c, cqi) ==
  [c EXCEPT !.mcs = IF cqi = 0 THEN McsOfSnr(UlSnr) ELSE McsOfCqi(cqi)]

\* Mutant of HandleUlCrc: the process of a decoded TB is not released.
HandleUlCrcBusy(c, p, ok) ==
  IF ok THEN [c EXCEPT !.pendingRetx = @ \ {p}, !.harqTb[p] = NoTb]
  ELSE [c EXCEPT !.pendingRetx = @ \union {p}, !.busy = @ \union {p}]

\* handle_ul_crc
HandleUlCrc(c, p, ok) ==
  IF ok
  THEN [c EXCEPT !.pendingRetx = @ \ {p}, !.busy = @ \ {p},
                 !.harqTb[p] = NoTb]
  ELSE [c EXCEPT !.pendingRetx = @ \union {p}, !.busy = @ \union {p}]
-----------------------------------------------------------------------------
(* PRB pool                                                                *)

NoPrb == -1

PrbRange(start, n) == start .. start + n - 1

\* Mutant of FirstFit: a run of PRBs may pass the end of the band.
FirstFitPastEnd(used, n) ==
  LET starts == {s \in 0 .. TotalPrb - 1 : PrbRange(s, n) \cap used = {}}
  IN  IF n = 0 \/ starts = {} THEN NoPrb ELSE Lowest(starts)

\* prb_alloc: where the first run of n free PRBs starts.
FirstFit(used, n) ==
  LET starts == {s \in 0 .. TotalPrb - n : PrbRange(s, n) \cap used = {}}
  IN  IF n = 0 \/ starts = {} THEN NoPrb ELSE Lowest(starts)

\* No grant for this UE; a grant and the PRBs in use with it.
NoGrant(c, used) == [ctx |-> c, used |-> used, grants |-> <<>>]

\* Mutant of Granted: a TB that is repeated takes the size of the MCS of now.
GrantedAtMcs(c, used, p, rv) ==
  LET tb    == c.harqTb[p]
      start == FirstFit(used, tb.nPrb)
  IN  [ctx |-> c, used |-> used \union PrbRange(start, tb.nPrb),
       grants |-> <<[pid |-> p, ndi |-> c.ndi[p], rv |-> rv,
                     tb |-> Tbs(c.mcs, tb.nPrb),
                     prbStart |-> start, nPrb |-> tb.nPrb]>>]

Granted(c, used, p, rv) ==
  LET tb    == c.harqTb[p]
      start == FirstFit(used, tb.nPrb)
  IN  [ctx |-> c, used |-> used \union PrbRange(start, tb.nPrb),
       grants |-> <<[pid |-> p, ndi |-> c.ndi[p], rv |-> rv, tb |-> tb.tbs,
                     prbStart |-> start, nPrb |-> tb.nPrb]>>]
-----------------------------------------------------------------------------
(* Grants                                                                  *)

\* Processes to retransmit whose TB record is missing: they are released.
Orphans(c) == {p \in c.pendingRetx : c.harqTb[p] = NoTb}

Without(c, dropped) ==
  [c EXCEPT !.pendingRetx = @ \ dropped, !.busy = @ \ dropped]

\* schedule_retx_first for one UE: the first process whose PRBs fit.
GrantRetx(c, used) ==
  LET fits == {p \in c.pendingRetx \ Orphans(c) :
                 FirstFit(used, c.harqTb[p].nPrb) # NoPrb}
      p    == Lowest(fits)
      seen == {q \in Orphans(c) : q < p}
  IN  IF fits = {} THEN NoGrant(Without(c, Orphans(c)), used)
      ELSE Granted([Without(c, seen) EXCEPT !.pendingRetx = @ \ {p}],
                   used, p, -1)

HasDemand(c) == TotalUlBuffer(c) > 0 \/ c.srPending

\* What is granted to a UE of unknown demand.
ProbeBytes == 100

\* The bytes that a grant of a new TB is meant for.
Requested(c) == IF TotalUlBuffer(c) = 0 THEN ProbeBytes ELSE TotalUlBuffer(c)

\* Mutant of NeededPrb: the last PRB is left out.
NeededPrbRoundedDown(c) ==
  Lower(Higher(1, Requested(c) \div Tbs(c.mcs, 1)), TotalPrb)

\* The PRBs for the demand, as many as the band has at most.
NeededPrb(c) ==
  LET one == Tbs(c.mcs, 1)
  IN  Lower((Requested(c) + one - 1) \div one, TotalPrb)

\* ul_avg_rate is the mean of the TBs granted so far, kept as sum and number.
Sampled(c, tbs) ==
  IF c.samples = MaxSamples THEN c
  ELSE [c EXCEPT !.samples = @ + 1, !.granted = @ + tbs]

\* Mutant of Committed: the NDI stays as it is.
CommittedSameNdi(c, p, n) ==
  LET tbs == Tbs(c.mcs, n)
  IN  [Sampled(c, tbs) EXCEPT !.busy = @ \union {p},
                              !.harqTb[p] = [tbs |-> tbs, nPrb |-> n],
                              !.srPending = FALSE,
                              !.ulBuffer = Drained(@, tbs)]

\* generate_ul_grant for a new TB of n PRBs, and commit_new_grant.
Committed(c, p, n) ==
  LET tbs == Tbs(c.mcs, n)
  IN  [Sampled(c, tbs) EXCEPT !.busy = @ \union {p},
                              !.ndi[p] = ~@,
                              !.harqTb[p] = [tbs |-> tbs, nPrb |-> n],
                              !.srPending = FALSE,
                              !.ulBuffer = Drained(@, tbs)]

\* A new TB of n PRBs on the first free process, if both are there.
GrantPrbs(c, used, n) ==
  IF HasDemand(c) /\ c.busy # Pids /\ FirstFit(used, n) # NoPrb
  THEN LET p == Lowest(Pids \ c.busy)
       IN  Granted(Committed(c, p, n), used, p, 0)
  ELSE NoGrant(c, used)

GrantNew(c, used) == GrantPrbs(c, used, NeededPrb(c))

\* The metric of PF: what a TB of the whole band would carry of the demand,
\* over the average rate (1 for a UE that had no grant); comparing fractions.
Carried(c) == Lower(TotalUlBuffer(c), Tbs(c.mcs, TotalPrb))

PfPrecedes(c, d) ==
  LET rate(x) == IF x.granted = 0 THEN <<1, 1>> ELSE <<x.granted, x.samples>>
  IN  Carried(c) * rate(c)[2] * rate(d)[1] > Carried(d) * rate(d)[2] * rate(c)[1]

\* The starvation guard of EPF gives at most a reserved share.
GrantShare(c, used, share) ==
  GrantPrbs(c, used, Lower(NeededPrb(c), share))
=============================================================================
