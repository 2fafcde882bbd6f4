----------------------------- MODULE UlScheduler -----------------------------
(***************************************************************************)
(* The uplink scheduler with several UEs (src/enb_ul_scheduler.cpp): one   *)
(* pool of PRBs per TTI, retransmissions first, then new TBs in the order  *)
(* of the algorithm.  The metric of PF is a fraction; where averages are   *)
(* not kept (MaxSamples = 0) its queue, and always that of EPF, whose      *)
(* metric has logarithms, is in any order of the UEs.                      *)
(* All UEs have the same channel quality, that of a UE without a CQI.      *)
(*                                                                         *)
(* Everything else is environment: the SRs and BSRs that announce demand,  *)
(* and the UEs, which answer a grant of TTI t in TTI t + Rtt, after the    *)
(* scheduler has run, with a TB that is decoded or not.                    *)
(***************************************************************************)
EXTENDS Integers, Sequences, FiniteSets, Functions

CONSTANTS
  NofUes, NofProcesses, MaxHarqTx,
  TotalPrb,
  StarveTti,     \* epf_.starve_tti
  MinPrb,        \* min_prb_total: the share of PRBs kept for a starving UE
  MaxSamples,    \* bound: the grants that the average rate of PF counts
  Rtt,           \* TTIs from a grant to its PUSCH, 8 in the code
  Algorithms,    \* bound: the algorithms to choose from
  SrDemands,     \* bound: the bytes that may come with an SR
  BsrDemands     \* bound: the bytes that a BSR may report

ASSUME SchedulerAssumption ==
  /\ {NofUes, NofProcesses, MaxHarqTx, TotalPrb, MinPrb, Rtt} \subseteq Nat \ {0}
  /\ {StarveTti, MaxSamples} \subseteq Nat
  /\ Algorithms \subseteq {"PF", "RR", "EPF"} /\ Algorithms # {}
  /\ SrDemands \union BsrDemands \subseteq Nat \ {0}

Rntis == 1 .. NofUes
Pids  == 0 .. NofProcesses - 1

Ctx == INSTANCE UeSchedContext WITH Lcgs <- {0}

VARIABLES
  algorithm,   \* algorithm_, set before the scenario starts
  phase,       \* the step of the eNB body: "sr", "schedule", "pusch"
  db,          \* ue_db_: the context of each UE
  since,       \* tti_since_sched of each UE, up to one above StarveTti
  rrOffset,    \* rr_offset_, as it is used: modulo the number of UEs
  issued,      \* the grants of the latest TTI that was scheduled
  pipe,        \* grants on their way: the oldest are answered in this TTI
  held,        \* what each UE process holds: its TB, NDI, transmissions
  wait         \* TTIs that a UE has been passed over, for no good reason

vars == <<algorithm, phase, db, since, rrOffset, issued, pipe, held, wait>>

NothingHeld == [ndi |-> FALSE, tb |-> 0, nPrb |-> 0, tx |-> 0]

Init ==
  /\ algorithm \in Algorithms
  /\ phase = "sr"
  /\ db = [u \in Rntis |-> Ctx!NewContext]
  /\ since = [u \in Rntis |-> 0]
  /\ rrOffset = 0
  /\ issued = {}
  /\ pipe = [i \in 1 .. Rtt |-> {}]
  /\ held = [u \in Rntis |-> [p \in Pids |-> NothingHeld]]
  /\ wait = [u \in Rntis |-> 0]
-----------------------------------------------------------------------------
(* schedule_ul                                                             *)

\* The UEs that have a grant in this TTI.
Served(s) == {g.rnti : g \in s.issued}

\* What the TTI has so far with the answer r for UE u, a grant at most.
Take(s, u, r) ==
  [db     |-> [s.db EXCEPT ![u] = r.ctx],
   used   |-> r.used,
   issued |-> s.issued \union {[rnti |-> u, grant |-> g] : g \in Range(r.grants)}]

\* tti_since_sched counts this TTI before it is compared.
Starving == {u \in Rntis : since[u] + 1 > StarveTti}

\* schedule_retx_first: at most one per UE.
RetxTurn(s, u) == Take(s, u, Ctx!GrantRetx(s.db[u], s.used))

\* schedule_epf, phase 3: the share of those that wait too long.
GuardTurn(s, u) ==
  IF u \in Starving \ Served(s)
  THEN Take(s, u, Ctx!GrantShare(s.db[u], s.used, MinPrb)) ELSE s

\* Mutant of NewTurn: a UE with a grant in this TTI may get another.
NewTurnForAll(s, u) == Take(s, u, Ctx!GrantNew(s.db[u], s.used))

\* The last phase of each algorithm: new TBs to those without a grant.
NewTurn(s, u) ==
  IF u \in Served(s) THEN s ELSE Take(s, u, Ctx!GrantNew(s.db[u], s.used))

Turn(kind, s, u) ==
  CASE kind = "retx"  -> RetxTurn(s, u)
    [] kind = "guard" -> GuardTurn(s, u)
    [] kind = "new"   -> NewTurn(s, u)

\* One turn for each UE of the order, with what the turns before it have left.
Round(kind, s, order) ==
  LET after[k \in 0 .. NofUes] ==
        IF k = 0 THEN s ELSE Turn(kind, after[k - 1], order[k])
  IN  after[NofUes]

ByRnti == [u \in Rntis |-> u]

RoundRobin == [k \in Rntis |-> ((rrOffset + k - 1) % NofUes) + 1]

\* By falling metric, UEs of equal metric by RNTI.
InPfOrder(o) ==
  \A j \in Rntis : \A i \in 1 .. j - 1 :
    \/ Ctx!PfPrecedes(db[o[i]], db[o[j]])
    \/ ~Ctx!PfPrecedes(db[o[j]], db[o[i]]) /\ o[i] < o[j]

\* The orders in which an algorithm may visit the UEs.
Orders ==
  LET any == {o \in [Rntis -> Rntis] : IsInjective(o)}
  IN  IF algorithm = "RR" THEN {RoundRobin}
      ELSE IF algorithm = "PF" /\ MaxSamples > 0 THEN {o \in any : InPfOrder(o)}
      ELSE any

\* Retransmissions first, by RNTI; then new TBs, the starving UEs before all.
Scheduled(order) ==
  LET idle    == [db |-> db, used |-> {}, issued |-> {}]
      retx    == Round("retx", idle, ByRnti)
      guarded == IF algorithm = "EPF" THEN Round("guard", retx, order) ELSE retx
  IN  Round("new", guarded, order)

\* Mutant of NextOffset: the round starts at the same UE in every TTI.
SameOffset == rrOffset

NextOffset == IF algorithm = "RR" THEN (rrOffset + 1) % NofUes ELSE rrOffset

\* Mutant of Since: EPF does not count the TTIs.
SinceUncounted(s) ==
  [u \in Rntis |-> IF algorithm = "EPF" /\ u \in Served(s) THEN 0 ELSE since[u]]

\* Only EPF counts the TTIs without a grant; otherwise the counter stays 0,
\* as a retransmission resets what nobody has counted.
Since(s) ==
  [u \in Rntis |->
     IF algorithm # "EPF" THEN since[u]
     ELSE IF u \in Served(s) THEN 0
     ELSE IF since[u] > StarveTti THEN since[u] ELSE since[u] + 1]

Retransmissions(s) == {g \in s.issued : g.grant.rv = -1}

\* A UE is passed over when it has demand and a free process and gets nothing
\* in a TTI in which no retransmission took PRBs.  Counting stops above the
\* longest wait that a property speaks of.
MaxWait == NofUes + StarveTti

PassedOver(s) ==
  {u \in Rntis \ Served(s) : /\ Ctx!HasDemand(db[u]) /\ db[u].busy # Pids
                             /\ Retransmissions(s) = {}}

Schedule ==
  /\ phase = "schedule"
  /\ \E order \in Orders :
       LET s == Scheduled(order)
       IN  /\ db' = s.db
           /\ issued' = s.issued
           /\ since' = Since(s)
           /\ wait' = [u \in Rntis |->
                         IF u \notin PassedOver(s) THEN 0
                         ELSE IF wait[u] < MaxWait THEN wait[u] + 1 ELSE MaxWait]
  /\ rrOffset' = NextOffset
  /\ phase' = "pusch"
  /\ UNCHANGED <<algorithm, pipe, held>>
-----------------------------------------------------------------------------
(* What the scheduler is told                                              *)

\* The SRs of a TTI, each with the bytes the UE has (0: it sends none).
EnbSr ==
  /\ phase = "sr"
  /\ \E bytes \in [Rntis -> SrDemands \union {0}] :
       db' = [u \in Rntis |->
                IF bytes[u] = 0 THEN db[u]
                ELSE Ctx!HandleSr(db[u], [l \in {0} |-> bytes[u]])]
  /\ phase' = "schedule"
  /\ UNCHANGED <<algorithm, since, rrOffset, issued, pipe, held, wait>>

\* A PUSCH, perhaps with a BSR, is received; a TB is discarded after its last
\* transmission.  The TBs of a TTI come in any order.
EnbReceive(m, bytes, crcOk) ==
  LET h == held[m.rnti][m.grant.pid]
      c == IF bytes = 0 THEN db[m.rnti] ELSE Ctx!HandleBsr(db[m.rnti], 0, bytes)
      settled == crcOk \/ h.tx = MaxHarqTx
  IN  /\ phase = "pusch"
      /\ db' = [db EXCEPT ![m.rnti] = Ctx!HandleUlCrc(c, m.grant.pid, settled)]
      /\ held' = [held EXCEPT ![m.rnti][m.grant.pid].tx = IF settled THEN 0 ELSE @]
      /\ pipe' = [pipe EXCEPT ![1] = @ \ {m}]
      /\ UNCHANGED <<algorithm, phase, since, rrOffset, issued, wait>>

\* A UE takes up the TB of a grant, or repeats the one it has.
TakenUp(h, g) == [ndi |-> g.ndi, tb |-> g.tb, nPrb |-> g.nPrb, tx |-> h.tx + 1]

NextTti ==
  /\ phase = "pusch" /\ pipe[1] = {}
  /\ pipe' = Append(Tail(pipe), issued)
  /\ held' = [u \in Rntis |-> [p \in Pids |->
       LET mine == {m \in issued : m.rnti = u /\ m.grant.pid = p}
       IN  IF mine = {} THEN held[u][p]
           ELSE TakenUp(held[u][p], (CHOOSE m \in mine : TRUE).grant)]]
  /\ phase' = "sr"
  /\ UNCHANGED <<algorithm, db, since, rrOffset, issued, wait>>

Next ==
  \/ EnbSr \/ Schedule \/ NextTti
  \/ \E m \in pipe[1], bytes \in BsrDemands \union {0}, crcOk \in BOOLEAN :
       EnbReceive(m, bytes, crcOk)

Spec == Init /\ [][Next]_vars

Phases == {"sr", "schedule", "pusch"}

\* The worker thread of the eNB keeps running: it stays in no phase forever.
FairSpec == Spec /\ WF_phase(phase' \in Phases \ {phase})
-----------------------------------------------------------------------------
(* Properties                                                              *)

TypeOK ==
  /\ phase \in Phases
  /\ \A u \in Rntis :
       /\ db[u].pendingRetx \subseteq db[u].busy /\ db[u].busy \subseteq Pids
       /\ db[u].ulBuffer \in [{0} -> Nat]
       /\ \A p \in db[u].pendingRetx : db[u].harqTb[p] # Ctx!NoTb
       /\ \A p \in Pids : held[u][p].tx \in 0 .. MaxHarqTx
  /\ since \in [Rntis -> 0 .. StarveTti + 1]
  /\ rrOffset \in 0 .. NofUes - 1
  /\ wait \in [Rntis -> 0 .. MaxWait]

PrbsOf(g) == Ctx!PrbRange(g.prbStart, g.nPrb)

\* The grants of a TTI lie inside the band and share no PRB, whatever phase
\* gave them.
PrbsDisjoint ==
  \A m, n \in issued :
    /\ PrbsOf(m.grant) \subseteq 0 .. TotalPrb - 1
    /\ m # n => PrbsOf(m.grant) \cap PrbsOf(n.grant) = {}

\* A UE has one DCI 0 in a TTI: the three phases do not grant to it twice.
OneGrantPerUe == \A m, n \in issued : m.rnti = n.rnti => m = n

\* What a grant means is agreed: with the NDI the UE has seen last it repeats
\* the TB the UE still holds, in the same size and PRBs ("TBS/MCS/PRB locked");
\* with the other NDI it finds the process settled.  None is granted while an
\* answer is on its way.
GrantReadAsMeant ==
  phase = "pusch" =>
    \A m \in issued :
      LET g == m.grant
          h == held[m.rnti][g.pid]
      IN  /\ IF g.ndi = h.ndi
             THEN h.tx > 0 /\ g.tb = h.tb /\ g.nPrb = h.nPrb
             ELSE h.tx = 0
          /\ \A i \in 2 .. Rtt : \A n \in pipe[i] :
               ~(n.rnti = m.rnti /\ n.grant.pid = g.pid)

\* Round robin: among TTIs without retransmissions, a UE with demand and a
\* free process is not passed over by more than the others.
RrBoundedWait == algorithm = "RR" => \A u \in Rntis : wait[u] < NofUes

\* EPF: nor is a UE passed over longer than starve_tti, as long as the shares
\* of all UEs fit the band.
EpfBoundedWait ==
  (algorithm = "EPF" /\ NofUes * MinPrb <= TotalPrb) =>
    \A u \in Rntis : wait[u] <= StarveTti

Unserved(u) == Ctx!HasDemand(db[u]) /\ \A m \in issued : m.rnti # u

\* EPF starves nobody, retransmissions or not: a UE with demand gets a grant.
EpfServes ==
  \A u \in Rntis : (algorithm = "EPF" /\ Unserved(u)) ~> ~Unserved(u)

\* "Simple fair rotation, every UE gets the same chances."
RrServes ==
  \A u \in Rntis : (algorithm = "RR" /\ Unserved(u)) ~> ~Unserved(u)

\* Proportional fairness starves nobody, as long as all have the same channel:
\* a UE with demand gets a grant.  Stated of UE 1, which wins every tie, so that
\* rounding in the metric, which may break a tie, plays no part.
PfServes == (algorithm = "PF" /\ Unserved(1)) ~> ~Unserved(1)
-----------------------------------------------------------------------------
(* The inductive invariant: for each process of each UE, one place holds   *)
(* what is under way - the grant issued, its answer, the retransmission -  *)
(* and the two ends remember the same TB.                                  *)

TbRecords == [tbs : Nat, nPrb : 0 .. TotalPrb]

Contexts ==
  [mcs : {Ctx!NewContext.mcs}, srPending : BOOLEAN, ulBuffer : [{0} -> Nat],
   busy : SUBSET Pids, pendingRetx : SUBSET Pids, ndi : [Pids -> BOOLEAN],
   harqTb : [Pids -> TbRecords], samples : Nat, granted : Nat]

Grants ==
  [pid : Pids, ndi : BOOLEAN, rv : {-1, 0}, tb : Nat, prbStart : 0 .. TotalPrb - 1,
   nPrb : 1 .. TotalPrb]

Messages == [rnti : Rntis, grant : Grants]

HeldTbs == [ndi : BOOLEAN, tb : Nat, nPrb : 0 .. TotalPrb, tx : 0 .. MaxHarqTx]

StateTypes ==
  /\ algorithm \in Algorithms /\ phase \in Phases
  /\ db \in [Rntis -> Contexts]
  /\ since \in [Rntis -> 0 .. StarveTti + 1]
  /\ rrOffset \in 0 .. NofUes - 1
  /\ issued \subseteq Messages
  /\ pipe \in Seq(SUBSET Messages) /\ Len(pipe) = Rtt
  /\ held \in [Rntis -> [Pids -> HeldTbs]]
  /\ wait \in [Rntis -> 0 .. MaxWait]

IsFor(m, u, p) == m.rnti = u /\ m.grant.pid = p

\* The TB of a grant, and the one a UE holds, as the scheduler remembers it.
Remembers(c, p, ndi, tb, nPrb) ==
  c.ndi[p] = ndi /\ c.harqTb[p] = [tbs |-> tb, nPrb |-> nPrb]

Holds(u, p) ==
  LET h == held[u][p]
  IN  h.tx > 0 /\ Remembers(db[u], p, h.ndi, h.tb, h.nPrb)

NotOnWay(u, p) == \A i \in 1 .. Rtt : \A m \in pipe[i] : ~IsFor(m, u, p)

NotIssued(u, p) == phase = "pusch" => \A m \in issued : ~IsFor(m, u, p)

IsSettled(u, p) ==
  /\ p \notin db[u].busy /\ p \notin db[u].pendingRetx
  /\ NotOnWay(u, p) /\ NotIssued(u, p)
  /\ held[u][p].tx = 0 /\ held[u][p].ndi = db[u].ndi[p]

IsDue(u, p) ==
  /\ p \in db[u].busy /\ p \in db[u].pendingRetx
  /\ NotOnWay(u, p) /\ NotIssued(u, p)
  /\ Holds(u, p) /\ held[u][p].tx < MaxHarqTx /\ held[u][p].nPrb > 0

IsGranted(u, p) ==
  /\ p \in db[u].busy /\ p \notin db[u].pendingRetx
  /\ NotOnWay(u, p) /\ phase = "pusch"
  /\ \E m \in issued : /\ IsFor(m, u, p)
                       /\ Remembers(db[u], p, m.grant.ndi, m.grant.tb, m.grant.nPrb)
  /\ \/ held[u][p].tx = 0 /\ held[u][p].ndi # db[u].ndi[p]
     \/ Holds(u, p) /\ held[u][p].tx < MaxHarqTx

\* The message is the only one of the process.
IsOnWay(u, p) ==
  /\ p \in db[u].busy /\ p \notin db[u].pendingRetx
  /\ NotIssued(u, p)
  /\ Holds(u, p) /\ held[u][p].nPrb > 0
  /\ \E i \in 1 .. Rtt : \E m \in pipe[i] :
       /\ IsFor(m, u, p)
       /\ \A j \in 1 .. Rtt : \A n \in pipe[j] : IsFor(n, u, p) => j = i /\ n = m

Stage(u, p) ==
  IsSettled(u, p) \/ IsDue(u, p) \/ IsGranted(u, p) \/ IsOnWay(u, p)

\* TTIs since the UE was the first in the round.
SinceFirst(u) == IF rrOffset >= u THEN rrOffset - u ELSE rrOffset - u + NofUes

WaitsOK ==
  /\ algorithm = "RR" => \A u \in Rntis : wait[u] <= SinceFirst(u)
  /\ algorithm = "EPF" /\ NofUes * MinPrb <= TotalPrb =>
       \A u \in Rntis : wait[u] <= since[u] /\ wait[u] <= StarveTti

\* Whatever algorithm runs, the scheduler and each UE agree on every process:
\* what is under way for it, its NDI, its TB; and no UE waits for longer than
\* its place in the round, or the guard, allows.
SchedInv ==
  /\ StateTypes /\ OneGrantPerUe /\ PrbsDisjoint /\ WaitsOK
  /\ \A u \in Rntis, p \in Pids : Stage(u, p)
=============================================================================
