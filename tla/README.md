# Verification of the uplink MAC simulation

TLA+ modules that model `ul_mac`, TLC configurations that check them on small
instances, and TLAPS proofs that hold for every instance. The reference is the
code: every definition translates the lines that `PROJECT.json` names under
`map`. Paths below are relative to the repository.

Contents: [the system](#1-the-system) · [the modules](#2-modules-and-code) ·
[runs and bounds](#3-what-the-runs-check) · [fairness](#4-fairness) ·
[proofs](#5-what-is-proved) · [findings](#6-where-code-and-documents-disagree) ·
[limits](#7-what-is-not-modelled) · [plan](#8-plan)

## 1. The system

A simulation of LTE uplink user management. One thread per UE and one for the
eNB run a body in each TTI; a central clock keeps them in step; everything they
tell each other goes through channels that deliver four TTIs later.

```
        clock: announce TTI, wait for all          (tti_channel.h, run_tti_worker)
   UE thread                                 eNB thread
   PHICH -> HARQ, restore                    PUCCH -> handle_sr
   snapshot, arrivals                        schedule_ul -> grants (PDCCH)
   BSR step, SR step -> PUCCH                PUSCH -> unpack BSR, receive_tb
   grant -> HARQ, pack, consume -> PUSCH          -> PHICH, handle_ul_crc
```

| Component | State it keeps | Operations | Correct means |
|---|---|---|---|
| TTI clock and worker loop | `current_`, `done_count_`, `done_`, where each thread is, who sleeps on the condition variable | `run`, `wait_for_tti`, `mark_tti_done`, `run_tti_worker` | nobody works on a TTI that is not open, no TTI is skipped, no wake-up is lost |
| Timed channels | FIFO of messages with their sending TTI | `enqueue`, `dequeue`, `ready` | order kept, nothing visible early |
| UE HARQ processes | state, TB, NDI, RV, transmission count, feedback, limits | `new_grant_ul`, `handle_harq_feedback`, `reset`, `set_config`, `set_early_termination_enabled` | both ends agree what each transmission is and what became of each TB |
| eNB HARQ receiver | NDI, count and soft buffer per process | `receive_tb` | only transmissions of one TB are combined |
| UL scheduler | per UE: demand per LCG, SR flag, busy processes, retransmissions due, TB records, NDIs, CQI, average rate, TTIs without a grant; the PRB pool; the round-robin offset | `handle_sr`, `handle_bsr`, `handle_cqi`, `handle_ul_crc`, `schedule_ul` (PF, RR, EPF) | PRBs are given once, grants are readable, nobody with demand starves |
| UE context | the components below, the last PDU, the grants to send | `handle_harq_feedback`, `begin_tti_snapshot`, `data_arrived`, `run_tti`, `process_ul_grant` | data goes out once and is not forgotten |
| SR manager | state, counter, prohibit timer, last SR | `start`, `step`, `notify_ul_grant_received`, adaptation | an SR is pending exactly when a report needs a grant |
| UE BSR manager | trigger, periodic and retx timer | `step`, `need_to_send_bsr_on_ul_grant`, `generate_padding_bsr`, `update_bsr_tti_end` | data the eNB does not know of is reported |
| LCG buffers | old and new bytes per logical channel, token buckets | `update_buffer_state`, `step_token_buckets`, `consume_data`, `restore_data` | bytes are accounted for and served by bit rate and priority |
| eNB BSR manager | a view of the UE's buffers | `receive_bsr` | the view follows the reports |
| MAC PDU codec | none | `pack`, `pack_bsr_only`, `unpack` | what is packed is unpacked |
| Tables | none | BSR levels, RV sequence, MCS/TBS, QoS weights | conversions agree at both ends |
| Metrics, logger | counters, text | | nothing in the MAC reads them |

What is hard here: the clock is a hand-made barrier on one condition variable
(lost and spurious wake-ups, a counter reset under a lock); the two HARQ ends
and the scheduler each keep a copy of the same state and update it four TTIs
apart; SR, BSR and their timers interact with grants that were issued for another
reason; transmissions fail at any time; PRBs and processes run out; and fairness
is a matter of many TTIs. `PROJECT.json` lists these hazards at their lines,
each with the properties that watch it.

## 2. Modules and code

The clock:

* `TtiLockstep`: the abstract promise of the clock. A TTI opens when all workers
  have finished the one before.
* `TtiClock`: `tti_clock` and `run_tti_worker`. One action per critical section
  and one per `notify_all`, which happens outside the lock; a wait is a guard plus
  membership in `sleeping`, and `SpuriousWakeup` may end it at any time. A body is one
  step, which may throw. `MCTtiClock` is its instance for TLC, `TtiClockProofs` holds the proofs.

The HARQ loop:

* `UeHarqProcess`, `EnbRxProcess`: the two ends of a process as operators on a record,
  one operator per method of the code.
* `TimedChannel`: a channel as a sequence of messages that count the TTIs they still
  have to wait. The code compares a stored TTI with the reader's clock, which is the
  same as long as both move together; this is what `TtiClock` establishes.
* `HarqLoop`: the two bodies, reduced to HARQ, one action per message and with the
  UE's and the eNB's steps interleaved at will inside a TTI. It `INSTANCE`s the three
  above. A TB is identified by a number, so that mixing up two TBs is visible.
* `UeHarqManager`: the UE's HARQ entity on its own, under every call of its interface:
  grants without an NDI, for Msg3, of size 0 and with an explicit RV, feedback that is
  late or repeated, reset, and limits and the early-termination switch that change at
  any time. Four history variables say what was really sent (`open`, `sent`, `lastRv`,
  `limit`) and one what was dropped. `UeHarqManagerProofs` holds its proofs.
* `HarqTransfer`: the abstract promise. Each TB is sent, decided once by the eNB, and
  the UE learns that very decision. `HarqLoop` implements it.
* `HarqLoopProofs`: what the channels, feedback, grants and transmissions do to the
  messages of a process; the inductive invariant action by action, the properties and
  the refinement.

The data path:

* `Amounts`: bytes for each channel or LCG, served in order of priority.
* `BsrTable`, `LcgBuffer`, `SrManager`, `BsrManager`, `MacPdu`: one class or table each, as
  operators on a record; `MacPdu` works on bytes, `LcgBuffer` has the token buckets and
  both phases of `consume_data` for any set of channels.
* `McsTbs`: MCS from SNR and CQI, and the size of a TB.
* `UeSchedContext`: what the scheduler keeps of one UE, and the two kinds of grant.
* `UplinkData`: one UE from arriving packet to decoded TB, composed of all of the
  above; `MCUplinkData` gives it channels. Three history variables: `owed`, the bytes that
  arrived and were not decoded, `payload`, the bytes in each TB, and `invented`, the
  bytes that discarded TBs gave back beyond those.
* `UplinkDataLemmas`, `UplinkDataInvariant`, `UplinkDataProofs`: what each procedure does to its
  record; the inductive invariant, part by part and action by action; the theorems.

The scheduler:

* `UlScheduler`: `schedule_ul` for several UEs, on `UeSchedContext`. A phase of a TTI
  (`Round`) is a recursive function over the turns of the UEs in the phase's order. The
  UEs are environment: they announce any demand and answer a grant `Rtt` TTIs later with
  success or failure.
* `UlSchedulerProofs`: what one TTI of the scheduler gives to whom, and the inductive
  invariant.

What the proofs of several components need is in `ProofLibrary`, which they instantiate: least
and greatest naturals, and induction up to a bound for a set of numbers, which takes no operator
as a parameter; sums over finite sets; bytes served in order of priority (`Amounts`); the bits of a
PRB (`McsTbs`); and what each step of a `TimedChannel` does to its messages.

Simplifications that keep the control as it is:

* In `UplinkData` the UE body runs before the eNB body. They share nothing but
  channels with a delay of at least one TTI, so the order cannot be observed;
  `HarqLoop` leaves it open.
* A logical channel is named by its rank in priority, and no two share a priority: the
  order of `std::sort` among equals would be open. Token counts are integers, as bit
  rates are; a bit rate of 0 adds no token, which is how the code skips the channel.
* `EPF`'s metric has logarithms and powers. `UlScheduler` lets its queue have any order, so
  what it shows holds for any metric. The metric of PF is kept as an exact fraction where
  `MaxSamples` is above 0; in the other runs its queue has any order too.
* `handle_cqi` stores the CQI and every grant computes the MCS from it; the model
  stores the MCS. `ul_snr` is 200 for every UE, since nothing sets it.
* The smoothed rate in `adjust_sr_period` has a logarithm: the period asked for is any of
  `NewSrPeriods`, at any time; hysteresis and clamp are as in the code.
* `age` in `SrManager` replaces a TTI stamp and stops at the longest period, the only values
  it is compared with.
* One process is enough in the run of `UeHarqManager`: processes share nothing but the
  configuration, the switch and `reset`.
* `since` and `wait` in `UlScheduler` stop one above the largest number they are
  compared with.

## 3. What the runs check

Each run asks one question. Numbers are distinct states.

| Run | Configuration | Shows | States |
|---|---|---|---|
| `clock` | 3 workers, TTIs 0..2, spurious wake-ups | `Lockstep`, `NoTtiLost`, `CountIsMarked`, `Termination`, and that the clock implements `TtiLockstep` | 4 thousand |
| `harq` | delay 4 as in the code, 2 processes, 3 transmissions, 3 TBs, PRBs withheld at will | `StopAndWait`, `SentIsHeld`, `GrantReadAsMeant`, `FeedbackIsAwaited`, `SoftBufferPure`, the inductive invariant `LoopInv`, and that the loop implements `HarqTransfer` | 431 thousand |
| `harq_live` | delay 4, 2 processes, 2 transmissions, PRBs always free | every TB is settled, every process freed, the fair `HarqTransfer` is implemented | 66 thousand |
| `harq_unit` | 1 process, limits 1 to 3, TBs of two sizes, up to 5 transmissions | `PendingIffOpen`, `RvContinues`, `DiscardJustified`, the inductive invariant `ManagerInv` | 37 thousand |
| `data` | 3 channels with bit rates in 2 LCGs; 2 packets, 2 lost transmissions, a CQI report, delay 2, all timers running, an SR that gives up after two attempts and whose period follows the traffic | the inductive invariant `DataInv`, `BytesBalance`, `LcpHonoured`, `SrGoesWithRegular`, `NoProbe`, `ReportCovers`, `PduRoundTrip`, `TbIsLocked`, `GrantHoldsDemand`, `EventuallyDrained` | 548 thousand |
| `sched` | 2 UEs, 2 PRBs, 2 processes, PF, RR and EPF | `PrbsDisjoint`, `OneGrantPerUe`, `GrantReadAsMeant`, `RrBoundedWait`, `EpfBoundedWait`, the inductive invariant `SchedInv`, `EpfServes` | 441 thousand |

The six other runs (`harq_pdu`, `harq_early`, `data_report`, `data_restore`, `sched_rr`,
`sched_pf`) each show one statement of the documentation to be false of the code; see section 6.

Why these bounds are enough to mean something:

* `clock`: three TTIs contain a first, a middle and a last one, and three workers
  leave one fast, one slow and one in between. The proofs remove both bounds.
* `harq`: three TBs on two processes force a process to be used again, and the third
  transmission is both a retransmission of a retransmission and the last. The delay
  is the real one because the questions are about what crosses in the air.
* `harq_unit`: limits 1, 2 and 3 are one above and one below each other, so that a change in
  flight can cross the count from either side; five transmissions are more than any limit
  and more than the four RVs. Early termination needs three NACKs, which repeated
  feedback gives at the second transmission.
* `data`: a PRB carries 10 bytes at first and 15 after the CQI report. A packet has 9 bytes,
  which is not a level of the BSR table; its level, 10, is exactly what a PRB carries. Two
  packets in two LCGs leave two bytes of padding, where only a truncated report fits, so
  that short, long and truncated reports all occur. Two lost transmissions with two per TB
  give a discarded TB. The first channel has an LCG for itself, the two others share one;
  each has a bit rate and a bucket of two or three TTIs' worth, so that a bucket can be
  empty, filling and full, and both phases of `consume_data` cut a channel short. The SR is
  sent in successive TTIs and gives up before its grant is there; the periods asked for lie
  within and above those allowed. All of this was seen to happen, by checking that it does not.
  The scenarios set no bit rates; the runs `data_report` and `data_restore` have none.
* `PduRoundTrip` packs, behind each report the UE makes, an SDU of every size up to the
  TB and a second that has to be cut, so that 0, 1, 2 and more bytes remain.
* `sched`: demand 15 on PRBs of 10 bytes needs two PRBs, the whole band, so two UEs
  always compete; MinPrb times the UEs fits the band, as 10 of 100 PRBs do in the code
  for up to ten UEs. `StarveTti` is 1 so that the guard acts within the state space.
* `sched_pf`: the average counts one grant (`MaxSamples`). In the counterexample all grants
  of a UE have the same size, so that the average is what the code computes; with two
  counted grants the property is violated too.
* Bounds on the environment (`MaxTb`, `MaxArrivals`, `MaxCrcErrors`, `Cqis`, `SrDemands`,
  `BsrDemands`, `NewSrPeriods`, `MaxSent`, `MaxTxs`, `Algorithms`) are named and commented where they are declared.

Every property has a mutant: an operator next to the one it replaces, with a bug
that could have been written there (a barrier that opens early, an NDI that is not
toggled, a run of PRBs past the band, a round that always starts at the same
UE), under which TLC finds the property violated.

## 4. Fairness

* `TtiClock`: weak fairness of the clock thread and of each worker, because the
  operating system runs a thread that is not blocked. A spurious wake-up is owed to
  nobody. A body ends: it has no loop but over finite queues.
* `HarqLoop`: weak fairness of the two bodies and of the TTI boundary; `TtiClock`'s
  `Termination` is why these are justified. Nothing is assumed of the channel: a CRC may
  fail whenever it can. `PrbContention` is off in `harq_live`, since a UE that never gets PRBs
  cannot be promised anything; `sched` is about that.
* `UplinkData` and `UlScheduler`: the body stays in no step of the TTI forever. Losses
  are bounded by `MaxCrcErrors` in `UplinkData`; in `UlScheduler` they may go on forever.

## 5. What is proved

All five specifications have an inductive invariant that is proved for every value of the
constants. TLC checks each invariant on the run of its module; the theorems remove the
bounds. Every safety property of the runs `clock`, `harq`, `harq_unit` and `sched` is a
theorem, all but `PduRoundTrip` of the run `data`, and both refinements without fairness.

### The clock (`TtiClockProofs`)

For any finite nonempty set of workers, a clock that is none of them and any `MaxTti` in
`Nat` (`ClockAssumption`):

| Theorem | Statement |
|---|---|
| `ClockSafe` | `Spec => []ClockInv` |
| `ClockTypeOK` | type correctness; `done_count_` never exceeds the number of workers |
| `ClockLockstep` | a worker that works is at the announced TTI |
| `ClockNoTtiLost` | no worker leaves its loop before the last TTI |
| `ClockCount` | `done_count_` is the number of workers that reported the announced TTI |
| `ClockImplementsLockstep` | the clock implements `TtiLockstep` |

`Lockstep` is not inductive: it does not say that a worker which waits is at the
announced TTI or has just finished it, nor how the count relates to the workers.
`ClockInv` adds both. `PlacesOK` says where the clock and each worker stand against the
announced TTI, including a worker that is still inside the `notify_all` of the TTI
before, and `CountIsMarked` makes the count the cardinality of the workers that have
reported. The barrier opens when the count reaches the number of workers; a subset of a
finite set with as many elements is the set (`MarkedBound`), so all have reported and
the next TTI can be announced without leaving anybody behind. There is one lemma per
action; the refinement then needs only to know what each action does to the
announced TTI and to the set of workers that have reported.

### The HARQ entity (`UeHarqManagerProofs`)

For any number of processes, any set of limits and of TBs, and any number of
transmissions counted (`ManagerAssumption`):

| Theorem | Statement |
|---|---|
| `ManagerSafe` | `Spec => []ManagerInv` |
| `ManagerTypeOK` | type correctness; the count of a process is what was sent |
| `ManagerPendingIffOpen` | `has_pending_transmission` is true exactly while a TB is neither acknowledged nor given up |
| `ManagerRvContinues` | the next RV follows the one sent last |
| `ManagerDiscards` | an action property: a TB is given up once, never after its ACK, and only when its limit or early termination allows it |

`ManagerInv` ties the history to the record, process by process (`Remembered`): open is in
flight, the count is the transmissions, the limit is the one of the latest grant, and the
index into the RV sequence is behind the RV sent last. The last is what an adaptive grant
with an RV of its own could break, and the third what a change of configuration could.
`dropped` needs no invariant: the action property follows from `Remembered` and the one
action that discards.

### The HARQ loop (`HarqLoopProofs`)

For any number of processes, transmissions and TBs, any delay of at least one TTI, with or
without PRB contention (`LoopAssumption`). Hypothesis of each theorem:
`NeverEarly`, early termination is off or no TB has more than three transmissions. It is what
the code runs with (off, and four transmissions); without it the properties are false, and
the run `harq_early` shows how.

| Theorem | Statement |
|---|---|
| `LoopSafe` | `Spec => []LoopInv` |
| `LoopTypeOK` | type correctness of both ends |
| `LoopStopAndWait` | a process has one thing under way exactly while it is busy |
| `LoopSentIsHeld` | a TB whose fate the UE does not know is held by a process |
| `LoopGrantReadAsMeant` | a grant is read as it was meant, new or repeated |
| `LoopFeedbackIsAwaited` | a feedback finds its process waiting for it |
| `LoopSoftBufferPure` | one TB in each soft buffer, counted alike at both ends |
| `LoopImplementsTransfer` | the loop implements `HarqTransfer` |

None of these is inductive: each speaks of one end at the moment it reads a message that
the other end sent `Delay` TTIs ago. `LoopInv` follows the message instead. A process is in
one of four stages - free, a new TB granted, a TB on the air or in its grant, a
retransmission due - and each stage says which single message is in which channel, and
what NDI, TB and count the UE, the eNB receiver and the scheduler have. A channel
is a sequence of messages ordered by age (`Sorted`) with at most one of each process
(`AtMostOne`); where a PHICH message and a grant of the same process cross in the air, the
stage says that the feedback is older, so that the UE takes it first. `AgesOK` says what the
step of each body has already taken from its channels in this TTI, which is why every
message is taken in the TTI it becomes visible. `TbsOK` ties the verdicts on a TB to
the process that has it. The refinement maps each action to a step of `HarqTransfer` or
a stutter, from what the invariant says about the TB in the message.

### The scheduler (`UlSchedulerProofs`)

For any number of UEs and processes, any band, round-trip delay, demand, share and
`starve_tti`, and any set of algorithms (`SchedulerAssumption`):

| Theorem | Statement |
|---|---|
| `SchedSafe` | `Spec => []SchedInv` |
| `SchedTypeOK` | type correctness; a retransmission that is due has its TB record |
| `SchedPrbsDisjoint` | the grants of a TTI are inside the band and share no PRB |
| `SchedOneGrantPerUe` | no UE has two grants in a TTI |
| `SchedGrantReadAsMeant` | a grant repeats the TB the UE holds, in its size, or finds the process settled |
| `SchedRrBoundedWait` | round robin passes a UE over at most as often as there are others |
| `SchedEpfBoundedWait` | EPF passes a UE over for at most `starve_tti` TTIs |

One TTI is proved first, for any order of the UEs. `TtiOK` says of the turns so far that the
PRBs in use are those of the grants, side by side in the band, that each UE has one grant at most,
and that its context is the old one with that grant (`TbGranted`) or the old one. Each turn
keeps it: `FirstFitIsFree` for the PRBs, `RetxAnswers` and `NewAnswers` for the two kinds of
grant, then induction over the turns (`RoundTurns`, `RoundOK`). Across TTIs, `SchedInv` puts each
process of each UE in one of four stages: settled, due, granted, on its way. The NDI
and the TB of both ends agree in each, and a message on its way is the only one of its process.

The waits need more than the property says. Under round robin a UE's wait is at most
the number of TTIs since it was first in the round (`SinceFirst`), since the first of a round
finds all PRBs free when no retransmission took any (`RrServesFirst`); the round comes
back to it after as many TTIs as there are UEs. Under EPF the wait is at most
`tti_since_sched`: a UE that has waited for longer than `starve_tti` is served by the guard,
since the shares given before its turn occupy the first PRBs without a gap
(`FirstFitPacks`) and all shares fit the band (`EpfServesStarving`). That holds while
`NofUes * MinPrb <= TotalPrb`, which the property names.

### The data path (`UplinkDataLemmas`, `UplinkDataInvariant`, `UplinkDataProofs`)

For any number of channels, LCGs and processes, any bit rates and buckets, any delay of at
least one TTI, any timers, packet sizes and CQIs, with or without an SR resource
(`DataAssumption`):

| Theorem | Statement |
|---|---|
| `DataInvHolds` | `Spec => []DataInv` |
| `TypesOK` | type correctness; only a busy process waits for a retransmission |
| `BytesBalanceHolds` | every byte that arrived is in a buffer, in a TB or decoded, up to those that discarded TBs invent |
| `TbIsLockedHolds` | a retransmission has the size of the TB that the UE holds |
| `NoProbeHolds` | with an SR pending, the scheduler knows of data |
| `GrantHoldsDemandHolds` | an action property: a new grant holds the demand it was made for, or takes the band |
| `LcpHolds` | an action property: a TB is filled by bit rate and then by priority |
| `ReportCoversHolds` | what a report says of an LCG covers what its channels hold, up to the last level, and is the lowest level that does |
| `SrHasReasonHolds` | an SR is pending only while a Regular BSR is triggered |
| `SrGoesWithRegularHolds` | an action property: a Regular trigger has its SR until the last attempt, and a grant with room for the report ends both |

`DataInv` has three parts, kept in this order.

* `DataTypes`: what there is, and `SrHasData`: a UE whose SR is pending has data, and so
  has its context at the eNB. The second needs the first: an SR carries the buffers of the moment
  it is sent, and between SR and grant nothing takes data away but the grant that answers the SR.
  `NoProbe` follows.
* `LoopInv`: each process is in one of five stages - free, granted, on the air, due for a
  retransmission, repeated - in which one channel at most has a message of it, and NDI, TB size
  and count of the UE, the eNB and the scheduler agree; `IsFree` and `IsGranted` also say that the UE
  knows the fate of the TB before, or will be told by a PHICH message older than the grant.
  `TbIsLocked` follows. It is the argument of the HARQ loop, with the sizes and bytes of TBs
  in place of their names.
* `PayloadFits` and `BytesBalance`. The balance alone is not inductive: that a decoded TB takes
  off `owed` what it put there needs that the payload of a process is 0 before it starts a new
  TB, which is what `Decided` says in `LoopInv`, and that a discarded TB gives back no less than it
  carried is `PayloadFits`. A step changes what one process carries, so that the sum over all
  changes by that (`SumChange`).

That a Regular trigger always has its SR is not true: an SR gives up after `dsr_transmax`
attempts and leaves the trigger alone, and a grant of two or three bytes ends the SR with a
truncated report that keeps the trigger. `SrGoesWithRegular` therefore speaks of the steps: a
trigger that no SR asks for comes only from one of these, or from a TTI whose grant will carry
the report. `SrHasReason` is inductive and gives the other direction. The rest follows from what
each procedure does to the trigger (`RegularAsks`, `GrantEndsRegular`) and to the SR
(`SrKeepsTrying`), put together in `RunTtiKeepsSr` and `GrantWithRoom`.

`LcpHonoured` follows `lcg_buffer.h:249` for a channel of bit rate 0 beside channels with one: it
has no tokens and is served in the second phase only. Line 225 and `PROTOCOL_NOTES.md:395` call
rate 0 no limit at all, which would put it first. The theorem says what the code does there; the
run has no such channel, so that nothing is checked against a reading the documents dispute.

The sums are folds of the community modules, which are recursive functions over finite sets.
`ProofLibrary` shows that such a sum exists, is unique and is split at any element (`SumExists`,
`SumUnique`, `SumSteps`), by induction on cardinality over a set of numbers. `TakenInOrder` and
`TakenSum` say what is taken from amounts in order of priority, and with them both phases of
`consume_data` are summed up in `ConsumeStep` and `ConsumeInOrder`. Unpacking a PDU is a recursive
function of the position; `ReadingExists` shows that it is one for every PDU, so that any
sequence of bytes is read as a report or none (`UnpackedReport`), and what a wrong PDU does to the
eNB's view is covered by the invariant (`harq_pdu` shows that wrong PDUs occur).

### Checked by TLC only

* All liveness (`Termination`, `EveryTbSettled`, `EveryPidFreed`, `ImplementsFairTransfer`,
  `EventuallyDrained`, `EpfServes`): TLAPS does not prove fairness or `ENABLED` here.
* `PduRoundTrip`: reading back what was packed goes through `FlattenSeq` and `FoldLeft` over the parts of a
  PDU, which for every PDU is induction over data. It is not true for all constants either: the
  length field has seven bits (`mac_pdu.cpp:153`), and the TBs of the runs stay below 128 bytes.

## 6. Where code and documents disagree

Each is a run that ends in a counterexample.

* `data_restore`: the bytes of a discarded TB are put back before the snapshot of
  the TTI, so nothing looks new and no Regular BSR is triggered. If the grant held all
  the data, no report was ever sent and the retxBSR-Timer does not run: the bytes wait
  until other data comes. The comments promise a new Regular BSR.
* `data_report`: the BSR index rounds up, so the eNB takes 13 bytes for 14.
  `enb_bsr_manager.cpp:57-58` and `docs/ENB_UE_DUALITY.md:47-48` and `:129-136` say that it sees a
  lower bound and never more than the UE has; `README.md:200`, `PROTOCOL_NOTES.md:227` and
  `:593` and `LEARNING_PATH.md:1337` say that the index rounds down, and list rounding up as a
  defect that was fixed. `common_types.h:365-369` and `tests/test_main.cpp:896-908` say that it
  rounds up; this is what `ReportCovers` checks in the run `data`.
* `harq_pdu`: a UE keeps one PDU for all processes. A retransmission carries
  the PDU packed last, maybe for another TB.
* `harq_early`: with early termination on, the UE gives up a TB that the eNB goes on
  asking for. The next retransmission finds the process idle and is read as a new
  TB, which the eNB combines with the old one. The switch is off by default and only
  tests turn it on; `docs/ENB_UE_DUALITY.md` calls it a local optimisation.
* `sched_rr`: round robin is said to give every UE equal chances. Retransmissions go
  before the rotation and return after a fixed time; they can take the turn of the
  same UE each time. The run shows it on a small instance. A simulation of the same
  rules with the parameters of the code (8 processes, 8 TTIs, grants of the full
  band) shows it with four to six UEs when the first transmission of one of
  them always fails: another UE got one or two grants in 4000 TTIs. With two or three
  UEs it did not occur.

* `sched_pf`: the average rate of PF changes only with a grant, so the metric of a UE that
  is passed over never rises, and a UE whose small demand lost once to larger ones
  loses for good, on the same channel. The code itself, driven with five
  UEs of full buffers and equal channels for 2000 TTIs, gave 1523, 384, 31, 31 and 31 grants;
  `README.md:355` expects rates within 30 %.

Met on the way and not made a run. Two of them touch a property: `BytesBalance` counts the bytes
of the second as `invented` instead of hiding them, and `LcpHonoured` is checked without the mixed
rates of the third. On the others no property of a run depends.

* `common_types.h:36` says that eight processes fill the 8 ms round trip. The eNB schedules
  before it receives, so a process granted in TTI t can be granted again in t + 9
  and the ninth TTI of a continuous flow finds none free.
* `lcg_buffer.h:279` calls the argument of `restore_data` the bytes that the discarded TB
  carried. It is the size of the TB, padding included: `BytesBalance` counts the rest as
  `invented`.
* `lcg_buffer.h:225` and `PROTOCOL_NOTES.md:395` say that a bit rate of 0 is as good as an infinite
  one. Beside channels with a bit rate, such a channel skips the first phase instead, as
  line 249 has it: the others go first, whatever their priority.
* `ue_ul_harq_manager.h:169` says that early termination is on by default; the constructor
  turns it off. `README.md:235` wants two retransmissions before it, the code two
  transmissions.
* A comment on `apply_phich_feedback` restricts it to a TB in flight that has had no
  feedback. A second NACK is applied and may discard. In the loop it never comes
  (`FeedbackIsAwaited`).
* A retransmission without an NDI does not clear `feedback_received_`: another can follow
  without a new NACK.
* Consecutive NACKs are counted also when the process is idle, and a new TB does not reset
  the count.
* The PRBs of a grant are counted with the bytes of one PRB, rounded down; for some MCSs a
  PRB fewer would have held the demand.
* `mac_pdu.h:72` says that `pack` orders SDUs by priority, `pack` takes them in the order
  given; `mac_pdu.cpp:153` cuts the length of an SDU to seven bits, a limit its comment
  names.

## 7. What is not modelled

* Metrics, logging, statistics and printed reports: nothing reads them back.
* The SNR decoder: a CRC outcome is free, which allows whatever an SNR that changes at
  will allows. PHR and DL fields of the scheduler: nothing reads them.
* `g_strict_3gpp_mode`: it turns the adaptation of the SR period off, as `NewSrPeriods = {}`
  does, and is set before a scenario starts. (Its comment in `common_types.h` promises
  more; nothing else reads it.)
* `set_config` and `reset` of the SR and BSR managers, `remove_ue` and `reset_ue`: no scenario
  calls them while the threads run; `UeHarqManager` covers those of the HARQ entity.
* The EPF metric: floating point with logarithms and powers; any order stands for it.
* Scenarios 2 and 5 receive the PUSCH of several UEs in parallel tasks within a TTI. Each
  touches the state of its own UE only, under the lock of each component; `UlScheduler`
  receives them in any order.
* Several UEs with buffers of their own: the data path of one UE with the scheduler, and
  the scheduler of several UEs with an open environment, meet in `UeSchedContext`; the
  product of the two is out of TLC's reach at sizes where anything happens.
* Wrap-around of the TTI (10240): the scenarios are shorter.

## 8. Plan

Done: clock, HARQ entity, HARQ loop, data path and scheduler, checked and proved.

To prove next, in this order:

1. `PduRoundTrip` for TBs below 128 bytes. The PDUs of the property have few parts, so that the
   sequences can be written out part by part; what is missing are lemmas on `FlattenSeq` and
   `FoldLeft` for so many.
2. `HarqLoop` and `UplinkData` prove the same stages of a process, one with names for TBs and one
   with sizes. A common abstraction of the two would halve the proofs.
