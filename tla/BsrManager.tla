----------------------------- MODULE BsrManager -----------------------------
(***************************************************************************)
(* The UE's buffer status reporting (src/ue_bsr_manager.cpp) as operators  *)
(* on a record: the pending trigger and the two timers.  A report (bsr_ce) *)
(* maps the LCGs it names to their 6-bit index.                            *)
(***************************************************************************)
EXTENDS Integers, FiniteSets

CONSTANTS
  Channels, Lcgs, LcgOf, Pbr, BucketSize,   \* as in LcgBuffer
  PeriodicTimer,   \* periodic_timer, 0 means never
  RetxTimer        \* retx_timer, 0 means never

Buffer == INSTANCE LcgBuffer
Table  == INSTANCE BsrTable

\* A CE with its sub-header.
ShortSize == 1 + 1
LongSize  == 1 + 3

NoReport == [format |-> "NONE", reports |-> <<>>]

HasReport(ce) == DOMAIN ce.reports # {}

\* init: the periodic timer runs from the start, the retx timer does not.
IdleBsr ==
  [trigger |-> "NONE",
   periodicOn |-> PeriodicTimer > 0, periodic |-> PeriodicTimer,
   retxOn |-> FALSE, retx |-> 0]

\* set_trigger(REGULAR) starts the SR unless a grant is at hand.
Regular(r, grant) ==
  [bsr     |-> [r.bsr EXCEPT !.trigger = "REGULAR"],
   startSr |-> r.startSr \/ ~grant]

CountDown(bsr) ==
  [bsr EXCEPT
     !.periodic = IF bsr.periodicOn /\ @ > 0 THEN @ - 1 ELSE @,
     !.retx     = IF bsr.retxOn /\ @ > 0 THEN @ - 1 ELSE @]

\* handle_timer_expiry, the periodic half.
PeriodicExpiry(bsr) ==
  IF bsr.periodicOn /\ bsr.periodic = 0
  THEN [bsr EXCEPT !.periodic = PeriodicTimer,
                   !.trigger = IF @ = "NONE" THEN "PERIODIC" ELSE @]
  ELSE bsr

\* Mutant of RetxExpiry: the timer runs out and nothing is triggered.
RetxExpirySilent(bsr, buf, grant) ==
  [startSr |-> FALSE,
   bsr |-> IF bsr.retxOn /\ bsr.retx = 0
           THEN [bsr EXCEPT !.retx = RetxTimer] ELSE bsr]

\* handle_timer_expiry, the retransmission half: it restarts for good.
RetxExpiry(bsr, buf, grant) ==
  LET expired == bsr.retxOn /\ bsr.retx = 0
      r == [bsr |-> IF expired THEN [bsr EXCEPT !.retx = RetxTimer] ELSE bsr,
            startSr |-> FALSE]
  IN  IF expired /\ Buffer!WithData(buf) # {} THEN Regular(r, grant) ELSE r

\* step: timers, then the comparison of the buffers with their snapshot.
Step(bsr, buf, grant) ==
  LET r == RetxExpiry(PeriodicExpiry(CountDown(bsr)), buf, grant)
  IN  IF Buffer!NewData(buf) \/ Buffer!HighestGrew(buf)
      THEN Regular(r, grant) ELSE r
-----------------------------------------------------------------------------
\* select_bsr_format
Format(trigger, space, nofLcgs) ==
  IF space >= LongSize
  THEN IF trigger # "PADDING" /\ nofLcgs <= 1 THEN "SHORT" ELSE "LONG"
  ELSE IF space >= ShortSize /\ nofLcgs > 1 THEN "TRUNCATED" ELSE "SHORT"

\* The LCGs a format reports.
Reported(format, buf) ==
  IF format = "LONG" THEN Buffer!WithData(buf) ELSE {Buffer!MaxPriority(buf)}

\* generate_bsr: a truncated report leaves trigger and periodic timer alone.
Generate(bsr, buf, space) ==
  LET f == Format(bsr.trigger, space, Cardinality(Buffer!WithData(buf)))
      reset == [bsr EXCEPT !.trigger = "NONE",
                           !.periodicOn = @ \/ PeriodicTimer > 0,
                           !.periodic = PeriodicTimer]
  IN  IF space < (IF f = "LONG" THEN LongSize ELSE ShortSize)
      THEN [bsr |-> bsr, ce |-> NoReport]
      ELSE [bsr |-> IF f = "TRUNCATED" THEN bsr ELSE reset,
            ce  |-> [format  |-> f,
                     reports |-> [l \in Reported(f, buf) |->
                                    Table!BytesToIndex(Buffer!OfLcg(buf.new, l))]]]

\* generate_padding_bsr
GeneratePadding(bsr, buf, space) ==
  IF space < ShortSize THEN [bsr |-> bsr, ce |-> NoReport]
  ELSE Generate([bsr EXCEPT !.trigger = IF @ = "NONE" THEN "PADDING" ELSE @],
                buf, space)

\* need_to_send_bsr_on_ul_grant: a grant that holds all the data cancels.
OnGrant(bsr, buf, size) ==
  IF bsr.trigger \notin {"PERIODIC", "REGULAR"}
  THEN [bsr |-> bsr, ce |-> NoReport]
  ELSE IF size >= Buffer!UpperBound(buf)
  THEN [bsr |-> [bsr EXCEPT !.trigger = "NONE"], ce |-> NoReport]
  ELSE Generate(bsr, buf, size)

\* update_bsr_tti_end: a report starts the retx timer.
TtiEnd(bsr, ce) ==
  IF RetxTimer > 0 /\ HasReport(ce)
  THEN [bsr EXCEPT !.retxOn = TRUE, !.retx = RetxTimer]
  ELSE bsr
=============================================================================
