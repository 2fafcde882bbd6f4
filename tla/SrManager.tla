------------------------------ MODULE SrManager ------------------------------
(***************************************************************************)
(* The UE's scheduling request procedure (src/ue_sr_manager.cpp) as        *)
(* operators on a record.  age is the number of TTIs since the last SR     *)
(* (tti - last_sr_tx_tti_), which is only compared with the period and     *)
(* stops at the longest one, the age of a UE that never sent an SR.        *)
(* FAILED is a state no other step sees: step() returns to IDLE itself.    *)
(***************************************************************************)
EXTENDS Integers

CONSTANTS
  SrEnabled,     \* sr_cfg_.enabled
  DsrTransMax,   \* dsr_transmax
  SrPeriod,      \* sr_period
  SrProhibit,    \* sr_prohibit_timer
  MinSrPeriod, MaxSrPeriod   \* MIN_SR_PERIOD and MAX_SR_PERIOD

Longest == IF SrPeriod > MaxSrPeriod THEN SrPeriod ELSE MaxSrPeriod

IdleSr == [state |-> "IDLE", counter |-> 0, prohibit |-> 0,
           period |-> SrPeriod, age |-> Longest]

\* can_send_sr, with adaptive_sr_period_
CanSend(sr) == sr.age >= sr.period

Clamped(period) ==
  IF period < MinSrPeriod THEN MinSrPeriod
  ELSE IF period > MaxSrPeriod THEN MaxSrPeriod ELSE period

\* adjust_sr_period: a period that differs by less than a fifth is ignored.
Adjusted(sr, period) ==
  LET change == IF period > sr.period THEN period - sr.period
                ELSE sr.period - period
  IN  IF 5 * change < sr.period THEN sr
      ELSE [sr EXCEPT !.period = Clamped(period)]

\* start: only a UE with an SR resource and no pending SR starts one.
Start(sr) ==
  IF SrEnabled /\ sr.state = "IDLE"
  THEN [sr EXCEPT !.state = "PENDING", !.counter = 0]
  ELSE sr

NoSr(sr) == [sr |-> sr, sent |-> FALSE]

Sent(sr) ==
  [sr   |-> [sr EXCEPT !.counter = @ + 1, !.age = 0, !.prohibit = SrProhibit],
   sent |-> TRUE]

\* The failure is reported, then the procedure is ready for another attempt.
Failed(sr) == NoSr([sr EXCEPT !.state = "IDLE", !.counter = 0])

\* step
Step(sr) ==
  LET s == [sr EXCEPT !.prohibit = IF @ > 0 THEN @ - 1 ELSE 0]
  IN  IF sr.state # "PENDING" THEN NoSr(sr)
      ELSE IF ~SrEnabled THEN Failed(s)
      ELSE IF s.counter < DsrTransMax
      THEN IF s.prohibit = 0 /\ (s.counter = 0 \/ CanSend(s))
           THEN Sent(s) ELSE NoSr(s)
      ELSE IF CanSend(s) THEN Failed(s) ELSE NoSr(s)

\* Mutant of GrantReceived: the grant does not end the procedure.
GrantIgnored(sr) == sr

\* notify_ul_grant_received
GrantReceived(sr) ==
  IF sr.state = "PENDING"
  THEN [sr EXCEPT !.state = "IDLE", !.counter = 0, !.prohibit = 0]
  ELSE sr

\* The clock moves to the next TTI.
Aged(sr) == [sr EXCEPT !.age = IF @ < Longest THEN @ + 1 ELSE @]
=============================================================================
