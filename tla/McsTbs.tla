-------------------------------- MODULE McsTbs --------------------------------
(***************************************************************************)
(* The scheduler's choice of a modulation and coding scheme from the       *)
(* channel quality, and what a transport block then holds                  *)
(* (src/enb_ul_scheduler.cpp).  SNRs are in hundredths of a dB.            *)
(***************************************************************************)
EXTENDS Integers, Sequences

\* SNR_MCS_THRESHOLD: the SNR that an MCS, counted from 0, needs.
SnrThresholds ==
  <<-1000, -600, -400, -200, -100, 0, 100, 200, 300, 400, 500, 600, 700, 800,
    900, 1000, 1100, 1200, 1300, 1400, 1500, 1600, 1700, 1800, 1840, 1880, 1920,
    1960, 2000>>

MaxMcs == 28

\* TBS_EFFICIENCY_ANCHOR: the bits of a PRB for some MCS.
Anchors ==
  <<[mcs |-> 0, bits |-> 16], [mcs |-> 5, bits |-> 64], [mcs |-> 10, bits |-> 120],
    [mcs |-> 15, bits |-> 176], [mcs |-> 20, bits |-> 272], [mcs |-> 28, bits |-> 456]>>

Highest(S) == CHOOSE x \in S : \A y \in S : y <= x

\* calculate_mcs: the highest whose threshold the SNR reaches, else 0.
McsOfSnr(snr) ==
  Highest({0} \union {m \in 0 .. MaxMcs : snr >= SnrThresholds[m + 1]})

\* calculate_mcs_from_cqi, of a CQI that has been reported.
McsOfCqi(cqi) == IF 2 * (cqi - 1) < MaxMcs THEN 2 * (cqi - 1) ELSE MaxMcs

\* The last anchor that an MCS reaches.
AnchorOf(mcs) ==
  CHOOSE i \in DOMAIN Anchors : /\ Anchors[i].mcs <= mcs
                                /\ i < Len(Anchors) => mcs < Anchors[i + 1].mcs

\* The bits of a PRB, on the line between two anchors.
BitsPerPrb(mcs) ==
  LET a == Anchors[AnchorOf(mcs)]
      b == Anchors[AnchorOf(mcs) + 1]
  IN  IF mcs = MaxMcs THEN a.bits
      ELSE a.bits + (((b.bits - a.bits) * (mcs - a.mcs)) \div (b.mcs - a.mcs))

\* calculate_tbs, in bytes.
Tbs(mcs, nPrb) == (BitsPerPrb(mcs) * nPrb) \div 8
=============================================================================
