----------------------------- MODULE MCUplinkData -----------------------------
(***************************************************************************)
(* Logical channels for the runs of UplinkData.                            *)
(***************************************************************************)
EXTENDS UplinkData

\* As in the scenarios: one channel in each LCG, none with a bit rate.
OneInEach   == [c \in Channels |-> c]
NoRate      == [c \in Channels |-> 0]

\* The first channel has an LCG for itself, the others share one, and every
\* channel has a bit rate, the first a higher one.
FirstAlone == [c \in Channels |-> IF c = 0 THEN 0 ELSE 1]
RatesOf    == [c \in Channels |-> IF c = 0 THEN 3 ELSE 2]
BucketsOf  == [c \in Channels |-> 6]
=============================================================================
