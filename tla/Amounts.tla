------------------------------- MODULE Amounts -------------------------------
(***************************************************************************)
(* Amounts of bytes, one for each of a set of integers in the order in     *)
(* which they are served: logical channels of a UE by priority             *)
(* (lcg_buffer.h), LCGs of a UE's demand (enb_ul_scheduler.cpp).           *)
(***************************************************************************)
EXTENDS Integers, Functions

Sum(f) == SumFunction(f)

Lower(a, b) == IF a < b THEN a ELSE b
Higher(a, b) == IF a > b THEN a ELSE b

\* What is left of the bytes for k when all before it have been served.
LeftFor(f, k, bytes) ==
  Higher(0, bytes - SumFunctionOnSet(f, {j \in DOMAIN f : j < k}))

\* Each takes what it has of the bytes that are left, in order.
Taken(f, bytes) == [k \in DOMAIN f |-> Lower(f[k], LeftFor(f, k, bytes))]

Minus(f, g) == [k \in DOMAIN f |-> f[k] - g[k]]

\* Mutant of Drained: the bytes left are taken without regard to the amount.
DrainedBelowZero(f, bytes) ==
  [k \in DOMAIN f |-> f[k] - LeftFor(f, k, bytes)]

\* What remains of amounts f when bytes are taken from them in order.
Drained(f, bytes) == Minus(f, Taken(f, bytes))
=============================================================================
