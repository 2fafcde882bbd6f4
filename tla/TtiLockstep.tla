---------------------------- MODULE TtiLockstep ----------------------------
(***************************************************************************)
(* What the central clock of tti_channel.h promises to the workers of a    *)
(* simulation, and all that the other modules of this project rely on: in  *)
(* every TTI from 0 to MaxTti each worker runs its body exactly once, in   *)
(* any order, and no worker starts TTI t + 1 before every worker finished  *)
(* TTI t.  Threads, mutexes and condition variables are left out.          *)
(***************************************************************************)
EXTENDS Integers

CONSTANTS
  Workers,  \* the worker threads (UE threads and the eNB thread)
  MaxTti    \* the last TTI of the simulation

VARIABLES
  now,       \* the TTI that is open, -1 before the first
  finished   \* the workers whose body has run in the open TTI

lockstepVars == <<now, finished>>

LockstepInit ==
  /\ now = -1
  /\ finished = Workers

\* The next TTI opens only when every worker has finished the present one.
Open ==
  /\ finished = Workers
  /\ now < MaxTti
  /\ now' = now + 1
  /\ finished' = {}

\* Worker w runs its body for the open TTI.
Work(w) ==
  /\ w \notin finished
  /\ finished' = finished \union {w}
  /\ UNCHANGED now

LockstepNext == Open \/ \E w \in Workers : Work(w)

LockstepSpec == LockstepInit /\ [][LockstepNext]_lockstepVars
=============================================================================
