------------------------------ MODULE TtiClock ------------------------------
(***************************************************************************)
(* The barrier clock of include/ul_mac/tti_channel.h (class tti_clock) and *)
(* the loop every worker thread runs around it (run_tti_worker in          *)
(* src/main.cpp), one step per critical section of the clock's mutex and   *)
(* one per call of notify_all, which the code makes after unlocking.  A    *)
(* thread whose predicate is false when it holds the mutex joins sleeping; *)
(* it evaluates the predicate again once notify_all or a spurious wake-up  *)
(* has taken it out.                                                       *)
(***************************************************************************)
EXTENDS Integers, FiniteSets

CONSTANTS
  Workers,   \* the worker threads registered with the clock
  Clock,     \* the thread that calls tti_clock::run
  MaxTti     \* max_tti_

ASSUME ClockAssumption ==
  /\ IsFiniteSet(Workers)
  /\ Workers # {}
  /\ Clock \notin Workers
  /\ MaxTti \in Nat

Threads == Workers \union {Clock}

\* current_ starts as UINT32_MAX: a value no worker ever waits for.
NotStarted == -1

VARIABLES
  current,    \* current_: the TTI the clock has announced
  doneCount,  \* done_count_
  done,       \* done_
  loopTti,    \* the loop counter of run() and of each run_tti_worker
  pc,         \* where each thread is
  sleeping    \* the threads blocked in cv_.wait

vars == <<current, doneCount, done, loopTti, pc, sleeping>>

ClockStates  == {"announce", "wake", "barrier", "finish", "wakeLast", "end"}
WorkerStates == {"wait", "check", "body", "mark", "wake", "end"}

\* Mutant of Init: current_ starts at 0, so workers run before the announcement.
InitAtZero ==
  /\ current = 0
  /\ doneCount = 0
  /\ done = FALSE
  /\ loopTti = [th \in Threads |-> 0]
  /\ pc = [th \in Threads |-> IF th = Clock THEN "announce" ELSE "wait"]
  /\ sleeping = {}

Init ==
  /\ current = NotStarted
  /\ doneCount = 0
  /\ done = FALSE
  /\ loopTti = [th \in Threads |-> 0]
  /\ pc = [th \in Threads |-> IF th = Clock THEN "announce" ELSE "wait"]
  /\ sleeping = {}

GoTo(th, place) == pc' = [pc EXCEPT ![th] = place]

Awake(th) == th \notin sleeping

\* cv_.notify_all(): every sleeping thread will look at its predicate again.
NotifyAll == sleeping' = {}

\* The code after cv_.wait(lock, predicate): go on when it holds, else sleep.
WaitUntil(th, predicate, place) ==
  /\ Awake(th)
  /\ \/ predicate /\ GoTo(th, place) /\ UNCHANGED sleeping
     \/ ~predicate /\ sleeping' = sleeping \union {th} /\ UNCHANGED pc
-----------------------------------------------------------------------------
(* The clock thread: tti_clock::run                                        *)

\* Mutant of Announce: done_count_ is not reset for the new TTI.
AnnounceKeepingCount ==
  /\ pc[Clock] = "announce"
  /\ current' = loopTti[Clock]
  /\ GoTo(Clock, "wake")
  /\ UNCHANGED <<doneCount, done, loopTti, sleeping>>

\* current_ = t and done_count_ = 0 under one lock.
Announce ==
  /\ pc[Clock] = "announce"
  /\ current' = loopTti[Clock]
  /\ doneCount' = 0
  /\ GoTo(Clock, "wake")
  /\ UNCHANGED <<done, loopTti, sleeping>>

WakeWorkers ==
  /\ pc[Clock] = "wake"
  /\ NotifyAll
  /\ GoTo(Clock, "barrier")
  /\ UNCHANGED <<current, doneCount, done, loopTti>>

\* Mutant of AfterBarrier: t < max_tti_ instead of t <= max_tti_.
AfterBarrierShort ==
  IF loopTti[Clock] < MaxTti - 1 THEN "announce" ELSE "finish"

\* Where run() goes once the barrier opens: the next round or out of the loop.
AfterBarrier == IF loopTti[Clock] < MaxTti THEN "announce" ELSE "finish"

\* Mutant of BarrierOpen: the barrier opens one report early.
BarrierOpenEarly == doneCount >= Cardinality(Workers) - 1

BarrierOpen == doneCount >= Cardinality(Workers)

AwaitWorkers ==
  /\ pc[Clock] = "barrier"
  /\ WaitUntil(Clock, BarrierOpen, AfterBarrier)
  /\ loopTti' = IF BarrierOpen THEN [loopTti EXCEPT ![Clock] = @ + 1] ELSE loopTti
  /\ UNCHANGED <<current, doneCount, done>>

Finish ==
  /\ pc[Clock] = "finish"
  /\ current' = MaxTti + 1
  /\ done' = TRUE
  /\ GoTo(Clock, "wakeLast")
  /\ UNCHANGED <<doneCount, loopTti, sleeping>>

WakeLast ==
  /\ pc[Clock] = "wakeLast"
  /\ NotifyAll
  /\ GoTo(Clock, "end")
  /\ UNCHANGED <<current, doneCount, done, loopTti>>

ClockStep == Announce \/ WakeWorkers \/ AwaitWorkers \/ Finish \/ WakeLast
-----------------------------------------------------------------------------
(* A worker thread: run_tti_worker                                         *)

TtiAnnounced(w) == done \/ current = loopTti[w]

WaitForTti(w) ==
  /\ pc[w] = "wait"
  /\ WaitUntil(w, TtiAnnounced(w), "check")
  /\ UNCHANGED <<current, doneCount, done, loopTti>>

\* if (clock.done()) break;
CheckDone(w) ==
  /\ pc[w] = "check"
  /\ GoTo(w, IF done THEN "end" ELSE "body")
  /\ UNCHANGED <<current, doneCount, done, loopTti, sleeping>>

\* Mutant of AfterBody: the exception leaves the loop.
AfterBodyRethrow(threw) == IF threw THEN "end" ELSE "mark"

\* Where the loop goes after body(tti): an exception is swallowed, and the TTI
\* reported all the same.
AfterBody(threw) == "mark"

RunBody(w) ==
  /\ pc[w] = "body"
  /\ \E threw \in BOOLEAN : GoTo(w, AfterBody(threw))
  /\ UNCHANGED <<current, doneCount, done, loopTti, sleeping>>

\* mark_tti_done, first half: ++done_count_ under the lock.
MarkTtiDone(w) ==
  /\ pc[w] = "mark"
  /\ doneCount' = doneCount + 1
  /\ GoTo(w, "wake")
  /\ UNCHANGED <<current, done, loopTti, sleeping>>

\* Mutant of WakeClock: mark_tti_done does not notify.
WakeClockSilently(w) ==
  /\ pc[w] = "wake"
  /\ GoTo(w, IF loopTti[w] < MaxTti THEN "wait" ELSE "end")
  /\ loopTti' = [loopTti EXCEPT ![w] = @ + 1]
  /\ UNCHANGED <<current, doneCount, done, sleeping>>

\* mark_tti_done, second half: notify_all; then the worker's loop goes on.
WakeClock(w) ==
  /\ pc[w] = "wake"
  /\ NotifyAll
  /\ GoTo(w, IF loopTti[w] < MaxTti THEN "wait" ELSE "end")
  /\ loopTti' = [loopTti EXCEPT ![w] = @ + 1]
  /\ UNCHANGED <<current, doneCount, done>>

WorkerStep(w) ==
  WaitForTti(w) \/ CheckDone(w) \/ RunBody(w) \/ MarkTtiDone(w) \/ WakeClock(w)
-----------------------------------------------------------------------------
\* A condition variable may wake a thread that nobody notified.
SpuriousWakeup(th) ==
  /\ th \in sleeping
  /\ sleeping' = sleeping \ {th}
  /\ UNCHANGED <<current, doneCount, done, loopTti, pc>>

\* run() has returned and every worker has been joined.
Terminated ==
  /\ \A th \in Threads : pc[th] = "end"
  /\ UNCHANGED vars

Next ==
  \/ ClockStep
  \/ \E w \in Workers : WorkerStep(w)
  \/ \E th \in Threads : SpuriousWakeup(th)
  \/ Terminated

Spec == Init /\ [][Next]_vars

\* The operating system runs every thread that is not blocked; a spurious
\* wake-up is never owed to anybody.
FairSpec ==
  /\ Spec
  /\ WF_vars(ClockStep)
  /\ \A w \in Workers : WF_vars(WorkerStep(w))
-----------------------------------------------------------------------------
(* Properties                                                              *)

TypeOK ==
  /\ current \in NotStarted..(MaxTti + 1)
  /\ doneCount \in 0..Cardinality(Workers)
  /\ done \in BOOLEAN
  /\ loopTti \in [Threads -> 0..(MaxTti + 1)]
  /\ pc \in [Threads -> ClockStates \union WorkerStates]
  /\ sleeping \subseteq Threads

Working(w) == pc[w] \in {"check", "body", "mark"}

\* Worker w has reported the announced TTI (before the first, nobody owes one).
Reported(w) ==
  \/ pc[w] = "wake" /\ loopTti[w] = current
  \/ pc[w] \in {"wait", "end"} /\ loopTti[w] = current + 1

Marked == {w \in Workers : Reported(w)}

\* A worker between wait_for_tti and mark_tti_done works on the TTI that is
\* announced: the clock never leaves it behind (point 1 of the comment on
\* tti_clock), so all workers that work at once work on the same TTI.
Lockstep == \A w \in Workers : Working(w) => loopTti[w] = current

\* No worker leaves its loop before it has run the last TTI: the break on
\* clock.done() is never taken early (point 2 of that comment).
NoTtiLost == \A w \in Workers : pc[w] = "end" => loopTti[w] = MaxTti + 1

\* The barrier count is the number of workers that reported this TTI: no
\* report is lost to the reset in run() and none is counted twice.
CountIsMarked == current \in 0..MaxTti => doneCount = Cardinality(Marked)

\* The simulation ends: no thread stays blocked on a wake-up it missed.
Termination == <>(\A th \in Threads : pc[th] = "end")

-----------------------------------------------------------------------------
(* The inductive invariant behind these properties (TtiClockProofs)        *)

\* Where the announced TTI stands against the clock's own loop.
ClockPlace ==
  CASE pc[Clock] = "announce" -> /\ ~done
                                 /\ loopTti[Clock] \in 0..MaxTti
                                 /\ current = loopTti[Clock] - 1
                                 /\ \A w \in Workers : Reported(w)
    [] pc[Clock] \in {"wake", "barrier"} -> /\ ~done
                                           /\ loopTti[Clock] \in 0..MaxTti
                                           /\ current = loopTti[Clock]
    [] pc[Clock] = "finish" -> /\ ~done
                               /\ loopTti[Clock] = MaxTti + 1
                               /\ current = MaxTti
                               /\ \A w \in Workers : Reported(w)
    [] OTHER -> done /\ current = MaxTti + 1

\* Worker w still owes its report: it is at the announced TTI, or it has yet to
\* return from the notify_all of the TTI before.
Owing(w) ==
  \/ pc[w] \in {"wait", "check", "body", "mark"} /\ loopTti[w] = current
  \/ pc[w] = "wake" /\ loopTti[w] = current - 1

\* After the last TTI every worker has reported it.
WorkerPlace(w) ==
  IF done THEN \/ pc[w] = "wake" /\ loopTti[w] = MaxTti
               \/ pc[w] = "end" /\ loopTti[w] = MaxTti + 1
  ELSE /\ Reported(w) \/ Owing(w)
       /\ pc[w] = "wait" => loopTti[w] <= MaxTti
       /\ pc[w] = "end" => loopTti[w] = MaxTti + 1

PlacesOK ==
  /\ pc[Clock] \in ClockStates
  /\ ClockPlace
  /\ \A w \in Workers : pc[w] \in WorkerStates /\ WorkerPlace(w)

ClockInv == TypeOK /\ PlacesOK /\ CountIsMarked
-----------------------------------------------------------------------------
\* The clock implements the lockstep that the workers rely on: a TTI opens
\* when it is announced and a worker finishes it when it reports.
Rounds == INSTANCE TtiLockstep WITH
            now <- IF current > MaxTti THEN MaxTti ELSE current,
            finished <- IF current = NotStarted \/ current > MaxTti THEN Workers
                        ELSE Marked

ImplementsLockstep == Rounds!LockstepSpec
=============================================================================
