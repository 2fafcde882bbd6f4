--------------------------- MODULE TtiClockProofs ---------------------------
(***************************************************************************)
(* Proofs that the barrier clock is safe for every number of workers and   *)
(* every length of the simulation.  ClockInv is the inductive invariant:   *)
(* it says where the clock and each worker stand against the announced     *)
(* TTI, and that done_count_ counts exactly the reports for that TTI.      *)
(***************************************************************************)
EXTENDS TtiClock, FiniteSetTheorems, TLAPS

\* The number of workers is a positive natural number, and so are the bounds
\* that tti_clock::run compares with it.
LEMMA WorkerCount ==
  /\ Cardinality(Workers) \in Nat
  /\ Cardinality(Workers) > 0
BY ClockAssumption, FS_CardinalityType, FS_EmptySet

\* The reports never outnumber the workers, and as many reports as workers
\* means that every worker has reported: what the barrier in run() relies on.
LEMMA MarkedBound ==
  /\ IsFiniteSet(Marked)
  /\ Cardinality(Marked) \in 0..Cardinality(Workers)
  /\ Cardinality(Marked) >= Cardinality(Workers) => \A w \in Workers : Reported(w)
<1>1. Marked \in SUBSET Workers
  BY DEF Marked
<1>2. /\ IsFiniteSet(Marked)
      /\ Cardinality(Marked) <= Cardinality(Workers)
      /\ Cardinality(Workers) = Cardinality(Marked) => Workers = Marked
  BY <1>1, FS_Subset, ClockAssumption
<1>3. Cardinality(Marked) \in Nat
  BY <1>2, FS_CardinalityType
<1>4. Workers = Marked => \A w \in Workers : Reported(w)
  BY DEF Marked
<1>5. QED
  BY <1>2, <1>3, <1>4, WorkerCount

\* The constructor leaves the clock and the workers in their places.
LEMMA InitClockInv == Init => ClockInv
<1> SUFFICES ASSUME Init PROVE ClockInv
  OBVIOUS
<1>1. TypeOK
  <2>1. current \in NotStarted..(MaxTti + 1) /\ doneCount \in 0..Cardinality(Workers)
    BY WorkerCount, ClockAssumption DEF Init, NotStarted
  <2>2. loopTti \in [Threads -> 0..(MaxTti + 1)]
    BY ClockAssumption DEF Init
  <2>3. pc \in [Threads -> ClockStates \union WorkerStates]
    BY DEF Init, ClockStates, WorkerStates
  <2>4. QED
    BY <2>1, <2>2, <2>3 DEF Init, TypeOK
<1>2. /\ pc[Clock] = "announce"
      /\ loopTti[Clock] = 0
      /\ \A w \in Workers : pc[w] = "wait" /\ loopTti[w] = 0
  BY ClockAssumption DEF Init, Threads
<1>3. \A w \in Workers : Reported(w)
  BY <1>2 DEF Init, Reported, NotStarted
<1>4. ClockPlace
  BY <1>2, <1>3, ClockAssumption DEF Init, ClockPlace, NotStarted
<1>5. \A w \in Workers : WorkerPlace(w)
  BY <1>2, <1>3, ClockAssumption DEF Init, WorkerPlace
<1>6. CountIsMarked
  BY DEF Init, CountIsMarked, NotStarted
<1>7. QED
  BY <1>1, <1>2, <1>4, <1>5, <1>6
  DEF ClockInv, PlacesOK, ClockStates, WorkerStates
-----------------------------------------------------------------------------
(* A step that moves nothing the places and the count depend on, for the   *)
(* workers other than the one that moved.                                  *)

\* What a step does to the open TTI and to the reports: it opens the next TTI,
\* adds the report of one worker, ends the simulation, or does none of these.
OpensTti == /\ current' = current + 1
            /\ current' \in 0..MaxTti
            /\ current # NotStarted => Marked = Workers
            /\ Marked' = {}

Reports(w) == /\ current' = current
              /\ current \in 0..MaxTti
              /\ w \notin Marked
              /\ Marked' = Marked \union {w}

Closes == current = MaxTti /\ current' = MaxTti + 1 /\ Marked = Workers

Quiet == current' = current /\ Marked' = Marked

\* A worker that stays where it is keeps its place while the announced TTI
\* and done_ stay.
LEMMA WorkerStays ==
  ASSUME NEW w \in Workers,
         pc'[w] = pc[w], loopTti'[w] = loopTti[w],
         current' = current, done' = done
  PROVE  /\ Reported(w)' <=> Reported(w)
         /\ WorkerPlace(w)' <=> WorkerPlace(w)
BY DEF Reported, Owing, WorkerPlace

\* The count survives a step that changes neither the reports nor done_count_.
LEMMA CountStays ==
  ASSUME CountIsMarked, current' = current, doneCount' = doneCount,
         \A w \in Workers : Reported(w)' <=> Reported(w)
  PROVE  CountIsMarked' /\ Quiet
<1>1. Marked' = Marked
  BY DEF Marked
<1>2. QED
  BY <1>1 DEF CountIsMarked, Quiet

\* run() announces a TTI: nobody has reported it and done_count_ is 0.
LEMMA AnnounceInv == ClockInv /\ Announce => ClockInv' /\ OpensTti
<1> SUFFICES ASSUME ClockInv, Announce PROVE ClockInv' /\ OpensTti
  OBVIOUS
<1> USE DEF ClockInv
<1>1. /\ pc[Clock] = "announce" /\ pc'[Clock] = "wake"
      /\ \A w \in Workers : pc'[w] = pc[w]
      /\ loopTti' = loopTti /\ done' = done /\ done = FALSE
      /\ loopTti[Clock] \in 0..MaxTti
      /\ current' = current + 1 /\ current' = loopTti[Clock]
      /\ \A w \in Workers : Reported(w)
      /\ current \in Int
  BY ClockAssumption
  DEF Announce, PlacesOK, ClockPlace, GoTo, TypeOK, Threads, NotStarted
<1>2. TypeOK'
  BY <1>1, WorkerCount, ClockAssumption
  DEF Announce, TypeOK, GoTo, ClockStates, WorkerStates, NotStarted
<1>3. ClockPlace' /\ pc'[Clock] \in ClockStates
  BY <1>1 DEF ClockPlace, ClockStates
<1>4. ASSUME NEW w \in Workers
      PROVE  /\ pc'[w] \in WorkerStates
             /\ WorkerPlace(w)'
             /\ ~Reported(w)'
  <2>1. /\ pc[w] \in WorkerStates /\ WorkerPlace(w) /\ Reported(w)
        /\ loopTti[w] \in Int
    BY <1>1 DEF PlacesOK, TypeOK, Threads
  <2>2. pc[w] # "end"
    BY <2>1, <1>1, ClockAssumption DEF WorkerPlace, Reported
  <2>3. ~Reported(w)'
    BY <2>1, <2>2, <1>1 DEF Reported
  <2>4. WorkerPlace(w)'
    BY <2>1, <2>2, <1>1 DEF WorkerPlace, Reported, Owing, WorkerStates
  <2>5. QED
    BY <2>1, <2>3, <2>4, <1>1
<1>5. Marked' = {}
  BY <1>4 DEF Marked
<1>6. CountIsMarked'
  BY <1>5, FS_EmptySet DEF CountIsMarked, Announce
<1>7. OpensTti
  BY <1>1, <1>5 DEF OpensTti, Marked
<1>8. QED
  BY <1>2, <1>3, <1>4, <1>6, <1>7 DEF PlacesOK

\* notify_all of the clock moves nothing but the wait set and its own place.
LEMMA WakeWorkersInv == ClockInv /\ WakeWorkers => ClockInv' /\ Quiet
<1> SUFFICES ASSUME ClockInv, WakeWorkers PROVE ClockInv' /\ Quiet
  OBVIOUS
<1> USE DEF ClockInv
<1>1. /\ pc[Clock] = "wake" /\ pc'[Clock] = "barrier"
      /\ \A w \in Workers : pc'[w] = pc[w]
      /\ UNCHANGED <<current, doneCount, done, loopTti>>
  BY ClockAssumption DEF WakeWorkers, GoTo, TypeOK, Threads
<1>2. TypeOK'
  BY <1>1
  DEF WakeWorkers, TypeOK, GoTo, NotifyAll, ClockStates, WorkerStates
<1>3. ClockPlace' /\ pc'[Clock] \in ClockStates
  BY <1>1 DEF ClockPlace, ClockStates, PlacesOK
<1>4. \A w \in Workers : /\ Reported(w)' <=> Reported(w)
                         /\ WorkerPlace(w)' <=> WorkerPlace(w)
  BY <1>1, WorkerStays
<1>5. CountIsMarked' /\ Quiet
  BY <1>1, <1>4, CountStays
<1>6. QED
  BY <1>1, <1>2, <1>3, <1>4, <1>5 DEF PlacesOK

\* The clock passes the barrier only when every worker has reported.
LEMMA AwaitWorkersInv == ClockInv /\ AwaitWorkers => ClockInv' /\ Quiet
<1> SUFFICES ASSUME ClockInv, AwaitWorkers PROVE ClockInv' /\ Quiet
  OBVIOUS
<1> USE DEF ClockInv
<1>1. /\ pc[Clock] = "barrier"
      /\ \A w \in Workers : pc'[w] = pc[w] /\ loopTti'[w] = loopTti[w]
      /\ UNCHANGED <<current, doneCount, done>>
      /\ done = FALSE /\ current = loopTti[Clock] /\ loopTti[Clock] \in 0..MaxTti
      /\ sleeping' \subseteq Threads
      /\ loopTti' \in [Threads -> 0..(MaxTti + 1)]
  BY ClockAssumption
  DEF AwaitWorkers, WaitUntil, GoTo, TypeOK, Threads, PlacesOK, ClockPlace
<1>2. CASE ~BarrierOpen
  <2>1. UNCHANGED <<loopTti, pc>>
    BY <1>2 DEF AwaitWorkers, WaitUntil
  <2>2. QED
    BY <1>1, <2>1, WorkerStays, CountStays
    DEF TypeOK, PlacesOK, ClockPlace
<1>3. CASE BarrierOpen
  <2>1. /\ pc'[Clock] = AfterBarrier
        /\ loopTti'[Clock] = loopTti[Clock] + 1
        /\ pc' \in [Threads -> ClockStates \union WorkerStates]
    BY <1>3, ClockAssumption
    DEF AwaitWorkers, WaitUntil, GoTo, TypeOK, Threads, AfterBarrier,
        ClockStates, WorkerStates
  <2>2. \A w \in Workers : Reported(w)
    BY <1>1, <1>3, MarkedBound DEF CountIsMarked, BarrierOpen
  <2>3. \A w \in Workers : /\ Reported(w)' <=> Reported(w)
                           /\ WorkerPlace(w)' <=> WorkerPlace(w)
    BY <1>1, WorkerStays
  <2>4. ClockPlace' /\ pc'[Clock] \in ClockStates
    BY <1>1, <2>1, <2>2, <2>3, ClockAssumption
    DEF ClockPlace, AfterBarrier, ClockStates
  <2>5. CountIsMarked' /\ Quiet
    BY <1>1, <2>3, CountStays
  <2>6. QED
    BY <1>1, <2>1, <2>3, <2>4, <2>5 DEF TypeOK, PlacesOK
<1>4. QED
  BY <1>2, <1>3

\* done_ is set only after every worker has reported the last TTI.
LEMMA FinishInv == ClockInv /\ Finish => ClockInv' /\ Closes
<1> SUFFICES ASSUME ClockInv, Finish PROVE ClockInv' /\ Closes
  OBVIOUS
<1> USE DEF ClockInv
<1>1. /\ pc[Clock] = "finish" /\ pc'[Clock] = "wakeLast"
      /\ \A w \in Workers : pc'[w] = pc[w]
      /\ loopTti' = loopTti /\ done = FALSE /\ done' = TRUE
      /\ current = MaxTti /\ current' = MaxTti + 1
      /\ \A w \in Workers : Reported(w)
  BY ClockAssumption
  DEF Finish, PlacesOK, ClockPlace, GoTo, TypeOK, Threads
<1>2. TypeOK'
  BY <1>1, ClockAssumption
  DEF Finish, TypeOK, GoTo, ClockStates, WorkerStates, NotStarted
<1>3. ClockPlace' /\ pc'[Clock] \in ClockStates
  BY <1>1 DEF ClockPlace, ClockStates
<1>4. ASSUME NEW w \in Workers
      PROVE  pc'[w] \in WorkerStates /\ WorkerPlace(w)'
  <2>1. /\ pc[w] \in WorkerStates /\ WorkerPlace(w) /\ Reported(w)
        /\ loopTti[w] \in Int
    BY <1>1 DEF PlacesOK, TypeOK, Threads
  <2>2. QED
    BY <2>1, <1>1, ClockAssumption DEF WorkerPlace, Reported
<1>5. CountIsMarked'
  BY <1>1, ClockAssumption DEF CountIsMarked
<1>6. Closes
  BY <1>1 DEF Closes, Marked
<1>7. QED
  BY <1>2, <1>3, <1>4, <1>5, <1>6 DEF PlacesOK

\* The last notify_all of run().
LEMMA WakeLastInv == ClockInv /\ WakeLast => ClockInv' /\ Quiet
<1> SUFFICES ASSUME ClockInv, WakeLast PROVE ClockInv' /\ Quiet
  OBVIOUS
<1> USE DEF ClockInv
<1>1. /\ pc[Clock] = "wakeLast" /\ pc'[Clock] = "end"
      /\ \A w \in Workers : pc'[w] = pc[w]
      /\ UNCHANGED <<current, doneCount, done, loopTti>>
  BY ClockAssumption DEF WakeLast, GoTo, TypeOK, Threads
<1>2. TypeOK'
  BY <1>1
  DEF WakeLast, TypeOK, GoTo, NotifyAll, ClockStates, WorkerStates
<1>3. ClockPlace' /\ pc'[Clock] \in ClockStates
  BY <1>1 DEF ClockPlace, ClockStates, PlacesOK
<1>4. \A w \in Workers : /\ Reported(w)' <=> Reported(w)
                         /\ WorkerPlace(w)' <=> WorkerPlace(w)
  BY <1>1, WorkerStays
<1>5. CountIsMarked' /\ Quiet
  BY <1>1, <1>4, CountStays
<1>6. QED
  BY <1>1, <1>2, <1>3, <1>4, <1>5 DEF PlacesOK
-----------------------------------------------------------------------------
(* The worker's steps                                                      *)

\* A step of worker w leaves the clock's place alone when it takes no report back.
LEMMA ClockStays ==
  ASSUME ClockPlace, pc'[Clock] = pc[Clock], loopTti'[Clock] = loopTti[Clock],
         current' = current, done' = done,
         \A v \in Workers : Reported(v) => Reported(v)'
  PROVE  ClockPlace'
BY DEF ClockPlace

\* The count survives a step of worker w that neither adds nor loses a report.
LEMMA CountMoves ==
  ASSUME NEW w \in Workers, CountIsMarked,
         current' = current, doneCount' = doneCount,
         Reported(w)' <=> Reported(w),
         \A v \in Workers : v # w => pc'[v] = pc[v] /\ loopTti'[v] = loopTti[v]
  PROVE  CountIsMarked' /\ Quiet
<1>1. ASSUME NEW v \in Workers
      PROVE  Reported(v)' <=> Reported(v)
  <2>1. CASE v = w
    BY <2>1 DEF Reported
  <2>2. CASE v # w
    BY <2>2 DEF Reported
  <2>3. QED
    BY <2>1, <2>2
<1>2. QED
  BY <1>1, CountStays

\* A worker leaves wait_for_tti only for the TTI it waits for: done_ cannot be
\* what woke it up.
LEMMA WaitForTtiInv ==
  ASSUME NEW w \in Workers, ClockInv, WaitForTti(w)
  PROVE  ClockInv' /\ Quiet
<1> USE DEF ClockInv
<1>1. /\ pc[w] = "wait" /\ w # Clock
      /\ \A th \in Threads : th # w => pc'[th] = pc[th]
      /\ UNCHANGED <<current, doneCount, done, loopTti>>
      /\ sleeping' \subseteq Threads
      /\ pc' \in [Threads -> ClockStates \union WorkerStates]
      /\ \/ pc'[w] = "wait"
         \/ pc'[w] = "check" /\ TtiAnnounced(w)
  BY ClockAssumption
  DEF WaitForTti, WaitUntil, GoTo, TypeOK, Threads, WorkerStates
<1>2. WorkerPlace(w) /\ loopTti[w] \in Int /\ current \in Int
  BY DEF PlacesOK, TypeOK, Threads, NotStarted
<1>3. ~done
  BY <1>1, <1>2 DEF WorkerPlace
<1>4. /\ Reported(w)' <=> Reported(w)
      /\ WorkerPlace(w)'
      /\ pc'[w] \in WorkerStates
  BY <1>1, <1>2, <1>3
  DEF TtiAnnounced, Reported, Owing, WorkerPlace, WorkerStates
<1>5. \A v \in Workers : v # w => /\ pc'[v] = pc[v] /\ (Reported(v)' <=> Reported(v))
                                 /\ WorkerPlace(v)' <=> WorkerPlace(v)
  BY <1>1, WorkerStays DEF Threads
<1>6. ClockPlace'
  BY <1>1, <1>4, <1>5, ClockStays DEF PlacesOK, Threads
<1>7. CountIsMarked' /\ Quiet
  BY <1>1, <1>4, <1>5, CountMoves DEF Threads
<1>8. QED
  BY <1>1, <1>4, <1>5, <1>6, <1>7 DEF TypeOK, PlacesOK, Threads

\* clock.done() is false whenever a worker asks: it goes on to its body.
LEMMA CheckDoneInv ==
  ASSUME NEW w \in Workers, ClockInv, CheckDone(w)
  PROVE  ClockInv' /\ Quiet /\ ~done
<1> USE DEF ClockInv
<1>1. /\ pc[w] = "check" /\ w # Clock
      /\ \A th \in Threads : th # w => pc'[th] = pc[th]
      /\ UNCHANGED <<current, doneCount, done, loopTti, sleeping>>
      /\ pc' \in [Threads -> ClockStates \union WorkerStates]
      /\ pc'[w] = IF done THEN "end" ELSE "body"
  BY ClockAssumption
  DEF CheckDone, GoTo, TypeOK, Threads, WorkerStates
<1>2. WorkerPlace(w)
  BY DEF PlacesOK
<1>3. ~done
  BY <1>1, <1>2 DEF WorkerPlace
<1>4. /\ Reported(w)' <=> Reported(w)
      /\ WorkerPlace(w)'
      /\ pc'[w] \in WorkerStates
  BY <1>1, <1>2, <1>3 DEF Reported, Owing, WorkerPlace, WorkerStates
<1>5. \A v \in Workers : v # w => /\ pc'[v] = pc[v] /\ (Reported(v)' <=> Reported(v))
                                 /\ WorkerPlace(v)' <=> WorkerPlace(v)
  BY <1>1, WorkerStays DEF Threads
<1>6. ClockPlace'
  BY <1>1, <1>4, <1>5, ClockStays DEF PlacesOK, Threads
<1>7. CountIsMarked' /\ Quiet
  BY <1>1, <1>4, <1>5, CountMoves DEF Threads
<1>8. QED
  BY <1>1, <1>3, <1>4, <1>5, <1>6, <1>7 DEF TypeOK, PlacesOK, Threads

\* The body touches nothing of the clock, whether it returns or throws.
LEMMA RunBodyInv ==
  ASSUME NEW w \in Workers, ClockInv, RunBody(w)
  PROVE  ClockInv' /\ Quiet
<1> USE DEF ClockInv
<1>1. /\ pc[w] = "body" /\ pc'[w] = "mark" /\ w # Clock
      /\ \A th \in Threads : th # w => pc'[th] = pc[th]
      /\ UNCHANGED <<current, doneCount, done, loopTti, sleeping>>
      /\ pc' \in [Threads -> ClockStates \union WorkerStates]
  BY ClockAssumption
  DEF RunBody, AfterBody, GoTo, TypeOK, Threads, WorkerStates
<1>2. WorkerPlace(w)
  BY DEF PlacesOK
<1>3. /\ Reported(w)' <=> Reported(w)
      /\ WorkerPlace(w)'
      /\ pc'[w] \in WorkerStates
  BY <1>1, <1>2 DEF Reported, Owing, WorkerPlace, WorkerStates
<1>4. \A v \in Workers : v # w => /\ pc'[v] = pc[v] /\ (Reported(v)' <=> Reported(v))
                                 /\ WorkerPlace(v)' <=> WorkerPlace(v)
  BY <1>1, WorkerStays DEF Threads
<1>5. ClockPlace'
  BY <1>1, <1>3, <1>4, ClockStays DEF PlacesOK, Threads
<1>6. CountIsMarked' /\ Quiet
  BY <1>1, <1>3, <1>4, CountMoves DEF Threads
<1>7. QED
  BY <1>1, <1>3, <1>4, <1>5, <1>6 DEF TypeOK, PlacesOK, Threads

\* A report is counted once: done_count_ and the set of reports grow by one.
LEMMA MarkTtiDoneInv ==
  ASSUME NEW w \in Workers, ClockInv, MarkTtiDone(w)
  PROVE  ClockInv' /\ Reports(w)
<1> USE DEF ClockInv
<1>1. /\ pc[w] = "mark" /\ pc'[w] = "wake" /\ w # Clock
      /\ \A th \in Threads : th # w => pc'[th] = pc[th]
      /\ UNCHANGED <<current, done, loopTti, sleeping>>
      /\ pc' \in [Threads -> ClockStates \union WorkerStates]
      /\ doneCount' = doneCount + 1
  BY ClockAssumption
  DEF MarkTtiDone, GoTo, TypeOK, Threads, WorkerStates
<1>2. WorkerPlace(w) /\ loopTti[w] \in Int /\ current \in Int
  BY DEF PlacesOK, TypeOK, Threads, NotStarted
<1>3. ~done /\ loopTti[w] = current /\ ~Reported(w)
  BY <1>1, <1>2 DEF WorkerPlace, Reported, Owing
<1>4. Reported(w)' /\ WorkerPlace(w)' /\ pc'[w] \in WorkerStates
  BY <1>1, <1>2, <1>3 DEF Reported, WorkerPlace, WorkerStates
<1>5. \A v \in Workers : v # w => /\ pc'[v] = pc[v] /\ (Reported(v)' <=> Reported(v))
                                 /\ WorkerPlace(v)' <=> WorkerPlace(v)
  BY <1>1, WorkerStays DEF Threads
<1>6. ClockPlace'
  BY <1>1, <1>4, <1>5, ClockStays DEF PlacesOK, Threads
<1>7. current \in 0..MaxTti
  BY <1>3, ClockAssumption DEF PlacesOK, ClockPlace
<1>8. Marked' = Marked \union {w} /\ w \notin Marked
  <2>1. ASSUME NEW v \in Workers
        PROVE  Reported(v)' <=> Reported(v) \/ v = w
    <3>1. CASE v = w
      BY <3>1, <1>4 DEF Reported
    <3>2. CASE v # w
      BY <3>2, <1>1 DEF Reported, Threads
    <3>3. QED
      BY <3>1, <3>2
  <2>2. QED
    BY <2>1, <1>3 DEF Marked
<1>9. Cardinality(Marked') = Cardinality(Marked) + 1
  BY <1>8, MarkedBound, FS_AddElement
<1>10. CountIsMarked'
  BY <1>1, <1>7, <1>9 DEF CountIsMarked
<1>11. doneCount' \in 0..Cardinality(Workers)
  <2>1. Marked' \in SUBSET Workers
    BY DEF Marked
  <2>2. Cardinality(Marked') <= Cardinality(Workers)
    BY <2>1, FS_Subset, ClockAssumption
  <2>3. QED
    BY <2>2, <1>1, <1>7, <1>9, MarkedBound, WorkerCount DEF CountIsMarked
<1>12. QED
  BY <1>1, <1>4, <1>5, <1>6, <1>7, <1>8, <1>10, <1>11
  DEF TypeOK, PlacesOK, Threads, Reports

\* The notify_all of mark_tti_done, which a slow worker may reach only after
\* the clock has opened the next TTI.
LEMMA WakeClockInv ==
  ASSUME NEW w \in Workers, ClockInv, WakeClock(w)
  PROVE  ClockInv' /\ Quiet
<1> USE DEF ClockInv
<1>1. /\ pc[w] = "wake" /\ w # Clock
      /\ \A th \in Threads : th # w => pc'[th] = pc[th] /\ loopTti'[th] = loopTti[th]
      /\ UNCHANGED <<current, doneCount, done>>
      /\ sleeping' \subseteq Threads
      /\ pc' \in [Threads -> ClockStates \union WorkerStates]
      /\ pc'[w] = IF loopTti[w] < MaxTti THEN "wait" ELSE "end"
      /\ loopTti'[w] = loopTti[w] + 1
  BY ClockAssumption
  DEF WakeClock, NotifyAll, GoTo, TypeOK, Threads, WorkerStates
<1>2. WorkerPlace(w) /\ loopTti[w] \in 0..(MaxTti + 1) /\ current \in Int
  BY DEF PlacesOK, TypeOK, Threads, NotStarted
<1>3. ~done => current <= MaxTti
  BY ClockAssumption DEF PlacesOK, ClockPlace, ClockStates
<1>4. loopTti[w] <= MaxTti
  BY <1>1, <1>2, <1>3, ClockAssumption DEF WorkerPlace, Reported, Owing
<1>5. /\ Reported(w)' <=> Reported(w)
      /\ WorkerPlace(w)'
      /\ pc'[w] \in WorkerStates
  BY <1>1, <1>2, <1>3, <1>4, ClockAssumption
  DEF Reported, Owing, WorkerPlace, WorkerStates
<1>6. \A v \in Workers : v # w => /\ pc'[v] = pc[v] /\ (Reported(v)' <=> Reported(v))
                                 /\ WorkerPlace(v)' <=> WorkerPlace(v)
  BY <1>1, WorkerStays DEF Threads
<1>7. ClockPlace'
  BY <1>1, <1>5, <1>6, ClockStays DEF PlacesOK, Threads
<1>8. CountIsMarked' /\ Quiet
  BY <1>1, <1>5, <1>6, CountMoves DEF Threads
<1>9. loopTti' \in [Threads -> 0..(MaxTti + 1)]
  <2>1. loopTti[w] + 1 \in 0..(MaxTti + 1)
    BY <1>2, <1>4, ClockAssumption
  <2>2. loopTti' = [loopTti EXCEPT ![w] = loopTti[w] + 1]
    BY DEF WakeClock
  <2>3. QED
    BY <2>1, <2>2 DEF TypeOK
<1>10. QED
  BY <1>1, <1>5, <1>6, <1>7, <1>8, <1>9 DEF TypeOK, PlacesOK, Threads

\* A spurious wake-up and the end of the simulation change no place.
LEMMA IdleInv ==
  ASSUME ClockInv, UNCHANGED <<current, doneCount, done, loopTti, pc>>,
         sleeping' \subseteq sleeping
  PROVE  ClockInv' /\ Quiet
<1>1. \A w \in Workers : /\ Reported(w)' <=> Reported(w)
                         /\ WorkerPlace(w)' <=> WorkerPlace(w)
  BY WorkerStays
<1>2. CountIsMarked' /\ Quiet
  BY <1>1, CountStays DEF ClockInv
<1>3. ClockPlace'
  BY <1>1, ClockStays DEF ClockInv, PlacesOK
<1>4. QED
  BY <1>1, <1>2, <1>3 DEF ClockInv, TypeOK, PlacesOK

\* Every step keeps the invariant, and moves the announced TTI and the reports
\* in one of the four ways.
LEMMA NextClockInv ==
  ASSUME ClockInv, [Next]_vars
  PROVE  /\ ClockInv'
         /\ OpensTti \/ Closes \/ Quiet \/ \E w \in Workers : Reports(w)
<1> DEFINE Moves == OpensTti \/ Closes \/ Quiet \/ \E w \in Workers : Reports(w)
<1>1. CASE ClockStep
  BY <1>1, AnnounceInv, WakeWorkersInv, AwaitWorkersInv, FinishInv, WakeLastInv
  DEF ClockStep
<1>2. ASSUME NEW w \in Workers, WorkerStep(w) PROVE ClockInv' /\ Moves
  BY <1>2, WaitForTtiInv, CheckDoneInv, RunBodyInv, MarkTtiDoneInv, WakeClockInv
  DEF WorkerStep
<1>3. ASSUME NEW th \in Threads, SpuriousWakeup(th) PROVE ClockInv' /\ Moves
  BY <1>3, IdleInv DEF SpuriousWakeup
<1>4. CASE Terminated \/ UNCHANGED vars
  BY <1>4, IdleInv DEF Terminated, vars
<1>5. QED
  BY <1>1, <1>2, <1>3, <1>4 DEF Next

\* ClockInv is an invariant of the clock.
THEOREM ClockSafe == Spec => []ClockInv
BY InitClockInv, NextClockInv, PTL DEF Spec

\* The fields of the clock and the loops stay in their ranges.
THEOREM ClockTypeOK == Spec => []TypeOK
<1>1. ClockInv => TypeOK
  BY DEF ClockInv
<1>2. QED
  BY <1>1, ClockSafe, PTL

\* Whatever the number of workers, a worker works only on the announced TTI.
THEOREM ClockLockstep == Spec => []Lockstep
<1>1. ClockInv => Lockstep
  BY DEF ClockInv, PlacesOK, WorkerPlace, Owing, Reported, Lockstep, Working
<1>2. QED
  BY <1>1, ClockSafe, PTL

\* Whatever the length of the simulation, no worker drops out before its end.
THEOREM ClockNoTtiLost == Spec => []NoTtiLost
<1>1. ClockInv => NoTtiLost
  BY DEF ClockInv, PlacesOK, WorkerPlace, NoTtiLost
<1>2. QED
  BY <1>1, ClockSafe, PTL

\* done_count_ is the number of workers that reported the announced TTI.
THEOREM ClockCount == Spec => []CountIsMarked
<1>1. ClockInv => CountIsMarked
  BY DEF ClockInv
<1>2. QED
  BY <1>1, ClockSafe, PTL

-----------------------------------------------------------------------------
(* The clock implements the lockstep: the mapping of TtiClock!Rounds.      *)

\* The initial state of the clock is that of the lockstep.
LEMMA InitRounds == Init => Rounds!LockstepInit
BY ClockAssumption DEF Init, Rounds!LockstepInit, NotStarted

\* A step of the clock opens a TTI, finishes a worker or leaves both alone.
LEMMA NextRounds ==
  ASSUME ClockInv, [Next]_vars
  PROVE  [Rounds!LockstepNext]_(Rounds!lockstepVars)
<1> USE DEF Rounds!LockstepNext, Rounds!lockstepVars
<1>1. CASE OpensTti
  <2>1. current \in Int
    BY DEF ClockInv, TypeOK, NotStarted
  <2>2. Rounds!Open
    BY <1>1, <2>1, ClockAssumption DEF OpensTti, Rounds!Open, NotStarted
  <2>3. QED
    BY <2>2
<1>2. ASSUME NEW w \in Workers, Reports(w)
      PROVE  Rounds!Work(w)
  BY <1>2, ClockAssumption DEF Reports, Rounds!Work, NotStarted
<1>3. CASE Closes
  BY <1>3, ClockAssumption DEF Closes, NotStarted
<1>4. CASE Quiet
  BY <1>4 DEF Quiet
<1>5. QED
  BY <1>1, <1>2, <1>3, <1>4, NextClockInv

\* For every set of workers and every length, a behaviour of the threads, the
\* mutex and the condition variable is a behaviour of the lockstep.
THEOREM ClockImplementsLockstep == Spec => ImplementsLockstep
<1>1. ClockInv /\ [Next]_vars => [Rounds!LockstepNext]_(Rounds!lockstepVars)
  BY NextRounds
<1>2. QED
  BY <1>1, InitRounds, ClockSafe, PTL
  DEF Spec, ImplementsLockstep, Rounds!LockstepSpec
=============================================================================
