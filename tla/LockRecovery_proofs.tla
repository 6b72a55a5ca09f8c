------------------------- MODULE LockRecovery_proofs -------------------------
(***************************************************************************)
(* That no failure is forgotten, for any cap, timeout and bounds; and what *)
(* the counters of failures and conflicts come to.                         *)
(***************************************************************************)
EXTENDS LockRecovery, TLAPS

(* Why the invariant is inductive.  What lets an event be dropped is a window, and a   *)
(* window has a task that ends with it; what takes a task away is a reconcile, which   *)
(* finds the failure due, as its cooldown is over.  It is then not synced, and nothing *)
(* of it is under way: while the status names an Update it tells of no failure.        *)

OneAtATime == current => last.state = "none"

WindowHasTimer == window > 0 => \E t \in timers : t.left = window

IInv == TypeOK /\ OneAtATime /\ WindowHasTimer /\ RetryComes

\* Delays are within their caps.
LEMMA CappedInRange ==
    ASSUME NEW d, NEW max \in Nat
    PROVE  Capped(d, max) \in 0 .. max
  BY DEF Capped

LEMMA MaxDelayBounds ==
    /\ MaxAge \in Nat /\ MaxDelay \in Nat
    /\ Cap \in Nat /\ LockTimeout \in Nat
    /\ Cap <= MaxAge /\ LockTimeout <= MaxAge /\ MaxAge <= MaxDelay /\ 30 <= MaxDelay
    /\ Short \in 0 .. MaxDelay /\ Recheck \in 0 .. MaxDelay
  BY ConstantsAssumption DEF MaxAge, MaxDelay, Most, Short, Recheck

LEMMA DelaysInRange ==
    ASSUME NEW n \in Nat
    PROVE  /\ Cooldown(n) \in 0 .. MaxAge /\ Cooldown(n) \in 0 .. MaxDelay
           /\ Backoff(n) \in 0 .. MaxDelay
           /\ \A error \in {ApiError} \cup NotReady : ErrorDelay(error, n) \in 0 .. MaxDelay
  <1>1. Cooldown(n) \in 0 .. Cap
    <2>1. Capped(3 ^ Least(n, 30), Cap) \in 0 .. Cap
      BY CappedInRange, MaxDelayBounds
    <2> QED
      BY <2>1, MaxDelayBounds DEF Cooldown
  <1>2. Backoff(n) \in 0 .. LockTimeout
    BY CappedInRange, MaxDelayBounds DEF Backoff
  <1>3. ASSUME NEW error \in {ApiError} \cup NotReady
        PROVE  ErrorDelay(error, n) \in 0 .. 30
    <2> DEFINE delay == error.base * 2 ^ Least(n, 20)
    <2>1. error.max \in 0 .. 300
      BY DEF ApiError, NotReady
    <2>2. Capped(delay, error.max) \in 0 .. error.max
      BY <2>1, CappedInRange
    <2> HIDE DEF delay
    <2>3. (Capped(delay, error.max) + 9) \div 10 \in 0 .. 30
      BY <2>1, <2>2
    <2> QED
      BY <2>3 DEF ErrorDelay, delay
  <1> QED
    BY <1>1, <1>2, <1>3, MaxDelayBounds

\* The lastUpdates that are recorded.
LEMMA LastTypes ==
    ASSUME NEW n \in Nat, NEW locked \in BOOLEAN, NEW s \in {"none", "failed", "succeeded"}
    PROVE  [state |-> s, locked |-> locked, failures |-> n]
             \in [state : {"none", "failed", "succeeded"}, locked : BOOLEAN, failures : Nat]
  OBVIOUS

\* The invariant holds at first.
LEMMA InitIInv == Init => IInv
  <1> SUFFICES ASSUME Init PROVE IInv
    OBVIOUS
  <1>1. last \in [state : {"none", "failed", "succeeded"}, locked : BOOLEAN, failures : Nat]
    BY LastTypes DEF Init, NoLast
  <1>2. TypeOK
    <2>1. /\ 0 \in 0 .. MaxAge /\ 0 \in 0 .. MaxDelay
          /\ 0 \in 0 .. MaxFaults /\ 0 \in 0 .. MaxEdits /\ 0 \in 0 .. MaxKills
      BY MaxDelayBounds, ConstantsAssumption
    <2>2. /\ since \in 0 .. MaxAge /\ seen \in 0 .. MaxAge /\ window \in 0 .. MaxDelay
          /\ faults \in 0 .. MaxFaults /\ edits \in 0 .. MaxEdits /\ kills \in 0 .. MaxKills
      BY <2>1 DEF Init
    <2>3. /\ current \in BOOLEAN /\ edited \in BOOLEAN /\ wake \in BOOLEAN
          /\ stalled \in BOOLEAN
          /\ update \in {"none", "running", "succeeded", "failed", "locked"}
          /\ lock \in {"free", "busy", "stale"}
          /\ failures \in Nat /\ attempts \in Nat /\ timers \subseteq Timer
      BY DEF Init
    <2> QED
      BY <1>1, <2>2, <2>3 DEF TypeOK
  <1>3. OneAtATime /\ WindowHasTimer /\ RetryComes
    BY DEF Init, OneAtATime, WindowHasTimer, RetryComes, NoLast
  <1> QED
    BY <1>2, <1>3 DEF IInv

\* What a reconcile needs: the tasks left, and a failure that is due if no task of
\* them covers it.
Ready(rest, conflicts) ==
    /\ rest \subseteq Timer /\ rest \subseteq timers
    /\ conflicts \in Nat
    /\ last.state = "failed" /\ ~last.locked =>
          \/ \E t \in rest : t.left + since >= Cooldown(last.failures)
          \/ since >= Cooldown(last.failures)

\* A task scheduled gives the window its timer.
LEMMA ScheduleWindow ==
    ASSUME NEW rest, NEW delay \in 0 .. MaxDelay, NEW trigger \in {"Retry", "LockRetry"},
           rest \subseteq Timer, Schedule(rest, delay, trigger)
    PROVE  /\ timers' \subseteq Timer /\ rest \subseteq timers'
           /\ window' = delay /\ window' \in 0 .. MaxDelay
           /\ [trigger |-> trigger, left |-> delay] \in timers'
           /\ WindowHasTimer'
  <1> DEFINE new == [trigger |-> trigger, left |-> delay]
  <1>1. new \in Timer /\ new.left = delay
    BY DEF Timer
  <1>2. timers' = rest \cup {new} /\ window' = delay
    BY DEF Schedule
  <1> HIDE DEF new
  <1>3. WindowHasTimer'
    BY <1>1, <1>2 DEF WindowHasTimer
  <1>4. timers' \subseteq Timer /\ rest \subseteq timers' /\ new \in timers'
    BY <1>1, <1>2
  <1> QED
    BY <1>2, <1>3, <1>4 DEF new

\* The part of the type invariant that a reconcile may disturb.
StatusOK ==
    /\ last \in [state : {"none", "failed", "succeeded"}, locked : BOOLEAN, failures : Nat]
    /\ since \in 0 .. MaxAge /\ seen \in 0 .. MaxAge
    /\ current \in BOOLEAN /\ edited \in BOOLEAN /\ wake \in BOOLEAN
    /\ update \in {"none", "running", "succeeded", "failed", "locked"}
    /\ failures \in Nat /\ attempts \in Nat
    /\ faults \in 0 .. MaxFaults

\* What a reconcile restores of the invariant.
Restored ==
    /\ StatusOK' /\ timers' \subseteq Timer /\ window' \in 0 .. MaxDelay
    /\ OneAtATime' /\ WindowHasTimer' /\ RetryComes'

\* An error keeps the failure in the status, and schedules a task.
LEMMA FailsRestores ==
    ASSUME IInv, NEW rest, NEW conflicts, Ready(rest, conflicts),
           PipelineFails(rest, conflicts)
    PROVE  Restored
  <1>1. PICK delay \in 0 .. MaxDelay : Schedule(rest, delay, "Retry")
    BY DelaysInRange, MaxDelayBounds DEF PipelineFails, IInv, TypeOK
  <1>2. /\ timers' \subseteq Timer /\ rest \subseteq timers' /\ window' \in 0 .. MaxDelay
        /\ [trigger |-> "Retry", left |-> delay] \in timers' /\ WindowHasTimer'
    BY <1>1, ScheduleWindow DEF Ready
  <1>3. StatusOK' /\ UNCHANGED status
    <2>1. failures' \in Nat
      BY DEF PipelineFails, IInv, TypeOK
    <2>2. faults' \in 0 .. MaxFaults
      BY ConstantsAssumption DEF PipelineFails, Fault, IInv, TypeOK
    <2>3. UNCHANGED <<last, since, current, edited, update, seen>> /\ wake' = FALSE
      BY DEF PipelineFails, status
    <2>4. attempts' \in Nat
      BY DEF PipelineFails, Ready
    <2> QED
      BY <2>1, <2>2, <2>3, <2>4 DEF IInv, TypeOK, StatusOK, status
  <1>4. OneAtATime'
    BY <1>3 DEF IInv, OneAtATime, status
  <1>5. RetryComes'
    <2> SUFFICES ASSUME last.state = "failed", ~last.locked
                 PROVE  \E t \in timers' : t.left + since >= Cooldown(last.failures)
      BY <1>3 DEF RetryComes, status
    <2>1. Cooldown(last.failures) \in 0 .. MaxDelay /\ since \in 0 .. MaxAge
      BY DelaysInRange DEF IInv, TypeOK
    <2>2. CASE \E t \in rest : t.left + since >= Cooldown(last.failures)
      BY <1>2, <2>2
    <2>3. CASE since >= Cooldown(last.failures)
      <3>1. delay + since >= Cooldown(last.failures)
        BY <2>1, <2>3, MaxDelayBounds
      <3> QED
        BY <1>2, <3>1
    <2> QED
      BY <2>2, <2>3 DEF Ready
  <1> QED
    BY <1>2, <1>3, <1>4, <1>5 DEF Restored

\* While its Update runs the status tells of no failure.
LEMMA WaitRestores ==
    ASSUME IInv, NEW rest, NEW conflicts, Ready(rest, conflicts),
           WaitForUpdate(rest, conflicts)
    PROVE  Restored
  <1>1. /\ timers' \subseteq Timer /\ window' \in 0 .. MaxDelay /\ WindowHasTimer'
    BY ScheduleWindow, MaxDelayBounds DEF WaitForUpdate, Ready
  <1>2. StatusOK' /\ UNCHANGED status /\ current
    BY DEF WaitForUpdate, IInv, TypeOK, StatusOK, Ready, status
  <1>3. OneAtATime' /\ RetryComes'
    BY <1>2 DEF IInv, OneAtATime, RetryComes, status
  <1> QED
    BY <1>1, <1>2, <1>3 DEF Restored

\* A recorded success is no failure.
LEMMA SucceededRestores ==
    ASSUME IInv, NEW rest, NEW conflicts, Ready(rest, conflicts), UpdateSucceeded(rest)
    PROVE  Restored
  <1>1. /\ timers' \subseteq Timer /\ window' \in 0 .. MaxDelay /\ WindowHasTimer'
    BY MaxDelayBounds DEF UpdateSucceeded, Ready, NoRequeue, WindowHasTimer
  <1>2. CASE UNCHANGED status
    <2>1. StatusOK'
      BY <1>2, MaxDelayBounds, ConstantsAssumption
      DEF UpdateSucceeded, IInv, TypeOK, StatusOK, status, Fault, NoFault
    <2>2. OneAtATime' /\ RetryComes'
      BY <1>2 DEF UpdateSucceeded, IInv, OneAtATime, RetryComes, status
    <2> QED
      BY <1>1, <2>1, <2>2 DEF Restored
  <1>3. CASE /\ last' = [state |-> "succeeded", locked |-> FALSE, failures |-> 0]
             /\ since' = 0 /\ current' = FALSE /\ edited' = FALSE
    <2>1. last' \in [state : {"none", "failed", "succeeded"}, locked : BOOLEAN, failures : Nat]
      BY <1>3, LastTypes
    <2>2. StatusOK'
      <3>1. faults' \in 0 .. MaxFaults
        BY ConstantsAssumption DEF UpdateSucceeded, Fault, NoFault, IInv, TypeOK
      <3>2. since' \in 0 .. MaxAge /\ seen' \in 0 .. MaxAge
        BY <1>3, MaxDelayBounds DEF UpdateSucceeded
      <3>3. /\ current' \in BOOLEAN /\ edited' \in BOOLEAN /\ wake' \in BOOLEAN
            /\ update' \in {"none", "running", "succeeded", "failed", "locked"}
            /\ failures' \in Nat /\ attempts' \in Nat
        BY <1>3 DEF UpdateSucceeded, IInv, TypeOK
      <3> QED
        BY <2>1, <3>1, <3>2, <3>3 DEF StatusOK
    <2>3. last'.state = "succeeded"
      BY <1>3
    <2>4. OneAtATime' /\ RetryComes'
      BY <1>3, <2>3 DEF OneAtATime, RetryComes
    <2> QED
      BY <1>1, <2>2, <2>4 DEF Restored
  <1> QED
    BY <1>2, <1>3 DEF UpdateSucceeded

\* A conflict schedules a task and counts.
LEMMA ConflictSchedules ==
    ASSUME IInv, NEW rest, NEW conflicts, Ready(rest, conflicts), OnConflict(rest, conflicts)
    PROVE  /\ timers' \subseteq Timer /\ window' \in 0 .. MaxDelay /\ WindowHasTimer'
           /\ attempts' \in Nat /\ seen' \in 0 .. MaxAge
  <1>1. conflicts \in Nat /\ seen \in 0 .. MaxAge /\ rest \subseteq Timer
    BY DEF Ready, IInv, TypeOK
  <1>2. attempts' \in Nat /\ seen' \in 0 .. MaxAge
    BY <1>1, MaxDelayBounds DEF OnConflict
  <1>3. PICK delay \in 0 .. MaxDelay, trigger \in {"Retry", "LockRetry"} :
            Schedule(rest, delay, trigger)
    <2>1. Backoff(conflicts + 1) \in 0 .. MaxDelay
      BY <1>1, DelaysInRange
    <2> QED
      BY <2>1, MaxDelayBounds DEF OnConflict
  <1> QED
    BY <1>1, <1>2, <1>3, ScheduleWindow

\* A recorded failure gets a task that waits for its cooldown.
LEMMA FailedRestores ==
    ASSUME IInv, NEW rest, NEW conflicts, Ready(rest, conflicts),
           UpdateFailed(rest, conflicts)
    PROVE  Restored
  <1>1. failures + 1 \in Nat /\ conflicts \in Nat /\ rest \subseteq Timer
    BY DEF IInv, TypeOK, Ready
  <1>2. Cooldown(failures + 1) \in 0 .. MaxDelay
    BY <1>1, DelaysInRange
  <1>3. /\ timers' \subseteq Timer /\ window' \in 0 .. MaxDelay /\ WindowHasTimer'
        /\ attempts' \in Nat /\ seen' \in 0 .. MaxAge
    <2>1. CASE update = "locked"
      BY <2>1, ConflictSchedules DEF UpdateFailed
    <2>2. CASE update # "locked"
      BY <1>1, <1>2, <2>2, ScheduleWindow
      DEF UpdateFailed, RequeueAfterCooldown, IInv, TypeOK
    <2> QED
      BY <2>1, <2>2
  <1>4. StatusOK'
    <2>1. faults' \in 0 .. MaxFaults
      BY ConstantsAssumption DEF UpdateFailed, Fault, NoFault, IInv, TypeOK
    <2>2. CASE UNCHANGED status
      BY <1>1, <1>3, <2>1, <2>2 DEF UpdateFailed, IInv, TypeOK, StatusOK, status
    <2>3. CASE /\ last' = [state |-> "failed", locked |-> update = "locked",
                           failures |-> failures + 1]
               /\ since' = 0 /\ current' = FALSE /\ edited' = FALSE
      <3>1. (update = "locked") \in BOOLEAN
        OBVIOUS
      <3>2. last' \in [state : {"none", "failed", "succeeded"}, locked : BOOLEAN,
                       failures : Nat]
        BY <1>1, <2>3, <3>1, LastTypes
      <3> QED
        <4>1. since' \in 0 .. MaxAge
          BY <2>3, MaxDelayBounds
        <4>2. /\ current' \in BOOLEAN /\ edited' \in BOOLEAN /\ wake' \in BOOLEAN
              /\ update' \in {"none", "running", "succeeded", "failed", "locked"}
              /\ failures' \in Nat
          BY <1>1, <2>3 DEF UpdateFailed, IInv, TypeOK
        <4> QED
          BY <1>3, <2>1, <3>2, <4>1, <4>2 DEF StatusOK
    <2> QED
      BY <2>2, <2>3 DEF UpdateFailed
  <1>5. OneAtATime'
    BY DEF UpdateFailed, IInv, OneAtATime, status
  <1>6. RetryComes'
    <2>1. CASE UNCHANGED status
      BY <2>1 DEF UpdateFailed, IInv, OneAtATime, RetryComes, status
    <2>2. CASE last' = [state |-> "failed", locked |-> update = "locked",
                        failures |-> failures + 1] /\ since' = 0
      <3>1. CASE update = "locked"
        BY <2>2, <3>1 DEF RetryComes
      <3>2. CASE update # "locked"
        <4>1. [trigger |-> "Retry", left |-> Cooldown(failures + 1)] \in timers'
          BY <1>1, <1>2, <3>2, ScheduleWindow DEF UpdateFailed, RequeueAfterCooldown
        <4>2. Cooldown(last'.failures) = Cooldown(failures + 1)
          BY <2>2
        <4>3. Cooldown(failures + 1) + since' >= Cooldown(last'.failures)
          BY <1>2, <2>2, <4>2
        <4> QED
          BY <4>1, <4>3 DEF RetryComes
      <3> QED
        BY <3>1, <3>2
    <2> QED
      BY <2>1, <2>2 DEF UpdateFailed
  <1> QED
    BY <1>3, <1>4, <1>5, <1>6 DEF Restored

\* A failure that is due is not taken for synced.
LEMMA NothingRestores ==
    ASSUME IInv, NEW rest, NEW conflicts, Ready(rest, conflicts),
           NothingToDo(rest, conflicts)
    PROVE  Restored
  <1>1. /\ timers' \subseteq Timer /\ window' \in 0 .. MaxDelay /\ WindowHasTimer'
    BY MaxDelayBounds DEF NothingToDo, Ready, NoRequeue, WindowHasTimer
  <1>2. StatusOK' /\ UNCHANGED status
    BY DEF NothingToDo, IInv, TypeOK, StatusOK, Ready, status
  <1>3. OneAtATime'
    BY <1>2 DEF IInv, OneAtATime, status
  <1>4. RetryComes'
    <2> SUFFICES ASSUME last.state = "failed", ~last.locked
                 PROVE  \E t \in timers' : t.left + since >= Cooldown(last.failures)
      BY <1>2 DEF RetryComes, status
    <2>1. Cooldown(last.failures) \in 0 .. MaxDelay /\ since \in 0 .. MaxAge
      BY DelaysInRange DEF IInv, TypeOK
    <2>2. since < Cooldown(last.failures)
      BY DEF NothingToDo, Synced
    <2> QED
      BY <2>1, <2>2 DEF Ready, NothingToDo, NoRequeue
  <1> QED
    BY <1>1, <1>2, <1>3, <1>4 DEF Restored

\* If the creation is not recorded, the failure stays and the Update's event comes.
LEMMA CreatedRestores ==
    ASSUME IInv, NEW rest, NEW conflicts, Ready(rest, conflicts), UpdateCreated(rest)
    PROVE  Restored
  <1>1. /\ timers' = rest /\ timers' \subseteq Timer
        /\ window' \in 0 .. MaxDelay /\ WindowHasTimer'
    BY MaxDelayBounds DEF UpdateCreated, Ready, NoRequeue, WindowHasTimer
  <1>2. last' = NoLast => last'.state = "none"
    BY DEF NoLast
  <1>3. StatusOK' /\ OneAtATime'
    <2>1. faults' \in 0 .. MaxFaults
      BY ConstantsAssumption DEF UpdateCreated, Fault, NoFault, IInv, TypeOK
    <2>2. CASE UNCHANGED status
      BY <2>1, <2>2, MaxDelayBounds
      DEF UpdateCreated, IInv, TypeOK, StatusOK, OneAtATime, status
    <2>3. CASE last' = NoLast /\ since' = 0 /\ current' = TRUE /\ UNCHANGED edited
      <3>1. last' \in [state : {"none", "failed", "succeeded"}, locked : BOOLEAN,
                       failures : Nat]
        BY <2>3, LastTypes DEF NoLast
      <3> QED
        BY <1>2, <2>1, <2>3, <3>1, MaxDelayBounds
        DEF UpdateCreated, IInv, TypeOK, StatusOK, OneAtATime
    <2> QED
      BY <2>2, <2>3 DEF UpdateCreated
  <1>4. RetryComes'
    <2>1. CASE UNCHANGED status
      BY <1>1, <2>1 DEF UpdateCreated, Ready, RetryComes, status
    <2>2. CASE last' = NoLast
      BY <2>2 DEF RetryComes, NoLast
    <2> QED
      BY <2>1, <2>2 DEF UpdateCreated
  <1> QED
    BY <1>1, <1>3, <1>4 DEF Restored

\* A stall leaves the failure due, if no task covers it.
LEMMA StallRestores ==
    ASSUME IInv, NEW rest, NEW conflicts, Ready(rest, conflicts), Stalls(rest, conflicts),
           stalled' = TRUE
    PROVE  Restored
  <1>1. /\ timers' = rest /\ timers' \subseteq Timer
        /\ window' \in 0 .. MaxDelay /\ WindowHasTimer'
    BY MaxDelayBounds DEF Stalls, Ready, NoRequeue, WindowHasTimer
  <1>2. StatusOK' /\ UNCHANGED status
    <2>1. faults' \in 0 .. MaxFaults
      BY ConstantsAssumption DEF Stalls, Fault, IInv, TypeOK
    <2> QED
      BY <2>1 DEF Stalls, IInv, TypeOK, StatusOK, Ready, status
  <1>3. OneAtATime' /\ RetryComes'
    BY <1>1, <1>2 DEF IInv, Ready, OneAtATime, RetryComes, status
  <1> QED
    BY <1>1, <1>2, <1>3 DEF Restored

\* Whatever the pipeline does.
LEMMA PipelineRestores ==
    ASSUME IInv, NEW rest, NEW conflicts, Ready(rest, conflicts), Pipeline(rest, conflicts)
    PROVE  Restored /\ stalled' \in BOOLEAN
  BY FailsRestores, WaitRestores, SucceededRestores, FailedRestores, NothingRestores,
     CreatedRestores, StallRestores
  DEF Pipeline

\* The reconcile that a task leads to.
LEMMA TaskIsReady ==
    ASSUME IInv, NEW t \in timers, t.left = 0, NEW conflicts \in Nat
    PROVE  Ready(timers \ {t}, conflicts)
  <1> SUFFICES ASSUME last.state = "failed", ~last.locked,
                      ~ since >= Cooldown(last.failures)
               PROVE  \E u \in timers \ {t} : u.left + since >= Cooldown(last.failures)
    BY DEF Ready, IInv, TypeOK
  <1>1. Cooldown(last.failures) \in 0 .. MaxDelay /\ since \in 0 .. MaxAge
    BY DelaysInRange DEF IInv, TypeOK
  <1>2. PICK u \in timers : u.left + since >= Cooldown(last.failures)
    BY DEF IInv, RetryComes
  <1>3. u # t
    BY <1>1, <1>2
  <1> QED
    BY <1>2, <1>3

\* What time does to the failure's task.
LEMMA TickKeeps == ASSUME IInv, Tick PROVE IInv'
  <1>1. timers \subseteq Timer /\ \A t \in timers : t.left \in 1 .. MaxDelay
    BY MaxDelayBounds DEF IInv, TypeOK, Tick, Timer
  <1>2. timers' \subseteq Timer
    BY <1>1, MaxDelayBounds DEF Tick, Timer
  <1>3. TypeOK'
    BY <1>2, MaxDelayBounds DEF IInv, TypeOK, Tick, Least, budget
  <1>4. OneAtATime'
    BY DEF IInv, OneAtATime, Tick
  <1>5. WindowHasTimer'
    <2> SUFFICES ASSUME window > 0
                 PROVE  \E t \in timers' : t.left = window - 1
      BY DEF Tick, WindowHasTimer, IInv, TypeOK
    <2>1. PICK t \in timers : t.left = window
      BY DEF IInv, WindowHasTimer
    <2>2. [t EXCEPT !.left = @ - 1] \in timers'
      BY DEF Tick
    <2>3. [t EXCEPT !.left = @ - 1].left = window - 1
      BY <1>1, <2>1 DEF Timer
    <2> QED
      BY <2>2, <2>3
  <1>6. RetryComes'
    <2> SUFFICES ASSUME last.state = "failed", ~last.locked
                 PROVE  \/ \E t \in timers' : t.left + since' >= Cooldown(last.failures)
                        \/ /\ since' >= Cooldown(last.failures)
                           /\ wake \/ update = "running" \/ stalled
      BY DEF Tick, RetryComes
    <2>1. /\ Cooldown(last.failures) \in 0 .. MaxAge /\ since \in 0 .. MaxAge
          /\ since' \in 0 .. MaxAge
          /\ since' = since + 1 \/ since' = MaxAge
      BY DelaysInRange, MaxDelayBounds DEF IInv, TypeOK, Tick, Least
    <2>2. CASE \E t \in timers : t.left + since >= Cooldown(last.failures)
      <3>1. PICK t \in timers : t.left + since >= Cooldown(last.failures)
        BY <2>2
      <3>2. [t EXCEPT !.left = @ - 1] \in timers'
        BY DEF Tick
      <3>3. [t EXCEPT !.left = @ - 1].left = t.left - 1 /\ t.left \in 1 .. MaxDelay
        BY <1>1 DEF Timer
      <3>4. t.left - 1 + since' >= Cooldown(last.failures)
        BY <2>1, <3>1, <3>3, MaxDelayBounds
      <3> QED
        BY <3>2, <3>3, <3>4
    <2>3. CASE /\ since >= Cooldown(last.failures)
               /\ wake \/ update = "running" \/ stalled
      BY <2>1, <2>3, MaxDelayBounds
    <2> QED
      BY <2>2, <2>3 DEF IInv, RetryComes
  <1> QED
    BY <1>3, <1>4, <1>5, <1>6 DEF IInv

\* Every step keeps the invariant.
LEMMA StepIInv == IInv /\ [Next]_vars => IInv'
  <1> SUFFICES ASSUME IInv, [Next]_vars PROVE IInv'
    OBVIOUS
  <1>1. CASE HandleEvent
    <2>1. CASE window > 0
      <3>1. /\ wake' = FALSE
            /\ UNCHANGED <<last, since, current, edited, update, lock, failures, attempts,
                           seen, timers, window, stalled, faults, edits, kills>>
        BY <1>1, <2>1 DEF HandleEvent, status
      <3>2. TypeOK' /\ OneAtATime' /\ WindowHasTimer'
        BY <3>1, ZenonT(30) DEF IInv, TypeOK, OneAtATime, WindowHasTimer
      <3>3. RetryComes'
        <4> SUFFICES ASSUME last.state = "failed", ~last.locked
                     PROVE  \E t \in timers : t.left + since >= Cooldown(last.failures)
          BY <3>1 DEF RetryComes
        <4>1. /\ Cooldown(last.failures) \in 0 .. MaxDelay /\ since \in 0 .. MaxAge
              /\ window \in 0 .. MaxDelay
          BY DelaysInRange DEF IInv, TypeOK
        <4>2. PICK t \in timers : t.left = window
          BY <2>1 DEF IInv, WindowHasTimer
        <4>3. since >= Cooldown(last.failures) => t.left + since >= Cooldown(last.failures)
          BY <2>1, <4>1, <4>2, MaxDelayBounds
        <4> QED
          BY <4>2, <4>3 DEF IInv, RetryComes
      <3> QED
        BY <3>2, <3>3 DEF IInv
    <2>2. CASE window = 0
      <3>1. Pipeline(timers, attempts) /\ UNCHANGED <<lock, edits, kills>>
        BY <1>1, <2>2 DEF HandleEvent
      <3>2. Ready(timers, attempts)
        BY DEF Ready, IInv, TypeOK, RetryComes
      <3>3. Restored /\ stalled' \in BOOLEAN
        BY <3>1, <3>2, PipelineRestores
      <3> QED
        BY <3>1, <3>3 DEF IInv, TypeOK, Restored, StatusOK
    <2> QED
      BY <2>1, <2>2 DEF IInv, TypeOK
  <1>2. CASE HandleRetry
    <2>1. PICK t \in timers : t.left = 0 /\ Pipeline(timers \ {t}, attempts)
      BY <1>2 DEF HandleRetry
    <2>2. Ready(timers \ {t}, attempts)
      BY <2>1, TaskIsReady DEF IInv, TypeOK
    <2>3. Restored /\ stalled' \in BOOLEAN
      BY <2>1, <2>2, PipelineRestores
    <2> QED
      BY <1>2, <2>3 DEF HandleRetry, IInv, TypeOK, Restored, StatusOK
  <1>3. CASE HandleLockRetry
    <2>1. PICK t \in timers, conflicts \in {0, attempts} :
              t.left = 0 /\ Pipeline(timers \ {t}, conflicts)
      BY <1>3 DEF HandleLockRetry
    <2>2. Ready(timers \ {t}, conflicts)
      <3>1. conflicts \in Nat
        BY DEF IInv, TypeOK
      <3> QED
        BY <2>1, <3>1, TaskIsReady
    <2>3. Restored /\ stalled' \in BOOLEAN
      BY <2>1, <2>2, PipelineRestores
    <2>4. lock' \in {"free", "busy", "stale"} /\ UNCHANGED <<edits, kills>>
      BY <1>3 DEF HandleLockRetry, IInv, TypeOK
    <2> QED
      BY <2>3, <2>4 DEF IInv, TypeOK, Restored, StatusOK
  <1>4. CASE OperationEnds
    <2>1. /\ update = "running" /\ wake' = TRUE
          /\ UNCHANGED <<last, since, current, edited, failures, attempts, seen, timers,
                         window, stalled, faults, edits>>
      BY <1>4 DEF OperationEnds, status
    <2>2. TypeOK'
      BY <1>4, <2>1, ConstantsAssumption DEF OperationEnds, IInv, TypeOK
    <2>3. OneAtATime' /\ WindowHasTimer' /\ RetryComes'
      BY <2>1 DEF IInv, OneAtATime, WindowHasTimer, RetryComes
    <2> QED
      BY <2>2, <2>3 DEF IInv
  <1>5. CASE LockReleased
    BY <1>5 DEF LockReleased, IInv, TypeOK, OneAtATime, WindowHasTimer, RetryComes, status,
                budget
  <1>6. CASE EditSpec
    <2>1. /\ wake' = TRUE
          /\ UNCHANGED <<last, since, current, update, lock, failures, attempts, seen, timers,
                         window, stalled, faults, kills>>
      BY <1>6 DEF EditSpec
    <2>2. TypeOK'
      BY <1>6, <2>1, ConstantsAssumption DEF EditSpec, IInv, TypeOK
    <2>3. OneAtATime' /\ WindowHasTimer' /\ RetryComes'
      BY <2>1 DEF IInv, OneAtATime, WindowHasTimer, RetryComes
    <2> QED
      BY <2>2, <2>3 DEF IInv
  <1>7. CASE Tick
    BY <1>7, TickKeeps
  <1>8. CASE UNCHANGED vars
    BY <1>8 DEF vars, IInv, TypeOK, OneAtATime, WindowHasTimer, RetryComes
  <1> QED
    BY <1>1, <1>2, <1>3, <1>4, <1>5, <1>6, <1>7, <1>8 DEF Next

\* As long as the status tells of a failure that had nothing to do with the lock, a task
\* or an event will find it due, or a reconcile that found it due stalled: actor.rs schedules
\* the retry with the cooldown that is_synced computes from the same count.
THEOREM FailuresRemembered == Spec => []RetryComes
  <1>1. IInv => RetryComes
    BY DEF IInv
  <1> QED
    BY <1>1, InitIInv, StepIInv, PTL DEF Spec

\* The type invariant holds, the bounds of the counters and of the delays with it.
THEOREM TypeCorrect == Spec => []TypeOK
  <1>1. IInv => TypeOK
    BY DEF IInv
  <1> QED
    BY <1>1, InitIInv, StepIInv, PTL DEF Spec

---------------------------------------------------------------------------
(* What the counters amount to.  Both are reset when an Update is created, and count    *)
(* while the status names it: a second failure of one Update is counted only where a    *)
(* patch or another call failed in between, and neither is there to count the next.     *)

CountersReset == current => failures <= faults /\ (attempts > 0 => faults > 0)

\* The count that the cooldown grows with is one, but for the faults of calls.
BackoffStaysLow == last.failures <= faults + 1

\* A force-unlock is scheduled only after a call has failed.
ForceUnlockNeedsFault == (\E t \in timers : t.trigger = "LockRetry") => faults > 0

\* So the operator clears a stale lock only after a call of its own has failed.
LockClearedAfterFaultOnly == [][lock = "stale" /\ lock' # "stale" => faults > 0]_vars

Low == CountersReset /\ BackoffStaysLow /\ ForceUnlockNeedsFault

\* The types of the numbers compared.
LEMMA CountTypes ==
    ASSUME IInv
    PROVE  failures \in Nat /\ attempts \in Nat /\ last.failures \in Nat /\ faults \in Nat
  BY ConstantsAssumption DEF IInv, TypeOK

\* Faults are counted, never forgotten.
LEMMA FaultsCount ==
    ASSUME IInv
    PROVE  /\ Fault => faults' = faults + 1 /\ faults' > 0 /\ faults' \in Nat
           /\ NoFault => faults' = faults
  BY CountTypes DEF Fault, NoFault

\* Without a fault the first conflict is the only one its Update meets.
LEMMA ConflictBacksOff ==
    ASSUME IInv, NEW rest \in SUBSET timers, NEW conflicts \in Nat, OnConflict(rest, conflicts),
           ForceUnlockNeedsFault, conflicts > 0 => faults > 0
    PROVE  (\E t \in timers' : t.trigger = "LockRetry") => faults > 0
  <1>1. CASE conflicts = 0
    <2>1. Schedule(rest, Backoff(1), "Retry")
      BY <1>1, ConstantsAssumption DEF OnConflict
    <2> QED
      BY <2>1 DEF Schedule, ForceUnlockNeedsFault
  <1>2. CASE conflicts # 0
    BY <1>2
  <1> QED
    BY <1>1, <1>2

\* A reconcile.
LEMMA PipelineLow ==
    ASSUME IInv, Low, NEW rest \in SUBSET timers, NEW conflicts \in {0, attempts},
           Pipeline(rest, conflicts)
    PROVE  Low'
  <1>1. CASE PipelineFails(rest, conflicts) \/ Stalls(rest, conflicts)
    <2>1. /\ Fault /\ UNCHANGED status /\ attempts' = conflicts
          /\ failures' = failures \/ failures' = failures + 1
      BY <1>1 DEF PipelineFails, Stalls
    <2> QED
      BY <2>1, CountTypes, FaultsCount
      DEF Low, CountersReset, BackoffStaysLow, ForceUnlockNeedsFault, status
  <1>2. CASE WaitForUpdate(rest, conflicts)
    <2>1. /\ UNCHANGED <<status, failures, faults>> /\ attempts' = conflicts
          /\ timers' = rest \cup {[trigger |-> "Retry", left |-> Recheck]}
      BY <1>2 DEF WaitForUpdate, Schedule
    <2>2. ForceUnlockNeedsFault'
      BY <2>1 DEF Low, ForceUnlockNeedsFault
    <2> QED
      BY <2>1, <2>2, CountTypes DEF Low, CountersReset, BackoffStaysLow, status
  <1>3. CASE UpdateSucceeded(rest)
    <2>1. failures' = 0 /\ attempts' = 0 /\ timers' = rest
      BY <1>3 DEF UpdateSucceeded, NoRequeue
    <2>2. faults' \in Nat /\ faults <= faults'
      BY <1>3, CountTypes, FaultsCount DEF UpdateSucceeded
    <2>3. UNCHANGED last \/ last'.failures = 0
      <3>1. [state |-> "succeeded", locked |-> FALSE, failures |-> 0].failures = 0
        OBVIOUS
      <3>2. \/ UNCHANGED last
            \/ last' = [state |-> "succeeded", locked |-> FALSE, failures |-> 0]
        BY <1>3 DEF UpdateSucceeded, status
      <3> QED
        BY <3>1, <3>2
    <2> QED
      BY <2>1, <2>2, <2>3, CountTypes
      DEF Low, CountersReset, BackoffStaysLow, ForceUnlockNeedsFault
  <1>4. CASE UpdateFailed(rest, conflicts)
    <2>1. /\ current /\ failures' = failures + 1 /\ failures <= faults
          /\ conflicts > 0 => faults > 0
      BY <1>4, CountTypes DEF UpdateFailed, Low, CountersReset
    <2>2. CASE NoFault /\ current' = FALSE /\ last'.failures = failures + 1
      <3>1. faults' = faults
        BY <2>2 DEF NoFault
      <3>2. CountersReset' /\ BackoffStaysLow'
        BY <2>1, <2>2, <3>1, CountTypes DEF CountersReset, BackoffStaysLow
      <3>3. ForceUnlockNeedsFault'
        <4>1. CASE update = "locked"
          <5>1. OnConflict(rest, conflicts) /\ conflicts \in Nat
            BY <1>4, <4>1, CountTypes DEF UpdateFailed
          <5> QED
            BY <2>1, <3>1, <5>1, ConflictBacksOff DEF Low, ForceUnlockNeedsFault
        <4>2. CASE update # "locked"
          BY <1>4, <3>1, <4>2
          DEF UpdateFailed, RequeueAfterCooldown, Schedule, Low, ForceUnlockNeedsFault
        <4> QED
          BY <4>1, <4>2
      <3> QED
        BY <3>2, <3>3 DEF Low
    <2>3. CASE Fault /\ UNCHANGED status
      BY <2>1, <2>3, CountTypes, FaultsCount
      DEF Low, CountersReset, BackoffStaysLow, ForceUnlockNeedsFault, status
    <2>4. \A b : [state |-> "failed", locked |-> b, failures |-> failures + 1].failures
                   = failures + 1
      OBVIOUS
    <2>5. \/ /\ NoFault /\ current' = FALSE
             /\ \E b : last' = [state |-> "failed", locked |-> b, failures |-> failures + 1]
          \/ Fault /\ UNCHANGED status
      BY <1>4, Zenon DEF UpdateFailed
    <2> QED
      BY <2>2, <2>3, <2>4, <2>5
  <1>5. CASE NothingToDo(rest, conflicts)
    BY <1>5 DEF NothingToDo, NoRequeue, Low, CountersReset, BackoffStaysLow,
                ForceUnlockNeedsFault, status
  <1>6. CASE UpdateCreated(rest)
    <2>1. failures' = 0 /\ attempts' = 0 /\ timers' = rest
      BY <1>6 DEF UpdateCreated, NoRequeue
    <2>2. faults' \in Nat /\ faults <= faults'
      BY <1>6, CountTypes, FaultsCount DEF UpdateCreated
    <2>3. UNCHANGED last \/ last'.failures = 0
      BY <1>6 DEF UpdateCreated, status, NoLast
    <2> QED
      BY <2>1, <2>2, <2>3, CountTypes
      DEF Low, CountersReset, BackoffStaysLow, ForceUnlockNeedsFault
  <1> QED
    BY <1>1, <1>2, <1>3, <1>4, <1>5, <1>6 DEF Pipeline

\* Every step.
LEMMA StepLow == IInv /\ Low /\ [Next]_vars => Low'
  <1> SUFFICES ASSUME IInv, Low, [Next]_vars PROVE Low'
    OBVIOUS
  <1>1. CASE HandleEvent
    <2>1. CASE window = 0
      BY <1>1, <2>1, PipelineLow DEF HandleEvent
    <2>2. CASE window # 0
      BY <1>1, <2>2
      DEF HandleEvent, Low, CountersReset, BackoffStaysLow, ForceUnlockNeedsFault, status
    <2> QED
      BY <2>1, <2>2
  <1>2. CASE HandleRetry
    BY <1>2, PipelineLow DEF HandleRetry
  <1>3. CASE HandleLockRetry
    BY <1>3, PipelineLow DEF HandleLockRetry
  <1>4. CASE Tick
    <2>1. UNCHANGED <<last, current, failures, attempts, faults>>
      BY <1>4 DEF Tick, budget
    <2>2. ASSUME NEW t \in timers', t.trigger = "LockRetry"
          PROVE  \E u \in timers : u.trigger = "LockRetry"
      <3>1. PICK u \in timers : t = [u EXCEPT !.left = @ - 1]
        BY <1>4 DEF Tick
      <3>2. t.trigger = u.trigger
        BY <3>1 DEF IInv, TypeOK, Timer
      <3> QED
        BY <2>2, <3>2
    <2> QED
      BY <2>1, <2>2 DEF Low, CountersReset, BackoffStaysLow, ForceUnlockNeedsFault
  <1>5. CASE OperationEnds \/ LockReleased \/ EditSpec \/ UNCHANGED vars
    <2>1. UNCHANGED <<last, current, failures, attempts, timers, faults>>
      BY <1>5 DEF OperationEnds, LockReleased, EditSpec, vars, status, budget
    <2> QED
      BY <2>1 DEF Low, CountersReset, BackoffStaysLow, ForceUnlockNeedsFault
  <1> QED
    BY <1>1, <1>2, <1>3, <1>4, <1>5 DEF Next

\* The counters, along every behaviour.
LEMMA AlwaysLow == Spec => [](IInv /\ Low)
  <1>1. Init => Low
    BY ConstantsAssumption
    DEF Init, Low, CountersReset, BackoffStaysLow, ForceUnlockNeedsFault, NoLast
  <1> QED
    BY <1>1, InitIInv, StepIInv, StepLow, PTL DEF Spec

\* Only a LockRetry clears a stale lock.
LEMMA OnlyForceUnlock ==
    ASSUME Low, [Next]_vars, lock = "stale", lock' # "stale"
    PROVE  faults > 0
  <1>1. CASE HandleLockRetry
    BY <1>1 DEF HandleLockRetry, Low, ForceUnlockNeedsFault
  <1>2. CASE ~ HandleLockRetry
    BY <1>2 DEF Next, HandleEvent, HandleRetry, OperationEnds, LockReleased, EditSpec, Tick, vars
  <1> QED
    BY <1>1, <1>2

\* However often an Update fails, the status counts one failure, and one more for each
\* call of the API that failed: actor.rs resets failure_count for each Update it creates.
THEOREM CooldownDoesNotGrow == Spec => []BackoffStaysLow
  <1>1. Low => BackoffStaysLow
    BY DEF Low
  <1> QED
    BY <1>1, AlwaysLow, PTL

\* For any lock timeout: as long as no call fails, no force-unlock is scheduled and a
\* stale lock stays, as the LockState is reset with each Update that actor.rs creates.
THEOREM ForceUnlockByFaultOnly ==
    Spec => []ForceUnlockNeedsFault /\ LockClearedAfterFaultOnly
  <1>1. Low => ForceUnlockNeedsFault
    BY DEF Low
  <1>2. Low /\ [Next]_vars => [lock = "stale" /\ lock' # "stale" => faults > 0]_vars
    BY OnlyForceUnlock
  <1> QED
    BY <1>1, <1>2, AlwaysLow, PTL DEF Spec, LockClearedAfterFaultOnly
=============================================================================
