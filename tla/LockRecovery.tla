----------------------------- MODULE LockRecovery -----------------------------
(***************************************************************************)
(* When a Stack is tried again: the delays of retries after failures, lock *)
(* conflicts and errors, the cooldown that its status demands, and the     *)
(* force-unlock.  Time goes in units of ten seconds, shorter delays are    *)
(* rounded up to one.                                                      *)
(*                                                                         *)
(* A reconcile is one step here; StackLifecycle is the account of what     *)
(* happens between its calls.  The commit and the workspace stay the same. *)
(* wake stands for watch events that wait for the actor: every change of   *)
(* the Stack or its Update causes one.                                     *)
(***************************************************************************)
EXTENDS Naturals

CONSTANTS
    Cap,          \* retryMaxBackoffDurationSeconds
    LockTimeout,  \* lockTimeoutSeconds, at least a minute
    MaxFaults,    \* bound: calls of the actor that fail
    MaxEdits,     \* bound: edits of the spec
    MaxKills      \* bound: operations killed, which leave the lock behind

ASSUME ConstantsAssumption ==
    /\ Cap \in Nat \ {0} /\ LockTimeout \in Nat /\ LockTimeout >= 6
    /\ MaxFaults \in Nat /\ MaxEdits \in Nat /\ MaxKills \in Nat

VARIABLES
    last,      \* the status's lastUpdate
    since,     \* since its lastResyncTime
    current,   \* whether the status names a currentUpdate
    edited,    \* the spec's generation is not that of lastUpdate
    update,    \* the Update object
    lock,      \* of the Pulumi backend
    failures,  \* the actor's failure_count
    attempts,  \* its LockState: conflicts since first_seen
    seen,      \*   and how long ago that was
    timers,    \* its requeue tasks
    window,    \* until next_reconcile_at
    wake,
    stalled,   \* whether the last reconcile ended in a permanent error
    faults, edits, kills

vars == <<last, since, current, edited, update, lock, failures, attempts, seen, timers,
          window, wake, stalled, faults, edits, kills>>
status == <<last, since, current, edited>>
budget == <<faults, edits, kills>>

Least(a, b) == IF a < b THEN a ELSE b
Most(a, b)  == IF a < b THEN b ELSE a
MaxAge      == Most(Cap, LockTimeout)
MaxDelay    == Most(MaxAge, 30)

NoLast  == [state |-> "none", locked |-> FALSE, failures |-> 0]
Timer   == [trigger : {"Retry", "LockRetry"}, left : 0 .. MaxDelay]
Short   == 1
Recheck == 3

\* The type invariant.
TypeOK ==
    /\ last \in [state : {"none", "failed", "succeeded"}, locked : BOOLEAN, failures : Nat]
    /\ since \in 0 .. MaxAge /\ seen \in 0 .. MaxAge
    /\ current \in BOOLEAN /\ edited \in BOOLEAN /\ wake \in BOOLEAN /\ stalled \in BOOLEAN
    /\ update \in {"none", "running", "succeeded", "failed", "locked"}
    /\ lock \in {"free", "busy", "stale"}
    /\ failures \in Nat /\ attempts \in Nat
    /\ timers \subseteq Timer
    /\ window \in 0 .. MaxDelay
    /\ faults \in 0 .. MaxFaults /\ edits \in 0 .. MaxEdits /\ kills \in 0 .. MaxKills

\* A new Stack, whose first event waits.
Init ==
    /\ last = NoLast /\ since = 0 /\ current = FALSE /\ edited = FALSE
    /\ update = "none" /\ lock \in {"free", "busy", "stale"}
    /\ failures = 0 /\ attempts = 0 /\ seen = 0
    /\ timers = {} /\ window = 0 /\ wake = TRUE /\ stalled = FALSE
    /\ faults = 0 /\ edits = 0 /\ kills = 0

---------------------------------------------------------------------------
(* Delays. *)

Capped(delay, max) == IF delay \in 0 .. max THEN delay ELSE max

\* The exponential delay without its cap.
CooldownUncapped(n) == IF n = 0 THEN 0 ELSE 3 ^ Least(n, 30)

\* No retry of a failed Update before that.
Cooldown(n) == IF n = 0 THEN 0 ELSE Capped(3 ^ Least(n, 30), Cap)

\* LockState's backoff.
Backoff(n) == Capped(3 ^ Least(n, 20), LockTimeout)

\* RetryWithBackoff, in seconds: of a call of the API, of an artifact, of a workspace and of
\* a prerequisite that is not ready.
ApiError == [base |-> 1, max |-> 30]
NotReady == {[base |-> 5, max |-> 60], [base |-> 5, max |-> 120], [base |-> 10, max |-> 300]}

\* The delay after an error, doubled each time.
ErrorDelay(error, n) == (Capped(error.base * 2 ^ Least(n, 20), error.max) + 9) \div 10

\* A failed Stack that stays as it is until somebody edits it.
SyncedWhileFailed == ~edited /\ last.state # "none"

\* is_synced: the last Update fits the spec and succeeded, or failed a short time ago.
Synced ==
    /\ ~edited
    /\ \/ last.state = "succeeded"
       \/ last.state = "failed" /\ since < Cooldown(last.failures)

---------------------------------------------------------------------------
(* The actor.  rest are the requeue tasks other than the one that led here, conflicts *)
(* the LockState's attempts as a force-unlock may have left them. *)

Fault   == faults < MaxFaults /\ faults' = faults + 1
NoFault == UNCHANGED faults

Schedule(rest, delay, trigger) ==
    /\ timers' = rest \cup {[trigger |-> trigger, left |-> delay]}
    /\ window' = delay

NoRequeue(rest) == timers' = rest /\ window' = 0

\* handle_error counts and backs off: a call of the API fails, or nothing is under way and
\* something the next Update needs is not ready.  A failed read of the Stack is not counted.
PipelineFails(rest, conflicts) ==
    /\ Fault
    /\ \/ \E error \in {ApiError} \cup (IF current THEN {} ELSE NotReady) :
             failures' = failures + 1 /\ Schedule(rest, ErrorDelay(error, failures + 1), "Retry")
       \/ UNCHANGED failures /\ Schedule(rest, Short, "Retry")
    /\ attempts' = conflicts
    /\ wake' = FALSE
    /\ UNCHANGED <<status, update, seen>>

\* An error that is permanent, as that of a spec or a source: nothing is scheduled.
Stalls(rest, conflicts) ==
    /\ ~current
    /\ Fault
    /\ NoRequeue(rest)
    /\ attempts' = conflicts
    /\ wake' = FALSE
    /\ UNCHANGED <<status, update, failures, seen>>

\* The Update runs: look again in half a minute.
WaitForUpdate(rest, conflicts) ==
    /\ current /\ update = "running"
    /\ Schedule(rest, Recheck, "Retry")
    /\ attempts' = conflicts
    /\ wake' = FALSE
    /\ UNCHANGED <<status, update, failures, seen, faults>>

\* It succeeded: the counters are reset and the result recorded, if the patch succeeds.
UpdateSucceeded(rest) ==
    /\ current /\ update = "succeeded"
    /\ failures' = 0 /\ attempts' = 0 /\ seen' = 0
    /\ NoRequeue(rest)
    /\ \/ /\ NoFault
          /\ last' = [state |-> "succeeded", locked |-> FALSE, failures |-> 0]
          /\ since' = 0 /\ current' = FALSE /\ edited' = FALSE
       \/ Fault /\ UNCHANGED status
    /\ wake' = TRUE
    /\ UNCHANGED update

\* A retry after a fixed time.
RequeueSoon(rest, n) == Schedule(rest, Recheck, "Retry")

\* A retry when the cooldown is over.
RequeueAfterCooldown(rest, n) == Schedule(rest, Cooldown(n), "Retry")

\* A lock conflict: force-unlock once the first is LockTimeout ago, else back off.
OnConflict(rest, conflicts) ==
    LET age == IF conflicts = 0 THEN 0 ELSE seen IN
    /\ attempts' = conflicts + 1 /\ seen' = age
    /\ IF age >= LockTimeout
         THEN Schedule(rest, Short, "LockRetry")
         ELSE Schedule(rest, Backoff(conflicts + 1), "Retry")

\* It failed: counted and recorded, and the next try scheduled.
UpdateFailed(rest, conflicts) ==
    /\ current /\ update \in {"failed", "locked"}
    /\ failures' = failures + 1
    /\ \/ /\ NoFault
          /\ last' = [state |-> "failed", locked |-> update = "locked",
                      failures |-> failures + 1]
          /\ since' = 0 /\ current' = FALSE /\ edited' = FALSE
       \/ Fault /\ UNCHANGED status
    /\ IF update = "locked"
         THEN OnConflict(rest, conflicts)
         ELSE /\ RequeueAfterCooldown(rest, failures + 1)
              /\ attempts' = conflicts /\ UNCHANGED seen
    /\ wake' = TRUE
    /\ UNCHANGED update

NothingToDo(rest, conflicts) ==
    /\ ~current /\ Synced
    /\ NoRequeue(rest)
    /\ attempts' = conflicts
    /\ wake' = FALSE
    /\ UNCHANGED <<status, update, failures, seen, faults>>

\* The Update is created (or, of the same name, created anew), the counters are reset;
\* recording it wipes lastUpdate.
UpdateCreated(rest) ==
    /\ ~current /\ ~Synced
    /\ update' = "running"
    /\ failures' = 0 /\ attempts' = 0 /\ seen' = 0
    /\ NoRequeue(rest)
    /\ \/ NoFault /\ last' = NoLast /\ since' = 0 /\ current' = TRUE /\ UNCHANGED edited
       \/ Fault /\ UNCHANGED status
    /\ wake' = TRUE

Pipeline(rest, conflicts) ==
    \/ /\ stalled' = FALSE
       /\ \/ PipelineFails(rest, conflicts)
          \/ WaitForUpdate(rest, conflicts)
          \/ UpdateSucceeded(rest)
          \/ UpdateFailed(rest, conflicts)
          \/ NothingToDo(rest, conflicts)
          \/ UpdateCreated(rest)
    \/ stalled' = TRUE /\ Stalls(rest, conflicts)

\* A watch event; within the window it is dropped.
HandleEvent ==
    /\ wake
    /\ \/ /\ window > 0
          /\ wake' = FALSE
          /\ UNCHANGED <<status, update, failures, attempts, seen, timers, window, stalled,
                         faults>>
       \/ window = 0 /\ Pipeline(timers, attempts)
    /\ UNCHANGED lock
    /\ UNCHANGED <<edits, kills>>

\* A Retry of a requeue task, whatever the window.
HandleRetry ==
    /\ \E t \in timers :
         t.trigger = "Retry" /\ t.left = 0 /\ Pipeline(timers \ {t}, attempts)
    /\ UNCHANGED <<lock, edits, kills>>

\* A LockRetry: CancelUpdate clears the lock, whoever holds it, or cannot be delivered;
\* the pipeline follows.
HandleLockRetry ==
    /\ \E t \in timers :
         /\ t.trigger = "LockRetry" /\ t.left = 0
         /\ \/ lock' = "free" /\ Pipeline(timers \ {t}, 0)
            \/ UNCHANGED lock /\ Pipeline(timers \ {t}, attempts)
    /\ UNCHANGED <<edits, kills>>

---------------------------------------------------------------------------
(* The rest of the world. *)

\* The executor ends the Update: it met the lock, succeeded, failed, or was killed.
OperationEnds ==
    /\ update = "running"
    /\ \/ lock # "free" /\ update' = "locked" /\ UNCHANGED <<lock, kills>>
       \/ lock = "free" /\ update' \in {"succeeded", "failed"} /\ UNCHANGED <<lock, kills>>
       \/ /\ lock = "free" /\ kills < MaxKills
          /\ kills' = kills + 1
          /\ update' = "failed" /\ lock' = "stale"
    /\ wake' = TRUE
    /\ UNCHANGED <<status, failures, attempts, seen, timers, window, stalled, faults,
                   edits>>

\* Another user of the backend ends.
LockReleased ==
    /\ lock = "busy" /\ lock' = "free"
    /\ UNCHANGED <<status, update, failures, attempts, seen, timers, window, wake, stalled,
                   budget>>

EditSpec ==
    /\ edits < MaxEdits /\ edits' = edits + 1
    /\ edited' = TRUE /\ wake' = TRUE
    /\ UNCHANGED <<last, since, current, update, lock, failures, attempts, seen, timers, window,
                   stalled, faults, kills>>

\* Ten seconds pass; what is due is handled before.
Tick ==
    /\ \A t \in timers : t.left > 0
    /\ timers' = {[t EXCEPT !.left = @ - 1] : t \in timers}
    /\ window' = IF window = 0 THEN 0 ELSE window - 1
    /\ since' = Least(since + 1, MaxAge)
    /\ seen' = IF attempts = 0 THEN 0 ELSE Least(seen + 1, MaxAge)
    /\ UNCHANGED <<last, current, edited, update, lock, failures, attempts, wake, stalled,
                   budget>>

---------------------------------------------------------------------------

Next ==
    \/ HandleEvent \/ HandleRetry \/ HandleLockRetry
    \/ OperationEnds \/ LockReleased \/ EditSpec \/ Tick

Spec == Init /\ [][Next]_vars

\* The actor handles what waits, operations end (they have a timeout), time passes.
FairSpec ==
    /\ Spec
    /\ WF_vars(HandleEvent) /\ WF_vars(HandleRetry) /\ WF_vars(HandleLockRetry)
    /\ WF_vars(OperationEnds) /\ WF_vars(Tick)

---------------------------------------------------------------------------
(* Properties. *)

\* A failure that had nothing to do with the lock is never forgotten: as long as the
\* status tells of it, a requeue task will end when its cooldown is over, or the cooldown
\* is over and an event waits or will come, unless a reconcile since then stalled.
RetryComes ==
    last.state = "failed" /\ ~last.locked =>
       \/ \E t \in timers : t.left + since >= Cooldown(last.failures)
       \/ since >= Cooldown(last.failures) /\ (wake \/ update = "running" \/ stalled)

\* And it is retried: the status does not stay failed, unless a reconcile stalls.
FailureRetried == (last.state = "failed" /\ ~last.locked) ~> (last.state # "failed" \/ stalled)

\* A stale lock of the backend is cleared.
StaleLockCleared == (lock = "stale") ~> (lock # "stale")
=============================================================================
