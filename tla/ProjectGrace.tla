----------------------------- MODULE ProjectGrace -----------------------------
(***************************************************************************)
(* A Stack whose cloud project may disappear: the check that precedes each *)
(* reconcile and the answer it caches in the status, the grace period that *)
(* pendingDeletionSince counts, reinstatement, and the cleanup at its end. *)
(*                                                                         *)
(* A reconcile is one step.  Of its normal flow only what touches the      *)
(* status and the requeue tasks is kept: StackLifecycle is the account of  *)
(* it, and of the deletion.  wake stands for watch events that wait, as in *)
(* LockRecovery.  Ages are capped where nothing tells them apart.          *)
(***************************************************************************)
EXTENDS Integers

CONSTANTS
    Recheck,      \* the five minutes an answer is cached, and a recheck waits
    Grace,        \* gracePeriodDays, shrunk to a few rechecks
    Late,         \* bound: how much later than its delay a task may be handled
    MaxFaults,    \* bound: calls that fail
    MaxFlips,     \* bound: the project disappears or returns
    MaxRestarts   \* bound: restarts of the operator

ASSUME ConstantsAssumption ==
    /\ Recheck \in Nat \ {0} /\ Grace \in Nat /\ Late \in Nat
    /\ MaxFaults \in Nat /\ MaxFlips \in Nat /\ MaxRestarts \in Nat

VARIABLES
    project,        \* in the cloud: "active" or "missing"
    onExpired,      \* onGracePeriodExpired
    stack,          \* "live", or "deleting"
    finalizer,      \* whether the Stack has its finalizer
    kustomization,  \* its owner: "none", "present", "deleted"
    pending,        \* since pendingDeletionSince, or Unset
    check,          \* lastProjectCheck
    current,        \* whether the status names a currentUpdate
    settled,        \* whether lastUpdate makes the Stack synced
    update,         \* the Update: "none", "running", "ended"
    tasks,          \* when the actor's requeue tasks fire
    window,         \* until next_reconcile_at
    wake,
    stalled,        \* whether the last reconcile ended in a permanent error
    faults, flips, restarts,
    absent,         \* history: since the first check that missed the project after the
                    \* last one that found it, or Unset
    mishaps         \* history, see Mishap

vars == <<project, onExpired, stack, finalizer, kustomization, pending, check, current,
          settled, update, tasks, window, wake, stalled, faults, flips, restarts, absent,
          mishaps>>
progress == <<current, settled, update>>
world    == <<project, onExpired, stack, flips, restarts>>

Unset   == -1
NoCheck == [result |-> "none", age |-> 0]
Short   == 1

\* What may go wrong with a Stack: two requeue tasks alive at once, a restart, a
\* reinstatement that was not recorded, calls that failed with nothing scheduled.
Mishap == {"overlap", "restart", "unrecorded", "abandoned"}

\* The type invariant.
TypeOK ==
    /\ project \in {"active", "missing"}
    /\ onExpired \in {"DeleteKustomization", "RemoveFinalizer"}
    /\ stack \in {"live", "deleting"}
    /\ kustomization \in {"none", "present", "deleted"}
    /\ finalizer \in BOOLEAN /\ current \in BOOLEAN /\ settled \in BOOLEAN /\ wake \in BOOLEAN
    /\ stalled \in BOOLEAN
    /\ pending \in Unset .. Grace /\ absent \in Unset .. Grace
    /\ check \in [result : {"none", "active", "not_found"}, age : 0 .. Recheck]
    /\ update \in {"none", "running", "ended"}
    /\ tasks \subseteq 0 .. Recheck + Late
    /\ window \in 0 .. Recheck
    /\ faults \in 0 .. MaxFaults /\ flips \in 0 .. MaxFlips
    /\ restarts \in 0 .. MaxRestarts
    /\ mishaps \subseteq Mishap

\* A new Stack, whose first event waits.
Init ==
    /\ project \in {"active", "missing"}
    /\ onExpired \in {"DeleteKustomization", "RemoveFinalizer"}
    /\ kustomization \in {"none", "present"}
    /\ stack = "live" /\ finalizer = FALSE
    /\ pending = Unset /\ check = NoCheck /\ current = FALSE /\ settled = FALSE
    /\ update = "none" /\ tasks = {} /\ window = 0 /\ wake = TRUE
    /\ stalled = FALSE /\ faults = 0 /\ flips = 0 /\ restarts = 0
    /\ absent = Unset /\ mishaps = {}

Least(a, b) == IF a < b THEN a ELSE b

---------------------------------------------------------------------------
(* The check.  rest are the requeue tasks other than the one that led here. *)

\* The rate limit: the last answer is given again for five minutes.
Cached == check.result # "none" /\ check.age < Recheck

Found == IF project = "active" THEN "active" ELSE "not_found"

\* check_project: the cached answer, or that of the cloud.  What counts as a fault: none (an
\* error, or no project in the Program's variables), and a body that cannot be parsed, which
\* passes for that of an active project.
Answers == IF Cached THEN {check.result} ELSE {Found, "unknown", "active"}
Cost(answer) == IF Cached \/ answer = Found THEN 0 ELSE 1

\* is_grace_period_expired, of a deletion that is pending.
GraceOver == pending >= Grace

\* What the checks have shown.
Witness(answer) ==
    absent' = IF Cached \/ answer = "unknown" THEN absent
              ELSE IF answer = "active" THEN Unset
              ELSE IF absent = Unset THEN 0 ELSE absent

Spend(n) == faults' = faults + n /\ faults' <= MaxFaults

Overlapping(rest) == IF rest = {} THEN {} ELSE {"overlap"}

\* A delay of the wrong unit.
ScheduleLonger(rest, delay) == tasks' = rest \cup {10 * delay} /\ window' = 10 * delay

Schedule(rest, delay) ==
    /\ \E left \in delay .. delay + Late : tasks' = rest \cup {left}
    /\ window' = delay

NoRequeue(rest) == tasks' = rest /\ window' = 0

\* A recheck while the answer is still cached.
RequeueSoon(rest) == Schedule(rest, Short)

\* The recheck of a missing project, once the cached answer is old.
RequeueRecheck(rest) == Schedule(rest, Recheck)

---------------------------------------------------------------------------
(* The outcomes of a reconcile. *)

\* Each check starts the grace period anew.
RestartGrace ==
    /\ pending' = 0
    /\ check' = [result |-> "not_found", age |-> 0]
    /\ current' = FALSE /\ settled' = FALSE

\* The status as the patch of a missing project leaves it: the time of the first such
\* patch is kept, the answer is stamped anew, all else is forgotten.
RecordNotFound ==
    /\ pending' = IF pending = Unset THEN 0 ELSE pending
    /\ check' = [result |-> "not_found", age |-> 0]
    /\ current' = FALSE /\ settled' = FALSE

ProjectNotFound(rest) ==
    /\ "not_found" \in Answers /\ ~GraceOver
    /\ Witness("not_found")
    /\ \/ Spend(0) /\ RecordNotFound /\ wake' = TRUE
       \/ Spend(1) /\ UNCHANGED <<pending, check, current, settled>> /\ wake' = FALSE
    /\ RequeueRecheck(rest)
    /\ mishaps' = mishaps \cup Overlapping(rest)
    /\ UNCHANGED <<finalizer, kustomization, update>>

\* A patch that leaves pendingDeletionSince.
KeepPending ==
    /\ check' = [result |-> "active", age |-> 0]
    /\ current' = FALSE /\ settled' = FALSE /\ UNCHANGED pending

RecordReinstated ==
    /\ pending' = Unset
    /\ check' = [result |-> "active", age |-> 0]
    /\ current' = FALSE /\ settled' = FALSE

ProjectReinstated(rest) ==
    /\ "active" \in Answers /\ pending # Unset
    /\ Witness("active")
    /\ Schedule(rest, Short)
    /\ \/ Spend(Cost("active")) /\ RecordReinstated /\ wake' = TRUE
          /\ mishaps' = (mishaps \ {"unrecorded"}) \cup Overlapping(rest)
       \/ Spend(Cost("active") + 1) /\ UNCHANGED <<pending, check, current, settled>>
          /\ wake' = FALSE
          /\ mishaps' = mishaps \cup Overlapping(rest) \cup {"unrecorded"}
    /\ UNCHANGED <<finalizer, kustomization, update>>

\* The configured cleanup; its failure is only logged.
DeleteKustomization ==
    /\ onExpired = "DeleteKustomization" /\ kustomization = "present"
    /\ kustomization' = "deleted" /\ UNCHANGED finalizer

RemoveFinalizer ==
    /\ onExpired = "RemoveFinalizer"
    /\ finalizer' = FALSE /\ UNCHANGED kustomization

NothingToDelete ==
    /\ onExpired = "DeleteKustomization" /\ kustomization # "present"
    /\ UNCHANGED <<finalizer, kustomization>>

\* The grace period is over: the status is wiped, the cleanup done, nothing scheduled.
ProjectTtlExpired(rest) ==
    /\ "not_found" \in Answers /\ GraceOver
    /\ Witness("not_found")
    /\ \E recorded, cleaned \in BOOLEAN :
         /\ Spend((IF recorded THEN 0 ELSE 1) + (IF cleaned THEN 0 ELSE 1))
         /\ IF recorded
              THEN /\ pending' = Unset /\ check' = NoCheck
                   /\ current' = FALSE /\ settled' = FALSE
              ELSE UNCHANGED <<pending, check, current, settled>>
         /\ IF cleaned
              THEN DeleteKustomization \/ RemoveFinalizer \/ NothingToDelete
              ELSE UNCHANGED <<finalizer, kustomization>>
         /\ wake' = (recorded \/ finalizer' # finalizer)
         /\ mishaps' = IF wake' THEN mishaps ELSE mishaps \cup {"abandoned"}
    /\ NoRequeue(rest)
    /\ UNCHANGED update

\* The normal flow, after a check that found the project or knows nothing.
WaitForUpdate(rest, cost) ==
    /\ current /\ update = "running"
    /\ Spend(cost)
    /\ Schedule(rest, Short)
    /\ wake' = FALSE
    /\ mishaps' = mishaps \cup Overlapping(rest)
    /\ UNCHANGED <<pending, check, progress>>

\* Recording the result of an Update drops the check; a failed one is retried.
UpdateFinished(rest, cost) ==
    /\ current /\ update = "ended"
    /\ \/ Spend(cost) /\ current' = FALSE /\ settled' \in BOOLEAN /\ update' = "none"
          /\ pending' = Unset /\ check' = NoCheck
       \/ Spend(cost + 1) /\ UNCHANGED <<pending, check, progress>>
    /\ \/ NoRequeue(rest) /\ UNCHANGED mishaps
       \/ Schedule(rest, Short) /\ mishaps' = mishaps \cup Overlapping(rest)
    /\ wake' = TRUE

Synced(rest, cost) ==
    /\ current => update = "none"
    /\ settled
    /\ Spend(cost)
    /\ NoRequeue(rest)
    /\ wake' = FALSE
    /\ UNCHANGED <<pending, check, progress, mishaps>>

\* An Update is created; recording that drops the grace period with the check.
UpdateCreated(rest, cost) ==
    /\ current => update = "none"
    /\ ~settled
    /\ update' = "running"
    /\ \/ Spend(cost) /\ current' = TRUE /\ pending' = Unset /\ check' = NoCheck
       \/ Spend(cost + 1) /\ UNCHANGED <<current, pending, check>>
    /\ NoRequeue(rest)
    /\ wake' = TRUE
    /\ UNCHANGED <<settled, mishaps>>

\* A call fails in a way that is retried, or the workspace is not ready.
FlowFails(rest, cost) ==
    /\ Spend(cost + 1)
    /\ Schedule(rest, Short)
    /\ wake' = FALSE
    /\ mishaps' = mishaps \cup Overlapping(rest)
    /\ UNCHANGED <<pending, check, progress>>

\* An error that is permanent, as ProgramNotFound, is not retried: nothing is scheduled.
Stalls(rest, cost) ==
    /\ current => update = "none"
    /\ Spend(cost)
    /\ NoRequeue(rest)
    /\ wake' = FALSE
    /\ UNCHANGED <<pending, check, progress, mishaps>>

NormalFlow(rest) ==
    /\ \E answer \in Answers :
         /\ answer # "not_found"
         /\ answer = "active" => pending = Unset
         /\ Witness(answer)
         /\ \/ /\ stalled' = FALSE
               /\ \/ WaitForUpdate(rest, Cost(answer))
                  \/ UpdateFinished(rest, Cost(answer))
                  \/ Synced(rest, Cost(answer))
                  \/ UpdateCreated(rest, Cost(answer))
                  \/ FlowFails(rest, Cost(answer))
            \/ stalled' = TRUE /\ Stalls(rest, Cost(answer))
    /\ UNCHANGED <<finalizer, kustomization>>

\* A Stack that is not deleted gets its finalizer first, also one that lost it to a
\* cleanup.
AddFinalizer(rest) ==
    /\ ~finalizer
    /\ \/ Spend(0) /\ finalizer' = TRUE /\ wake' = TRUE /\ UNCHANGED mishaps
       \/ Spend(1) /\ UNCHANGED finalizer /\ wake' = FALSE
          /\ mishaps' = mishaps \cup {"abandoned"}
    /\ NoRequeue(rest)
    /\ UNCHANGED <<kustomization, pending, check, progress, absent>>

\* Of a Stack that is deleted the project is not checked any more.
Deletion(rest) ==
    /\ stack = "deleting"
    /\ NoRequeue(rest)
    /\ wake' = FALSE
    /\ UNCHANGED <<finalizer, kustomization, pending, check, progress, faults, absent, mishaps>>

\* The read of the Stack fails before anything else.
GetFails(rest) ==
    /\ Spend(1)
    /\ Schedule(rest, Short)
    /\ wake' = FALSE
    /\ mishaps' = mishaps \cup Overlapping(rest)
    /\ UNCHANGED <<finalizer, kustomization, pending, check, progress, absent>>

Reconcile(rest) ==
    \/ /\ stalled' = FALSE
       /\ \/ GetFails(rest)
          \/ Deletion(rest)
          \/ stack = "live" /\ AddFinalizer(rest)
          \/ /\ stack = "live" /\ finalizer
             /\ \/ ProjectNotFound(rest) \/ ProjectReinstated(rest)
                \/ ProjectTtlExpired(rest)
    \/ stack = "live" /\ finalizer /\ NormalFlow(rest)

---------------------------------------------------------------------------

\* A watch event; within the window it is dropped.
HandleEvent ==
    /\ wake
    /\ \/ /\ window > 0
          /\ wake' = FALSE
          /\ UNCHANGED <<finalizer, kustomization, pending, check, progress, tasks, window,
                         stalled, faults, absent, mishaps>>
       \/ window = 0 /\ Reconcile(tasks)
    /\ UNCHANGED world

HandleRetry ==
    /\ 0 \in tasks
    /\ Reconcile(tasks \ {0})
    /\ UNCHANGED world

\* The project is shut down, or restored.
ProjectFlips ==
    /\ flips < MaxFlips /\ flips' = flips + 1
    /\ project' \in {"active", "missing"} \ {project}
    /\ UNCHANGED <<onExpired, stack, finalizer, kustomization, pending, check, progress, tasks,
                   window, wake, stalled, faults, restarts, absent, mishaps>>

UpdateEnds ==
    /\ update = "running" /\ update' = "ended" /\ wake' = TRUE
    /\ UNCHANGED <<world, finalizer, kustomization, pending, check, current, settled, tasks,
                   window, stalled, faults, absent, mishaps>>

\* The spec or its source changes.
EditSpec ==
    /\ settled' = FALSE /\ wake' = TRUE
    /\ UNCHANGED <<world, finalizer, kustomization, pending, check, current, update, tasks,
                   window, stalled, faults, absent, mishaps>>

\* Somebody deletes the Stack, or its Kustomization is gone.
DeleteStack ==
    /\ stack = "live" /\ stack' = "deleting" /\ wake' = TRUE
    /\ UNCHANGED <<project, onExpired, flips, restarts, finalizer, kustomization, pending,
                   check, progress, tasks, window, stalled, faults, absent, mishaps>>

\* The tasks are lost; the watch starts with an event for every Stack.
Restart ==
    /\ restarts < MaxRestarts /\ restarts' = restarts + 1
    /\ tasks' = {} /\ window' = 0 /\ wake' = TRUE
    /\ mishaps' = mishaps \cup {"restart"}
    /\ UNCHANGED <<project, onExpired, stack, flips, finalizer, kustomization, pending,
                   check, progress, stalled, faults, absent>>

\* Time passes, but not past the moment a task fires.
Tick ==
    /\ 0 \notin tasks
    /\ tasks' = {left - 1 : left \in tasks}
    /\ window' = IF window = 0 THEN 0 ELSE window - 1
    /\ pending' = IF pending = Unset THEN Unset ELSE Least(pending + 1, Grace)
    /\ absent' = IF absent = Unset THEN Unset ELSE Least(absent + 1, Grace)
    /\ check' = IF check.result = "none" THEN check ELSE [check EXCEPT !.age = Least(@ + 1, Recheck)]
    /\ UNCHANGED <<world, finalizer, kustomization, progress, wake, stalled, faults, mishaps>>

Next ==
    \/ HandleEvent \/ HandleRetry
    \/ ProjectFlips \/ UpdateEnds \/ EditSpec \/ DeleteStack \/ Restart \/ Tick

Spec == Init /\ [][Next]_vars

\* The actor handles what waits, operations end (they have a timeout), time passes.
FairSpec ==
    /\ Spec
    /\ WF_vars(HandleEvent) /\ WF_vars(HandleRetry) /\ WF_vars(UpdateEnds) /\ WF_vars(Tick)

---------------------------------------------------------------------------
(* Properties. *)

Cleanup == kustomization' # kustomization \/ (finalizer /\ ~finalizer')

\* A Stack is cleaned up only after its project was missed for the whole grace period, and
\* not found again in between, unless the reinstatement that followed was not recorded.
CleanupIsDue == [][Cleanup => absent >= Grace \/ "unrecorded" \in mishaps]_vars

\* The project of a Stack that is cleaned up is missing at that moment, unless requeue tasks
\* overlapped or the operator restarted, when a cached answer may be stamped again.
CleanupIsCurrent ==
    [][Cleanup => project = "missing" \/ "overlap" \in mishaps \/ "restart" \in mishaps]_vars

\* As long as the deletion of a Stack is pending, it will be looked at again, unless the
\* reconcile that followed a check without answer stalled, or the expiry or the finalizer
\* came to nothing.
RecheckComes ==
    pending # Unset /\ stack = "live" =>
        tasks # {} \/ wake \/ stalled \/ "abandoned" \in mishaps

\* A grace period ends: with the project's return or the cleanup, whatever is created, edited
\* or restarted in the meantime, unless a reconcile stalls.
GraceEnds ==
    pending # Unset /\ (onExpired = "RemoveFinalizer" \/ kustomization = "present")
      ~> \/ project = "active" \/ stack = "deleting"
         \/ kustomization = "deleted" \/ ~finalizer
         \/ stalled \/ "abandoned" \in mishaps
=============================================================================
