------------------------- MODULE CurrentUpdate_proofs -------------------------
(***************************************************************************)
(* Theorems of StackLifecycle about the Update that currentUpdate names:   *)
(* which commit is recorded for it, that no other one is in flight, that   *)
(* the workspace and the finalizer do not go before it is over.  They hold *)
(* for every set of commits and names, every Stack spec and all bounds.    *)
(***************************************************************************)
EXTENDS StackLifecycle_proofs, FiniteSetTheorems, TLAPS

(* What the steps of the operator do to the status, the Updates and the     *)
(* actor.  Every step is of one of these kinds, or a restart.               *)

SameStatus == /\ stack'.current = stack.current /\ stack'.last = stack.last
              /\ stack'.present => stack.present

NoneCreated == \A n \in UpdateNames : (InFlight(n)' => InFlight(n)) /\ (Absent(n) => Absent(n)')

NothingElse == UNCHANGED <<config, backend, exec>>

\* A step of others, or one of the actor after which it still waits for a message.
Aside == /\ UNCHANGED <<actor, lastCommit, config>>
         /\ SameStatus /\ NoneCreated
         /\ stack'.finalizer = stack.finalizer /\ (stack.deleting => stack'.deleting)

\* The message is handled without a patch of the status.
Ends == /\ actor.pc # "recordCreated" /\ actor' = Idle
        /\ UNCHANGED lastCommit
        /\ SameStatus /\ NoneCreated /\ NothingElse
        /\ stack'.deleting = stack.deleting
        /\ stack.finalizer /\ ~stack'.finalizer =>
               actor.pc \in {"removeFinalizer", "removeAfterDestroy"}

Enters == /\ actor.pc = "idle" /\ FirstStep(stack) # "idle"
          /\ actor'.pc = FirstStep(stack) /\ actor'.snap = stack
          /\ UNCHANGED <<stack, updates, lastCommit>> /\ NothingElse

Checks == /\ actor.pc = "check" /\ ~InFlight(actor.snap.current)
          /\ actor'.pc = AfterCheck(updates[actor.snap.current].phase, actor.snap.deleting)
          /\ actor'.name = actor.snap.current /\ actor'.snap = actor.snap
          /\ UNCHANGED <<stack, updates, lastCommit>> /\ NothingElse

Moves == /\ actor.pc \in {"resolve", "gate", "ensure"} /\ actor'.pc \in {"ensure", "create"}
         /\ actor'.snap = actor.snap
         /\ UNCHANGED <<stack, updates, lastCommit>> /\ NothingElse

\* An Update is created, or one in flight is taken for the one to create.
Creates(n) ==
    /\ actor.pc \in {"create", "recreate"} /\ actor'.pc = "recordCreated" /\ actor'.name = n
    /\ \/ Absent(n) /\ updates' = [updates EXCEPT ![n] = Created]
       \/ InFlight(n) /\ updates' = updates
    /\ lastCommit' = IF n \in Commits THEN n ELSE lastCommit
    /\ n \in DestroyNames => actor.snap.deleting
    /\ actor'.snap = actor.snap
    /\ UNCHANGED stack /\ NothingElse

\* An Update that is over makes room for one of its name.
Frees(n) ==
    /\ actor.pc = "create" /\ actor'.pc = "recreate"
    /\ actor'.name = n /\ actor'.commit = n /\ actor'.snap = actor.snap
    /\ NoneCreated
    /\ UNCHANGED <<stack, lastCommit>> /\ NothingElse

\* A call that failed, or a part of it.
Fails == faults' = faults + 1 /\ crashes' = crashes

RecordsCreation ==
    /\ actor.pc = "recordCreated" /\ actor' = Idle
    /\ \/ stack' = [stack EXCEPT !.current = actor.name, !.last = NoLast]
       \/ stack' = stack /\ Fails /\ ~Undisturbed'
    /\ UNCHANGED <<updates, lastCommit>> /\ NothingElse

RecordsResult ==
    /\ \/ /\ actor.pc \in {"recordSucceeded", "recordFailed"}
          /\ actor'.pc \in {"finishSucceeded", "finishFailed"} /\ actor'.name = actor.name
       \/ actor.pc = "recordDestroyFailed" /\ actor' = Idle
    /\ \/ \E last \in LastUpdate :
             /\ stack' = [stack EXCEPT !.current = None, !.last = last]
             /\ last.name = actor.name
             /\ last.commit = IF actor.pc = "recordDestroyFailed" THEN None ELSE lastCommit
       \/ stack' = stack /\ ~Undisturbed'
    /\ UNCHANGED <<updates, lastCommit>> /\ NothingElse

\* Failures and restarts are not forgotten.
Calm == /\ Undisturbed' => Undisturbed
        /\ faults' >= faults /\ crashes' >= crashes

LEMMA OutcomeCalm ==
    ASSUME TypeOK, NEW ok \in BOOLEAN, Outcome(ok)
    PROVE  Calm /\ (Undisturbed' => ok) /\ (ok \/ Fails)
BY DEF Outcome, TypeOK, Calm, Undisturbed, Fails

LEMMA BudgetCalm == ASSUME TypeOK, UNCHANGED budgetVars PROVE Calm
BY DEF TypeOK, budgetVars, Calm, Undisturbed

LEMMA CrashDisturbs == ASSUME TypeOK, Crash PROVE ~Undisturbed'
<1>1. crashes \in Nat /\ crashes' = crashes + 1
  BY DEF Crash, TypeOK
<1> QED
  BY <1>1 DEF Undisturbed

LEMMA StepCalm == ASSUME TypeOK, [Next]_vars PROVE Calm
<1>3. CASE Actor
  <2>1. UNCHANGED budgetVars \/ \E ok \in BOOLEAN : Outcome(ok)
    <3>1. CASE Debounced \/ StepFails \/ AddFinalizer \/ RemoveFinalizer
      BY <3>1 DEF Debounced, StepFails, AddFinalizer, RemoveFinalizer
    <3>2. CASE \E trigger \in Triggers :
                  Reconcile(trigger) \/ CleanupOrphans(trigger) \/ GetFails(trigger)
      BY <3>2 DEF Reconcile, CleanupOrphans, GetFails
    <3>3. CASE CheckUpdate \/ DestroyGate \/ ResolveSource \/ EnsureWorkspace
      BY <3>3 DEF CheckUpdate, DestroyGate, ResolveSource, EnsureWorkspace, budgetVars
    <3>4. CASE CreateUpdate
      BY <3>4 DEF CreateUpdate
    <3>5. CASE RecreateUpdate \/ CreateDestroy
      BY <3>5 DEF RecreateUpdate, CreateDestroy, budgetVars
    <3>6. CASE RecordCreated \/ RecordSucceeded \/ RecordFailed \/ RecordDestroyFailed
      BY <3>6 DEF RecordCreated, RecordSucceeded, RecordFailed, RecordDestroyFailed
    <3>7. CASE FinishUpdate
      BY <3>7 DEF FinishUpdate
    <3> QED
      BY <1>3, <3>1, <3>2, <3>3, <3>4, <3>5, <3>6, <3>7 DEF Actor
  <2> QED
    BY <2>1, OutcomeCalm, BudgetCalm
<1>4. CASE User \/ Cluster
  <2>1. UNCHANGED budgetVars
    BY <1>4 DEF User, Cluster, EditSpec, AdvanceSource, DeleteStack, CooldownElapses,
       DebounceElapses, PodReady, StackGone, CollectUpdate, CollectWorkspace
  <2> QED
    BY <2>1, BudgetCalm
<1>5. CASE Crash
  <2>1. ~Undisturbed' /\ crashes' = crashes + 1 /\ faults' = faults
    BY <1>5, CrashDisturbs DEF Crash
  <2> QED
    BY <2>1 DEF Calm, TypeOK
<1>6. ASSUME NEW n \in UpdateNames, WatchUpdate(n) \/ ExecutorStep(n) PROVE Calm
  <2>1. CASE ExecStream(n)
    BY <2>1 DEF ExecStream, Calm, Undisturbed, TypeOK
  <2>2. CASE ~ExecStream(n)
    <3>1. UNCHANGED budgetVars \/ \E ok \in BOOLEAN : Outcome(ok)
      BY <1>6, <2>2 DEF WatchUpdate, ExecutorStep, ExecStart, ExecConfig, ExecReport, ExecNotify
    <3> QED
      BY <3>1, OutcomeCalm, BudgetCalm
  <2> QED
    BY <2>1, <2>2
<1>7. CASE UNCHANGED vars
  BY <1>7 DEF vars, Calm, Undisturbed, TypeOK
<1> QED
  BY <1>3, <1>4, <1>5, <1>6, <1>7 DEF Next

-------------------------------------------------------------------------------
(* The steps of each kind *)

LEMMA ExecutorAside ==
    ASSUME Inv, NEW n \in UpdateNames, WatchUpdate(n) \/ ExecutorStep(n)
    PROVE  Aside
<1> USE DEF Inv
<1>1. UNCHANGED <<stack, actor, lastCommit, config>>
  BY DEF WatchUpdate, ExecutorStep, ExecStart, ExecConfig, ExecStream, ExecReport, ExecNotify,
     ActorUnchanged, worldVars
<1>2. \A m \in UpdateNames : m # n => updates'[m] = updates[m]
  BY DEF WatchUpdate, ExecutorStep, ExecStart, ExecConfig, ExecStream, ExecReport, ExecNotify,
     PatchPhase, TypeInv, TypeOK
<1>3. (InFlight(n)' => InFlight(n)) /\ (Absent(n) => Absent(n)')
  <2>1. CASE ExecStart(n)
    <3>1. updates[n].phase \in {"new", "unused", "gone"}
      BY <2>1 DEF ExecStart, Protection, StartedIsNew
    <3>2. CASE updates[n].phase = "new"
      BY <3>2 DEF InFlight, Absent
    <3>3. CASE updates' = updates
      BY <3>3 DEF InFlight, Absent
    <3> QED
      BY <2>1, <3>1, <3>2, <3>3 DEF ExecStart, PatchPhase, Absent
  <2>2. CASE ExecReport(n)
    <3>1. CASE updates' = updates
      BY <3>1 DEF InFlight, Absent
    <3>2. CASE ~Absent(n) /\ updates' = [updates EXCEPT ![n].phase = exec[n].result]
      <4>1. updates'[n].phase = exec[n].result
        BY <3>2 DEF TypeInv, TypeOK, UpdateObject
      <4>2. exec[n].result \in {"succeeded", "failed"}
        BY DEF TypeInv, TypeOK, Executor
      <4> QED
        BY <3>2, <4>1, <4>2 DEF InFlight
    <3> QED
      BY <2>2, <3>1, <3>2 DEF ExecReport, PatchPhase
  <2>3. CASE ~ExecStart(n) /\ ~ExecReport(n)
    <3>1. updates' = updates
      BY <2>3 DEF WatchUpdate, ExecutorStep, ExecConfig, ExecStream, ExecNotify
    <3> QED
      BY <3>1 DEF InFlight, Absent
  <2> QED
    BY <2>1, <2>2, <2>3
<1>4. NoneCreated
  BY <1>2, <1>3 DEF NoneCreated, InFlight, Absent
<1> QED
  BY <1>1, <1>4 DEF Aside, SameStatus

LEMMA SameUpdates == ASSUME updates' = updates PROVE NoneCreated
BY DEF NoneCreated, InFlight, Absent

\* Removing an Update's finalizer, or the Update, creates none.
LEMMA RemovalCreatesNone ==
    ASSUME TypeOK,
           \A n \in UpdateNames :
               updates'[n] \in {updates[n], Stripped(updates[n]), Deleted(updates[n]),
                                Deleted(Stripped(updates[n]))}
    PROVE  NoneCreated
<1> SUFFICES ASSUME NEW n \in UpdateNames
             PROVE  (InFlight(n)' => InFlight(n)) /\ (Absent(n) => Absent(n)')
  BY DEF NoneCreated
<1>1. ASSUME NEW u \in UpdateObject
      PROVE  Stripped(u).phase \in {u.phase, "gone"} /\ Deleted(u).phase \in {u.phase, "gone"}
  BY DEF Stripped, Deleted, Gone, UpdateObject
<1>2. updates[n] \in UpdateObject /\ Stripped(updates[n]) \in UpdateObject
  BY UpdateTypes DEF TypeOK
<1>3. updates'[n].phase \in {updates[n].phase, "gone"}
  BY <1>1, <1>2
<1> QED
  BY <1>3 DEF InFlight, Absent

LEMMA SurroundingsAside ==
    ASSUME Inv, User \/ Cluster
    PROVE  Aside
<1> USE DEF Inv
<1>1. CASE User
  <2>1. UNCHANGED <<updates, actor, lastCommit, config>>
    BY <1>1 DEF User, EditSpec, AdvanceSource, DeleteStack, OperatorUnchanged, worldVars
  <2>2. /\ SameStatus /\ stack'.finalizer = stack.finalizer
        /\ stack.deleting => stack'.deleting
    BY <1>1 DEF User, EditSpec, AdvanceSource, DeleteStack, SameStatus, TypeInv, TypeOK,
       StackObject
  <2> QED
    BY <2>1, <2>2, SameUpdates DEF Aside
<1>2. CASE CooldownElapses \/ DebounceElapses \/ PodReady \/ CollectWorkspace
  <2>1. UNCHANGED <<updates, actor, lastCommit, config, stack>>
    BY <1>2 DEF CooldownElapses, DebounceElapses, PodReady, CollectWorkspace,
       OperatorUnchanged, worldVars
  <2> QED
    BY <2>1, SameUpdates DEF Aside, SameStatus
<1>3. CASE StackGone
  <2>1. UNCHANGED <<updates, actor, lastCommit, config>>
    BY <1>3 DEF StackGone, OperatorUnchanged, worldVars
  <2>2. /\ SameStatus /\ stack'.finalizer = stack.finalizer
        /\ stack.deleting => stack'.deleting
    BY <1>3 DEF StackGone, SameStatus, TypeInv, TypeOK, StackObject
  <2> QED
    BY <2>1, <2>2, SameUpdates DEF Aside
<1>4. ASSUME NEW n \in UpdateNames, CollectUpdate(n) PROVE Aside
  <2>1. UNCHANGED <<actor, lastCommit, config, stack>>
    BY <1>4 DEF CollectUpdate, OperatorUnchanged, worldVars
  <2>2. NoneCreated
    BY <1>4, RemovalCreatesNone DEF CollectUpdate, TypeInv, TypeOK
  <2> QED
    BY <2>1, <2>2 DEF Aside, SameStatus
<1> QED
  BY <1>1, <1>2, <1>3, <1>4 DEF Cluster

LEMMA TriggerKinds ==
    ASSUME Inv, NEW trigger \in Triggers,
           Reconcile(trigger) \/ CleanupOrphans(trigger) \/ GetFails(trigger)
    PROVE  Aside \/ Ends \/ Enters
<1> USE DEF Inv
<1>1. CASE Reconcile(trigger)
  <2>1. UNCHANGED <<stack, updates, lastCommit, config, backend, exec>>
    BY <1>1 DEF Reconcile, worldVars, executorVars
  <2>2. actor.pc = "idle"
    BY <1>1 DEF Reconcile, Proceed, Dequeue
  <2>3. CASE FirstStep(stack) = "idle"
    BY <1>1, <2>1, <2>2, <2>3, SameUpdates DEF Reconcile, Finish, Ends, SameStatus, NothingElse
  <2>4. CASE FirstStep(stack) # "idle"
    <3>1. actor'.pc = FirstStep(stack) /\ actor'.snap = stack
      BY <1>1, <2>4, IdleType DEF Reconcile, ActorObject
    <3> QED
      BY <2>1, <2>2, <2>4, <3>1 DEF Enters, NothingElse
  <2> QED
    BY <2>3, <2>4
<1>2. CASE CleanupOrphans(trigger)
  <2>1. UNCHANGED <<stack, actor, lastCommit, config>>
    BY <1>2 DEF CleanupOrphans, worldVars
  <2>2. NoneCreated
    BY <1>2, RemovalCreatesNone DEF CleanupOrphans, TypeInv, TypeOK
  <2> QED
    BY <2>1, <2>2 DEF Aside, SameStatus
<1>3. CASE GetFails(trigger)
  <2>1. UNCHANGED <<stack, updates, actor, lastCommit, config>>
    BY <1>3 DEF GetFails, worldVars
  <2> QED
    BY <2>1, SameUpdates DEF Aside, SameStatus
<1> QED
  BY <1>1, <1>2, <1>3

LEMMA FinalizerKinds ==
    ASSUME Inv, Debounced \/ StepFails \/ AddFinalizer \/ RemoveFinalizer
    PROVE  Aside \/ Ends
<1> USE DEF Inv
<1>1. CASE Debounced
  <2>1. UNCHANGED <<stack, updates, actor, lastCommit, config>>
    BY <1>1 DEF Debounced, worldVars
  <2> QED
    BY <2>1, SameUpdates DEF Aside, SameStatus
<1>2. CASE StepFails \/ AddFinalizer \/ RemoveFinalizer
  <2>1. /\ actor.pc # "recordCreated" /\ actor' = Idle
        /\ UNCHANGED <<updates, lastCommit, config, backend, exec>>
    BY <1>2 DEF StepFails, AddFinalizer, RemoveFinalizer, Finish, worldVars, executorVars
  <2>2. /\ SameStatus /\ stack'.deleting = stack.deleting
        /\ stack.finalizer /\ ~stack'.finalizer =>
               actor.pc \in {"removeFinalizer", "removeAfterDestroy"}
    <3>1. CASE StepFails
      BY <3>1 DEF StepFails, SameStatus
    <3>2. CASE AddFinalizer
      BY <3>2 DEF AddFinalizer, SameStatus, TypeInv, TypeOK, StackObject
    <3>3. CASE RemoveFinalizer
      BY <3>3 DEF RemoveFinalizer, RemoveStackFinalizer, SameStatus, TypeInv, TypeOK, StackObject
    <3> QED
      BY <1>2, <3>1, <3>2, <3>3
  <2> QED
    BY <2>1, <2>2, SameUpdates DEF Ends, NothingElse
<1> QED
  BY <1>1, <1>2

LEMMA PipelineKinds ==
    ASSUME Inv, CheckUpdate \/ DestroyGate \/ ResolveSource \/ EnsureWorkspace
    PROVE  Ends \/ Checks \/ Moves
<1> USE DEF Inv
<1>1. UNCHANGED <<stack, updates, lastCommit, config, backend, exec>>
  BY DEF CheckUpdate, DestroyGate, ResolveSource, EnsureWorkspace, worldVars, executorVars
<1>2. ASSUME actor' = Idle, actor.pc # "recordCreated" PROVE Ends
  BY <1>1, <1>2, SameUpdates DEF Ends, SameStatus, NothingElse
<1>3. CASE CheckUpdate
  <2>1. CASE InFlight(actor.snap.current)
    BY <1>2, <1>3, <2>1 DEF CheckUpdate, Finish
  <2>2. CASE ~InFlight(actor.snap.current)
    <3>1. actor' = [actor EXCEPT
             !.pc = AfterCheck(updates[actor.snap.current].phase, actor.snap.deleting),
             !.name = actor.snap.current]
      BY <1>3, <2>2 DEF CheckUpdate
    <3> QED
      BY <1>1, <1>3, <2>2, <3>1 DEF CheckUpdate, Checks, NothingElse, TypeInv, TypeOK, ActorObject
  <2> QED
    BY <2>1, <2>2
<1>4. CASE DestroyGate
  <2>1. actor' = Idle \/ (actor'.pc = "ensure" /\ actor'.snap = actor.snap)
    BY <1>4 DEF DestroyGate, Finish, Goto, TypeInv, TypeOK, ActorObject
  <2> QED
    BY <1>1, <1>2, <1>4, <2>1 DEF DestroyGate, Moves, NothingElse
<1>5. CASE ResolveSource
  <2>1. actor' = Idle \/ (actor'.pc = "ensure" /\ actor'.snap = actor.snap)
    BY <1>5 DEF ResolveSource, Finish, TypeInv, TypeOK, ActorObject
  <2> QED
    BY <1>1, <1>2, <1>5, <2>1 DEF ResolveSource, Moves, NothingElse
<1>6. CASE EnsureWorkspace
  <2>1. actor' = Idle \/ (actor'.pc = "create" /\ actor'.snap = actor.snap)
    BY <1>6 DEF EnsureWorkspace, Finish, Goto, TypeInv, TypeOK, ActorObject
  <2> QED
    BY <1>1, <1>2, <1>6, <2>1 DEF EnsureWorkspace, Moves, NothingElse
<1> QED
  BY <1>3, <1>4, <1>5, <1>6

LEMMA CreationKinds ==
    ASSUME Inv, CreateUpdate \/ RecreateUpdate \/ CreateDestroy,
           actor.pc = "recreate" => actor.name = actor.commit
    PROVE  Ends \/ \E n \in UpdateNames : Creates(n) \/ Frees(n)
<1> USE DEF Inv
<1>1. UNCHANGED <<stack, config, backend, exec>>
  BY DEF CreateUpdate, RecreateUpdate, CreateDestroy, worldVars, executorVars
<1>2. CASE CreateUpdate
  <2> DEFINE n == actor.commit
  <2>1. n \in Commits /\ n \in UpdateNames /\ n \notin DestroyNames /\ actor.pc = "create"
    BY <1>2, ConstantsAssumption DEF CreateUpdate, TypeInv, ActorKnows, UpdateNames
  <2>2. CASE actor' = [actor EXCEPT !.pc = "recordCreated", !.name = n]
    <3>1. /\ lastCommit' = n
          /\ \/ Absent(n) /\ updates' = [updates EXCEPT ![n] = Created]
             \/ InFlight(n) /\ updates' = updates
      <4>1. ~(actor' = [actor EXCEPT !.pc = "recreate", !.name = n])
        BY <2>2 DEF TypeInv, TypeOK, ActorObject
      <4> QED
        BY <1>2, <4>1 DEF CreateUpdate
    <3>2. actor'.pc = "recordCreated" /\ actor'.name = n /\ actor'.snap = actor.snap
      BY <2>2 DEF TypeInv, TypeOK, ActorObject
    <3>3. Creates(n)
      BY <1>1, <2>1, <3>1, <3>2 DEF Creates, NothingElse
    <3> QED
      BY <2>1, <3>3
  <2>3. CASE actor' = [actor EXCEPT !.pc = "recreate", !.name = n]
    <3>1. ~(actor' = [actor EXCEPT !.pc = "recordCreated", !.name = n])
      BY <2>3 DEF TypeInv, TypeOK, ActorObject
    <3>2. /\ Completed(n) /\ UNCHANGED lastCommit
          /\ \E patched, deleted \in BOOLEAN :
                LET u == IF patched THEN Stripped(updates[n]) ELSE updates[n] IN
                updates' = [updates EXCEPT ![n] = IF deleted THEN Deleted(u) ELSE u]
      BY <1>2, <3>1 DEF CreateUpdate
    <3>3. NoneCreated
      <4>1. \A m \in UpdateNames :
               updates'[m] \in {updates[m], Stripped(updates[m]), Deleted(updates[m]),
                                Deleted(Stripped(updates[m]))}
        BY <3>2 DEF TypeInv, TypeOK
      <4> QED
        BY <4>1, RemovalCreatesNone DEF TypeInv
    <3>4. /\ actor'.pc = "recreate" /\ actor'.name = n /\ actor'.snap = actor.snap
          /\ actor'.commit = n
      BY <2>3 DEF TypeInv, TypeOK, ActorObject
    <3>5. Frees(n)
      BY <1>1, <2>1, <3>2, <3>3, <3>4 DEF Frees, NothingElse
    <3> QED
      BY <2>1, <3>5
  <2> QED
    BY <1>2, <2>2, <2>3 DEF CreateUpdate
<1>3. CASE RecreateUpdate
  <2> DEFINE n == actor.name
  <2>1. n \in Commits /\ n \in UpdateNames /\ n \notin DestroyNames /\ actor.pc = "recreate"
        /\ n = actor.commit
    BY <1>3, ConstantsAssumption DEF RecreateUpdate, TypeInv, ActorKnows, UpdateNames
  <2>2. CASE Absent(n)
    <3>1. /\ actor'.pc = "recordCreated" /\ actor'.name = n /\ actor'.snap = actor.snap
          /\ lastCommit' = n /\ updates' = [updates EXCEPT ![n] = Created]
      BY <1>3, <2>1, <2>2 DEF RecreateUpdate, Goto, TypeInv, TypeOK, ActorObject
    <3>2. Creates(n)
      BY <1>1, <2>1, <2>2, <3>1 DEF Creates, NothingElse
    <3> QED
      BY <2>1, <3>2
  <2>3. CASE ~Absent(n)
    <3>1. actor' = Idle /\ UNCHANGED <<updates, lastCommit>>
      BY <1>3, <2>3 DEF RecreateUpdate, Finish
    <3> QED
      BY <1>1, <2>1, <3>1, SameUpdates DEF Ends, SameStatus, NothingElse
  <2> QED
    BY <2>2, <2>3
<1>4. CASE CreateDestroy
  <2>1. PICK n \in FreshNames :
          /\ updates' = [updates EXCEPT ![n] = Created]
          /\ actor' = [actor EXCEPT !.pc = "recordCreated", !.name = n]
    BY <1>4 DEF CreateDestroy
  <2>2. n \in UpdateNames /\ Absent(n) /\ n \notin Commits
    BY ConstantsAssumption DEF FreshNames, UpdateNames, Absent
  <2>3. /\ actor'.pc = "recordCreated" /\ actor'.name = n /\ actor'.snap = actor.snap
    BY <2>1 DEF TypeInv, TypeOK, ActorObject
  <2>4. Creates(n)
    BY <1>1, <1>4, <2>1, <2>2, <2>3 DEF CreateDestroy, Creates, NothingElse
  <2> QED
    BY <2>2, <2>4
<1> QED
  BY <1>2, <1>3, <1>4

LEMMA RecordKinds ==
    ASSUME Inv,
           RecordCreated \/ RecordSucceeded \/ RecordFailed \/ FinishUpdate \/ RecordDestroyFailed
    PROVE  Ends \/ RecordsCreation \/ RecordsResult
<1> USE DEF Inv
<1>1. stack.present
  BY DEF RecordCreated, RecordSucceeded, RecordFailed, FinishUpdate, RecordDestroyFailed,
     Protection, PipelineHoldsFinalizer, FinalizerNeedsStack
<1>2. ASSUME NEW current, NEW last, NEW ok \in BOOLEAN,
             Outcome(ok), ApplyStatus(ok, current, last)
      PROVE  \/ stack' = [stack EXCEPT !.current = current, !.last = last]
             \/ stack' = stack /\ Fails /\ ~Undisturbed'
  BY <1>1, <1>2, OutcomeCalm DEF ApplyStatus, TypeInv
<1>3. CASE RecordCreated
  <2>1. \/ stack' = [stack EXCEPT !.current = actor.name, !.last = NoLast]
        \/ stack' = stack /\ Fails /\ ~Undisturbed'
    BY <1>2, <1>3 DEF RecordCreated
  <2> QED
    BY <1>3, <2>1 DEF RecordCreated, RecordsCreation, NothingElse, Finish, worldVars, executorVars
<1>4. CASE RecordSucceeded \/ RecordFailed \/ RecordDestroyFailed
  <2>1. \/ /\ actor.pc \in {"recordSucceeded", "recordFailed"}
           /\ actor'.pc \in {"finishSucceeded", "finishFailed"} /\ actor'.name = actor.name
        \/ actor.pc = "recordDestroyFailed" /\ actor' = Idle
    BY <1>4 DEF RecordSucceeded, RecordFailed, RecordDestroyFailed, Goto, Finish, TypeInv,
       TypeOK, ActorObject
  <2>2. UNCHANGED <<updates, lastCommit, config, backend, exec>>
    BY <1>4 DEF RecordSucceeded, RecordFailed, RecordDestroyFailed, worldVars, executorVars
  <2>3. actor.name \in UpdateNames
    BY <1>4 DEF RecordSucceeded, RecordFailed, RecordDestroyFailed, TypeInv, ActorKnows, Recording
  <2>4. /\ Record("succeeded", "up", lastCommit) \in LastUpdate
        /\ Record("failed", "up", lastCommit) \in LastUpdate
        /\ Record("failed", "destroy", None) \in LastUpdate
    BY <2>3, LastTypes DEF TypeInv, TypeOK
  <2>5. \/ \E last \in LastUpdate :
             /\ stack' = [stack EXCEPT !.current = None, !.last = last]
             /\ last.name = actor.name
             /\ last.commit = IF actor.pc = "recordDestroyFailed" THEN None ELSE lastCommit
        \/ stack' = stack /\ ~Undisturbed'
    <3>1. CASE RecordSucceeded
      BY <1>2, <2>4, <3>1 DEF RecordSucceeded, Record
    <3>2. CASE RecordFailed
      BY <1>2, <2>4, <3>2 DEF RecordFailed, Record
    <3>3. CASE RecordDestroyFailed
      BY <1>2, <2>4, <3>3 DEF RecordDestroyFailed, Record
    <3> QED
      BY <1>4, <3>1, <3>2, <3>3
  <2> QED
    BY <2>1, <2>2, <2>5 DEF RecordsResult, NothingElse
<1>5. CASE FinishUpdate
  <2>1. UNCHANGED <<stack, lastCommit, config, backend, exec>> /\ actor' = Idle
    BY <1>5 DEF FinishUpdate, Finish, executorVars
  <2>2. NoneCreated
    <3>1. \A m \in UpdateNames : updates'[m] \in {updates[m], Stripped(updates[m])}
      BY <1>5 DEF FinishUpdate, TypeInv, TypeOK
    <3> QED
      BY <3>1, RemovalCreatesNone DEF TypeInv
  <2> QED
    BY <1>5, <2>1, <2>2 DEF FinishUpdate, Ends, SameStatus, NothingElse
<1> QED
  BY <1>3, <1>4, <1>5

-------------------------------------------------------------------------------
(* The way through the pipeline *)

\* The actor checks the Update that currentUpdate names; it creates one only when there is
\* none of that name, and what it records is about that Update.
Clear == stack.current = None \/ Absent(stack.current)

CheckedIsCurrent == actor.pc = "check" => actor.snap.current = stack.current
CreatesWhenClear ==
    /\ actor.pc \in {"resolve", "gate", "ensure", "create", "recreate"} => Clear
    /\ actor.pc = "recordCreated" => Clear \/ stack.current = actor.name
    /\ actor.pc = "recreate" => actor.name = actor.commit
JudgedIsCurrent ==
    actor.pc \in {"recordSucceeded", "recordFailed", "recordDestroyFailed", "removeAfterDestroy"} =>
        actor.name = stack.current /\ actor.name \in UpdateNames /\ ~InFlight(actor.name)

Path    == CheckedIsCurrent /\ CreatesWhenClear /\ JudgedIsCurrent
PathInv == Inv /\ Path

LEMMA Kinds ==
    ASSUME PathInv, [Next]_vars
    PROVE  \/ Aside \/ Ends \/ Enters \/ Checks \/ Moves
           \/ \E n \in UpdateNames : Creates(n) \/ Frees(n)
           \/ RecordsCreation \/ RecordsResult \/ Crash
<1> USE DEF PathInv
<1>1. CASE Actor
  <2>1. CASE CreateUpdate \/ RecreateUpdate \/ CreateDestroy
    BY <2>1, CreationKinds DEF Path, CreatesWhenClear
  <2> QED
    BY <1>1, <2>1, FinalizerKinds, TriggerKinds, PipelineKinds, RecordKinds DEF Actor
<1>2. CASE User \/ Cluster
  BY <1>2, SurroundingsAside
<1>3. CASE \E n \in UpdateNames : WatchUpdate(n) \/ ExecutorStep(n)
  BY <1>3, ExecutorAside
<1>4. CASE UNCHANGED vars
  <2>1. UNCHANGED <<stack, updates, actor, lastCommit, config>>
    BY <1>4 DEF vars
  <2> QED
    BY <2>1, SameUpdates DEF Aside, SameStatus
<1> QED
  BY <1>1, <1>2, <1>3, <1>4 DEF Next

LEMMA ClearStays ==
    ASSUME TypeOK, Clear, stack'.current = stack.current, NoneCreated
    PROVE  Clear'
<1>1. stack.current \in UpdateNames \cup {None}
  BY DEF TypeOK, StackObject
<1> QED
  BY <1>1 DEF Clear, NoneCreated

LEMMA ClearUntilCreated ==
    ASSUME PathInv, NEW n \in UpdateNames, Creates(n)
    PROVE  Clear /\ (Clear' \/ stack'.current = n)
<1>1. Clear
  BY DEF Creates, PathInv, Path, CreatesWhenClear
<1>2. CASE stack.current \in UpdateNames /\ stack.current # n
  BY <1>1, <1>2, ConstantsAssumption
  DEF Creates, Clear, Absent, PathInv, Inv, TypeInv, TypeOK
<1>3. CASE stack.current = None
  BY <1>1, <1>3 DEF Creates, Clear
<1> QED
  BY <1>1, <1>2, <1>3 DEF Creates, PathInv, Inv, TypeInv, TypeOK, StackObject

LEMMA PathInit == Init => Path
BY DEF Init, Path, CheckedIsCurrent, CreatesWhenClear, JudgedIsCurrent, Idle

LEMMA PathStep == ASSUME PathInv, [Next]_vars PROVE Path'
<1> USE DEF PathInv
<1>1. CASE Aside
  <2>1. CheckedIsCurrent'
    BY <1>1 DEF Aside, SameStatus, Path, CheckedIsCurrent
  <2>2. CreatesWhenClear'
    BY <1>1, ClearStays DEF Aside, SameStatus, Path, CreatesWhenClear, Inv, TypeInv
  <2>3. JudgedIsCurrent'
    BY <1>1 DEF Aside, SameStatus, NoneCreated, Path, JudgedIsCurrent
  <2> QED
    BY <2>1, <2>2, <2>3 DEF Path
<1>2. CASE actor'.pc \in {"idle", "addFinalizer", "removeFinalizer", "finishSucceeded", "finishFailed"}
  BY <1>2 DEF Path, CheckedIsCurrent, CreatesWhenClear, JudgedIsCurrent
<1>3. CASE Ends \/ RecordsCreation \/ RecordsResult \/ Crash
  <2>1. actor' = Idle \/ actor'.pc \in {"finishSucceeded", "finishFailed"}
    BY <1>3 DEF Ends, RecordsCreation, RecordsResult, Crash
  <2> QED
    BY <1>2, <2>1 DEF Idle
<1>4. CASE Enters
  <2>1. /\ actor'.pc \in {"addFinalizer", "removeFinalizer", "check", "gate", "resolve"}
        /\ actor'.pc \in {"gate", "resolve"} => stack.current = None
    BY <1>4 DEF Enters, FirstStep
  <2> QED
    BY <1>4, <2>1 DEF Enters, Path, CheckedIsCurrent, CreatesWhenClear, JudgedIsCurrent, Clear
<1>5. CASE Checks
  <2> DEFINE n == actor.snap.current
  <2>1. n = stack.current /\ n \in UpdateNames /\ updates[n].phase \in Phases
    BY <1>5 DEF Checks, Path, CheckedIsCurrent, Inv, TypeInv, ActorKnows, TypeOK, UpdateObject
  <2>2. CASE Completed(n)
    <3>1. actor'.pc \in {"recordSucceeded", "recordFailed", "recordDestroyFailed",
                         "removeAfterDestroy"}
      BY <1>5, <2>2 DEF Checks, AfterCheck, Completed
    <3> QED
      BY <1>5, <2>1, <3>1
      DEF Checks, Path, CheckedIsCurrent, CreatesWhenClear, JudgedIsCurrent, InFlight
  <2>3. CASE ~Completed(n)
    <3>1. actor'.pc \in {"gate", "resolve"} /\ Absent(n)
      BY <1>5, <2>1, <2>3 DEF Checks, AfterCheck, Completed, InFlight, Absent, Phases
    <3> QED
      BY <1>5, <2>1, <3>1
      DEF Checks, Path, CheckedIsCurrent, CreatesWhenClear, JudgedIsCurrent, Clear, Absent
  <2> QED
    BY <2>2, <2>3
<1>6. CASE Moves
  <2>1. Clear'
    BY <1>6 DEF Moves, Path, CreatesWhenClear, Clear, Absent
  <2> QED
    BY <1>6, <2>1 DEF Moves, Path, CheckedIsCurrent, CreatesWhenClear, JudgedIsCurrent
<1>7. ASSUME NEW n \in UpdateNames, Creates(n) PROVE Path'
  BY <1>7, ClearUntilCreated
  DEF Creates, Path, CheckedIsCurrent, CreatesWhenClear, JudgedIsCurrent
<1>8. ASSUME NEW n \in UpdateNames, Frees(n) PROVE Path'
  <2>1. Clear'
    BY <1>8, ClearStays DEF Frees, Path, CreatesWhenClear, Inv, TypeInv
  <2> QED
    BY <1>8, <2>1 DEF Frees, Path, CheckedIsCurrent, CreatesWhenClear, JudgedIsCurrent
<1> QED
  BY <1>1, <1>3, <1>4, <1>5, <1>6, <1>7, <1>8, Kinds

LEMMA PathHolds == Spec => []PathInv
<1>1. Init => Inv
  BY InitTypes, InitProtection DEF Inv
<1>2. Init => PathInv
  BY <1>1, PathInit DEF PathInv
<1>3. PathInv /\ [Next]_vars => PathInv'
  BY InvStep, PathStep DEF PathInv
<1> QED
  BY <1>2, <1>3, PTL DEF Spec

-------------------------------------------------------------------------------
(* The commit of an Update *)

\* last_commit is that of the Update currentUpdate names, from its creation to the record of
\* its result, or lost in a restart.
Known(n) == n \in Commits => lastCommit \in {None, n}

CommitKnown ==
    /\ Clear \/ Known(stack.current)
    /\ actor.pc \in {"recordCreated", "recordSucceeded", "recordFailed"} => Known(actor.name)
    /\ RecordedCommit

LEMMA CommitStep == ASSUME PathInv, CommitKnown, [Next]_vars PROVE CommitKnown'
<1> DEFINE Current == Clear \/ Known(stack.current)
           Named == actor.pc \in {"recordCreated", "recordSucceeded", "recordFailed"} =>
                        Known(actor.name)
<1>1. TypeOK /\ Current /\ Named /\ RecordedCommit
  BY DEF PathInv, Inv, TypeInv, CommitKnown
<1>2. CASE Aside \/ Ends
  <2>1. Current'
    BY <1>1, <1>2, ClearStays DEF Aside, Ends, SameStatus, Known
  <2>2. Named'
    BY <1>1, <1>2 DEF Aside, Ends, Idle, Known
  <2>3. RecordedCommit'
    BY <1>1, <1>2 DEF Aside, Ends, SameStatus, RecordedCommit
  <2> QED
    BY <2>1, <2>2, <2>3 DEF CommitKnown
<1>3. CASE Enters \/ Moves
  <2>1. /\ UNCHANGED <<stack, updates, lastCommit>>
        /\ actor'.pc \notin {"recordCreated", "recordSucceeded", "recordFailed"}
    BY <1>3 DEF Enters, Moves, FirstStep
  <2> QED
    BY <1>1, <2>1 DEF CommitKnown, Clear, Absent, Known, RecordedCommit
<1>4. CASE Checks
  <2>1. UNCHANGED <<stack, updates, lastCommit>> /\ actor'.name = stack.current
    BY <1>4 DEF Checks, PathInv, Path, CheckedIsCurrent
  <2>2. stack.current \in UpdateNames
    BY <1>4 DEF Checks, PathInv, Path, CheckedIsCurrent, Inv, TypeInv, ActorKnows
  <2>3. actor'.pc \in {"recordCreated", "recordSucceeded", "recordFailed"} => ~Clear
    BY <1>4, <2>2, ConstantsAssumption
    DEF Checks, AfterCheck, Clear, Absent, PathInv, Path, CheckedIsCurrent
  <2> QED
    BY <1>1, <2>1, <2>3 DEF CommitKnown, Clear, Absent, Known, RecordedCommit
<1>5. ASSUME NEW n \in UpdateNames, Creates(n) PROVE CommitKnown'
  <2>1. Clear' \/ stack'.current = n
    BY <1>5, ClearUntilCreated
  <2>2. Known(n)'
    BY <1>5 DEF Creates, Known
  <2> QED
    BY <1>1, <1>5, <2>1, <2>2 DEF Creates, CommitKnown, RecordedCommit
<1>6. ASSUME NEW n \in UpdateNames, Frees(n) PROVE CommitKnown'
  BY <1>1, <1>6, ClearStays DEF Frees, CommitKnown, Known, RecordedCommit
<1>7. CASE RecordsCreation
  <2>1. Named'
    BY <1>7 DEF RecordsCreation, Idle
  <2>2. CASE stack' = [stack EXCEPT !.current = actor.name, !.last = NoLast]
    <3>1. stack'.current = actor.name /\ stack'.last = NoLast
      BY <1>1, <2>2 DEF TypeOK, StackObject
    <3>2. RecordedCommit'
      BY <3>1, ConstantsAssumption DEF RecordedCommit, NoLast, UpdateNames
    <3>3. Known(stack.current)'
      BY <1>1, <1>7, <3>1 DEF RecordsCreation, Known
    <3> QED
      BY <2>1, <3>2, <3>3 DEF CommitKnown
  <2>3. CASE stack' = stack
    BY <1>1, <1>7, <2>1, <2>3 DEF RecordsCreation, CommitKnown, Clear, Absent, Known, RecordedCommit
  <2> QED
    BY <1>7, <2>2, <2>3 DEF RecordsCreation
<1>8. CASE RecordsResult
  <2>1. Named'
    <3>1. actor' = Idle \/ actor'.pc \in {"finishSucceeded", "finishFailed"}
      BY <1>8 DEF RecordsResult
    <3> QED
      BY <3>1 DEF Idle
  <2>2. ASSUME NEW last \in LastUpdate,
               stack' = [stack EXCEPT !.current = None, !.last = last],
               last.name = actor.name,
               last.commit = IF actor.pc = "recordDestroyFailed" THEN None ELSE lastCommit
        PROVE  CommitKnown'
    <3>1. stack'.current = None /\ stack'.last = last
      BY <1>1, <2>2 DEF TypeOK, StackObject
    <3>2. RecordedCommit'
      BY <1>1, <1>8, <2>2, <3>1 DEF RecordsResult, RecordedCommit, Known
    <3> QED
      BY <2>1, <3>1, <3>2 DEF CommitKnown, Clear
  <2>3. CASE stack' = stack
    BY <1>1, <1>8, <2>1, <2>3 DEF RecordsResult, CommitKnown, Clear, Absent, Known, RecordedCommit
  <2> QED
    BY <1>8, <2>2, <2>3 DEF RecordsResult
<1>9. CASE Crash
  <2>1. lastCommit' = None /\ actor' = Idle /\ stack' = stack
    BY <1>9 DEF Crash
  <2> QED
    BY <1>1, <2>1 DEF CommitKnown, Known, RecordedCommit, Idle
<1> QED
  BY <1>2, <1>3, <1>4, <1>5, <1>6, <1>7, <1>8, <1>9, Kinds

\* The commit recorded as deployed or attempted is that of the Update it is recorded for,
\* whatever the source has moved to since, whichever call failed: last_commit is set when
\* the Update is created (pipeline.rs), and only one can be created until it is recorded.
THEOREM CommitOfUpdate == Spec => []RecordedCommit
<1>1. Init => CommitKnown
  BY ConstantsAssumption DEF Init, CommitKnown, Clear, Fresh, NoLast, Idle, RecordedCommit, UpdateNames
<1>2. PathInv /\ CommitKnown /\ [Next]_vars => CommitKnown'
  BY CommitStep
<1>3. CommitKnown => RecordedCommit
  BY DEF CommitKnown
<1> QED
  BY <1>1, <1>2, <1>3, PathHolds, PTL DEF Spec

-------------------------------------------------------------------------------
(* One Update in flight *)

\* An Update that may still have an effect.
Busy(n) == InFlight(n) \/ Working(n)

OneBusy   == Undisturbed => \A m, n \in UpdateNames : Busy(m) /\ Busy(n) => m = n
Forgotten == Undisturbed /\ actor.pc \in {"finishSucceeded", "finishFailed"} =>
                 stack.current = None

Flight    == OneInFlight /\ OneBusy /\ Forgotten
FlightInv == PathInv /\ Flight

LEMMA WorkBegins ==
    ASSUME Inv, [Next]_vars, NEW n \in UpdateNames, Working(n)'
    PROVE  Busy(n)
<1> USE DEF Inv
<1>1. CASE exec' = exec
  BY <1>1 DEF Working, Busy
<1>2. CASE Actor \/ User \/ Cluster
  <2>1. exec' = exec
    BY <1>2 DEF Actor, Debounced, StepFails, AddFinalizer, RemoveFinalizer, Reconcile,
       CleanupOrphans, GetFails, CheckUpdate, DestroyGate, ResolveSource, EnsureWorkspace,
       CreateUpdate, RecreateUpdate, CreateDestroy, RecordCreated, RecordSucceeded,
       RecordFailed, FinishUpdate, RecordDestroyFailed, User, Cluster, EditSpec, AdvanceSource,
       DeleteStack, CooldownElapses, DebounceElapses, PodReady, StackGone, CollectUpdate,
       CollectWorkspace, OperatorUnchanged, executorVars
  <2> QED
    BY <1>1, <2>1
<1>3. CASE Crash
  BY <1>3 DEF Crash, NoExec, Working
<1>4. ASSUME NEW m \in UpdateNames, WatchUpdate(m) \/ ExecutorStep(m) PROVE Busy(n)
  <2>1. CASE m # n
    <3>1. exec'[n] = exec[n]
      BY <1>4, <2>1 DEF WatchUpdate, ExecutorStep, ExecStart, ExecConfig, ExecStream,
         ExecReport, ExecNotify, TypeInv, TypeOK
    <3> QED
      BY <3>1 DEF Working, Busy
  <2>2. CASE m = n /\ ExecStart(n)
    BY <2>2 DEF ExecStart, NoExec, Protection, StartedIsNew, Absent, InFlight, Busy, Working,
       TypeInv, TypeOK
  <2>3. CASE m = n /\ ~ExecStart(n)
    <3>1. CASE WatchUpdate(n)
      BY <3>1 DEF WatchUpdate, Working, Busy, TypeInv, TypeOK, Executor
    <3>2. CASE ExecConfig(n) \/ ExecStream(n) \/ ExecReport(n)
      BY <3>2 DEF ExecConfig, ExecStream, ExecReport, Streaming, Working, Busy
    <3>3. CASE ExecNotify(n)
      BY <3>3 DEF ExecNotify, NoExec, Working, TypeInv, TypeOK
    <3> QED
      BY <1>4, <2>3, <3>1, <3>2, <3>3 DEF ExecutorStep
  <2> QED
    BY <1>4, <2>1, <2>2, <2>3
<1>5. CASE UNCHANGED vars
  BY <1>1, <1>5 DEF vars
<1> QED
  BY <1>2, <1>3, <1>4, <1>5 DEF Next

\* Nothing is busy while the actor creates.
LEMMA IdleWhenClear ==
    ASSUME FlightInv, Undisturbed, Clear, stack.present, actor.pc # "recordCreated"
    PROVE  \A n \in UpdateNames : ~Busy(n)
<1> SUFFICES ASSUME NEW n \in UpdateNames, Busy(n) PROVE FALSE
  OBVIOUS
<1>1. InFlight(n)
  BY DEF Busy, FlightInv, PathInv, Inv, Protection, WorkedIsRunning, InFlight
<1>2. stack.current = n
  BY <1>1 DEF FlightInv, Flight, OneInFlight
<1>3. Absent(n)
  BY <1>2, ConstantsAssumption DEF Clear
<1> QED
  BY <1>1, <1>3 DEF InFlight, Absent

LEMMA PipelineHasStack ==
    ASSUME Inv, actor.pc \notin {"idle", "addFinalizer"}
    PROVE  stack.present /\ stack.finalizer
BY DEF Inv, Protection, PipelineHoldsFinalizer, FinalizerNeedsStack

LEMMA FlightStep == ASSUME FlightInv, [Next]_vars PROVE Flight'
<1> USE DEF FlightInv
<1>1. TypeOK /\ OneInFlight /\ OneBusy /\ Forgotten
  BY DEF PathInv, Inv, TypeInv, Flight
<1>2. Undisturbed' => Undisturbed
  BY <1>1, StepCalm DEF Calm
<1>3. ASSUME NoneCreated PROVE OneBusy'
  <2>1. \A n \in UpdateNames : Busy(n)' => Busy(n)
    BY <1>3, WorkBegins DEF NoneCreated, Busy, PathInv
  <2> QED
    BY <1>1, <1>2, <2>1 DEF OneBusy
<1>4. ASSUME NoneCreated, stack'.current = stack.current, stack'.present => stack.present,
             actor' = actor \/ actor.pc # "recordCreated",
             actor'.pc \in {"finishSucceeded", "finishFailed"} => actor' = actor
      PROVE  Flight'
  BY <1>1, <1>2, <1>3, <1>4 DEF NoneCreated, Flight, OneInFlight, Forgotten
<1>5. CASE Aside
  BY <1>4, <1>5 DEF Aside, SameStatus
<1>6. CASE Ends
  BY <1>4, <1>6 DEF Ends, SameStatus, Idle
<1>7. CASE Enters \/ Moves \/ Checks
  <2>1. /\ UNCHANGED <<stack, updates>> /\ actor.pc # "recordCreated"
        /\ actor'.pc \notin {"finishSucceeded", "finishFailed"}
    BY <1>7 DEF Enters, Moves, Checks, FirstStep, AfterCheck
  <2> QED
    BY <1>4, <2>1, SameUpdates
<1>8. ASSUME NEW n \in UpdateNames, Frees(n) PROVE Flight'
  BY <1>4, <1>8 DEF Frees
<1>9. ASSUME NEW n \in UpdateNames, Creates(n) PROVE Flight'
  <2>1. CASE ~Undisturbed
    BY <1>2, <2>1 DEF Flight, OneInFlight, OneBusy, Forgotten
  <2>2. CASE Undisturbed
    <3>1. \A m \in UpdateNames : ~Busy(m)
      BY <1>9, <2>2, IdleWhenClear, ClearUntilCreated, PipelineHasStack DEF Creates, PathInv
    <3>2. \A m \in UpdateNames : Busy(m)' => m = n
      BY <1>1, <1>9, <3>1 DEF Creates, Busy, InFlight, Working, NothingElse, TypeOK
    <3>3. OneInFlight'
      BY <1>9, <3>2 DEF Creates, OneInFlight, Busy
    <3> QED
      BY <1>9, <3>2, <3>3 DEF Creates, Flight, OneBusy, Forgotten
  <2> QED
    BY <2>1, <2>2
<1>10. CASE RecordsCreation
  <2>1. OneBusy'
    BY <1>3, <1>10, SameUpdates DEF RecordsCreation
  <2>2. Forgotten'
    BY <1>10 DEF RecordsCreation, Forgotten, Idle
  <2>3. OneInFlight'
    <3> SUFFICES ASSUME Undisturbed', stack'.present, NEW n \in UpdateNames, InFlight(n)'
                 PROVE  stack'.current = n
      BY DEF OneInFlight
    <3>1. stack'.current = actor.name /\ stack.present
      BY <1>1, <1>10, PipelineHasStack DEF RecordsCreation, TypeOK, StackObject, PathInv
    <3>2. InFlight(n)
      BY <1>10 DEF RecordsCreation, InFlight
    <3>3. stack.current = n \/ actor.name = n
      BY <1>1, <1>2, <3>1, <3>2 DEF OneInFlight
    <3>4. Clear \/ stack.current = actor.name
      BY <1>10 DEF RecordsCreation, PathInv, Path, CreatesWhenClear
    <3>5. stack.current = n => ~Clear
      BY <3>2, ConstantsAssumption DEF Clear, InFlight, Absent
    <3> QED
      BY <3>1, <3>3, <3>4, <3>5
  <2> QED
    BY <2>1, <2>2, <2>3 DEF Flight
<1>11. CASE RecordsResult
  <2>1. OneBusy'
    BY <1>3, <1>11, SameUpdates DEF RecordsResult
  <2>2. Undisturbed' => stack'.current = None
    BY <1>1, <1>11 DEF RecordsResult, TypeOK, StackObject
  <2>3. Undisturbed => \A n \in UpdateNames : ~InFlight(n)
    BY <1>1, <1>11, PipelineHasStack
    DEF RecordsResult, PathInv, Path, JudgedIsCurrent, OneInFlight
  <2>4. OneInFlight'
    BY <1>2, <1>11, <2>3 DEF RecordsResult, OneInFlight, InFlight
  <2> QED
    BY <2>1, <2>2, <2>4 DEF Flight, Forgotten
<1>12. CASE Crash
  BY <1>1, <1>12, CrashDisturbs DEF Flight, OneInFlight, OneBusy, Forgotten
<1> QED
  BY <1>5, <1>6, <1>7, <1>8, <1>9, <1>10, <1>11, <1>12, Kinds

LEMMA FlightHolds == Spec => []FlightInv
<1>1. Init => Flight
  BY DEF Init, Flight, OneInFlight, OneBusy, Forgotten, Busy, InFlight, Working, NoExec, Idle
<1>2. FlightInv /\ [Next]_vars => Flight'
  BY FlightStep
<1> QED
  BY <1>1, <1>2, PathHolds, PTL DEF Spec, FlightInv

\* However many Updates a Stack has had, one is in flight at a time, and it is the one that
\* currentUpdate names or is about to name: run_pipeline checks that one before it creates
\* another, and the Update that is reused has the name.
THEOREM OneAtATime == Spec => []OneInFlight
<1>1. FlightInv => OneInFlight
  BY DEF FlightInv, Flight
<1> QED
  BY <1>1, FlightHolds, PTL

\* Only a failed call or a restart adds to what nothing tells of.
LEMMA UnrecordedStep ==
    ASSUME PathInv, [Next]_vars, stack'.present
    PROVE  /\ stack.present
           /\ \/ Unrecorded' \subseteq Unrecorded
              \/ /\ Unrecorded' \subseteq Unrecorded \cup {actor.name}
                 /\ \/ Fails
                    \/ crashes' = crashes + 1 /\ faults' = faults
<1> USE DEF PathInv
<1>1. TypeOK
  BY DEF Inv, TypeInv
<1>2. stack.present
  <2>1. CASE Aside \/ Ends
    BY <2>1 DEF Aside, Ends, SameStatus
  <2>2. CASE Enters \/ Checks \/ Moves \/ Crash \/ \E n \in UpdateNames : Creates(n) \/ Frees(n)
    BY <2>2 DEF Enters, Checks, Moves, Crash, Creates, Frees
  <2>3. CASE RecordsCreation \/ RecordsResult
    BY <1>1, <2>3, PipelineHasStack DEF RecordsCreation, RecordsResult
  <2> QED
    BY <2>1, <2>2, <2>3, Kinds
<1>3. ASSUME NoneCreated, stack'.current = stack.current,
             actor' = actor \/ actor.pc # "recordCreated"
      PROVE  Unrecorded' \subseteq Unrecorded
  BY <1>3 DEF NoneCreated, Unrecorded
<1>4. CASE Aside \/ Ends
  BY <1>2, <1>3, <1>4 DEF Aside, Ends, SameStatus
<1>5. CASE Enters \/ Checks \/ Moves
  <2>1. /\ UNCHANGED <<stack, updates>> /\ actor.pc # "recordCreated"
    BY <1>5 DEF Enters, Moves, Checks
  <2> QED
    BY <1>2, <1>3, <2>1, SameUpdates
<1>6. ASSUME NEW n \in UpdateNames, Frees(n) PROVE Unrecorded' \subseteq Unrecorded
  BY <1>3, <1>6 DEF Frees
<1>7. ASSUME NEW n \in UpdateNames, Creates(n) PROVE Unrecorded' \subseteq Unrecorded
  <2>1. \A m \in UpdateNames : m # n => updates'[m] = updates[m]
    BY <1>1, <1>7 DEF Creates, TypeOK
  <2> QED
    BY <1>7, <2>1 DEF Creates, Unrecorded, InFlight
<1>8. CASE RecordsCreation
  <2>1. \A n \in UpdateNames : InFlight(n)' = InFlight(n)
    BY <1>8 DEF RecordsCreation, InFlight
  <2>2. CASE stack' = stack /\ Fails
    <3>1. Unrecorded' \subseteq Unrecorded \cup {actor.name}
      BY <2>1, <2>2 DEF Unrecorded
    <3> QED
      BY <1>2, <2>2, <3>1
  <2>3. CASE stack' = [stack EXCEPT !.current = actor.name, !.last = NoLast]
    <3>1. stack'.current = actor.name
      BY <1>1, <2>3 DEF TypeOK, StackObject
    <3>2. ASSUME NEW n \in UpdateNames, InFlight(n), stack.current = n PROVE actor.name = n
      BY <1>8, <3>2, ConstantsAssumption
      DEF RecordsCreation, Path, CreatesWhenClear, Clear, InFlight, Absent
    <3>3. Unrecorded' \subseteq Unrecorded
      BY <2>1, <3>1, <3>2 DEF Unrecorded
    <3> QED
      BY <1>2, <3>3
  <2> QED
    BY <1>8, <2>2, <2>3 DEF RecordsCreation
<1>9. CASE RecordsResult
  <2>1. \A n \in UpdateNames : InFlight(n)' = InFlight(n)
    BY <1>9 DEF RecordsResult, InFlight
  <2>2. actor.pc # "recordCreated" /\ ~InFlight(stack.current)
    BY <1>9 DEF RecordsResult, Path, JudgedIsCurrent
  <2>3. Unrecorded' \subseteq Unrecorded
    BY <2>1, <2>2 DEF Unrecorded
  <2> QED
    BY <1>2, <2>3
<1>10. CASE Crash
  <2>1. /\ UNCHANGED <<stack, updates>> /\ faults' = faults /\ crashes' = crashes + 1
    BY <1>10 DEF Crash
  <2>2. Unrecorded' \subseteq Unrecorded \cup {actor.name}
    BY <2>1 DEF Unrecorded, InFlight
  <2> QED
    BY <1>2, <2>1, <2>2
<1> QED
  BY <1>2, <1>4, <1>5, <1>6, <1>7, <1>8, <1>9, <1>10, Kinds

LEMMA NoMore ==
    ASSUME NEW S, NEW T, NEW k \in Nat, IsFiniteSet(S), Cardinality(S) <= k, T \subseteq S
    PROVE  IsFiniteSet(T) /\ Cardinality(T) <= k
<1>1. IsFiniteSet(T) /\ Cardinality(T) <= Cardinality(S)
  BY FS_Subset
<1>2. Cardinality(T) \in Nat /\ Cardinality(S) \in Nat
  BY <1>1, FS_CardinalityType
<1> QED
  BY <1>1, <1>2

LEMMA OneMore ==
    ASSUME NEW S, NEW T, NEW e, NEW k \in Nat, IsFiniteSet(S), Cardinality(S) <= k,
           T \subseteq S \cup {e}
    PROVE  IsFiniteSet(T) /\ Cardinality(T) <= k + 1
<1>1. Cardinality(S) \in Nat
  BY FS_CardinalityType
<1>2. /\ IsFiniteSet(S \cup {e})
      /\ Cardinality(S \cup {e}) = Cardinality(S) \/ Cardinality(S \cup {e}) = Cardinality(S) + 1
  BY FS_AddElement
<1>3. Cardinality(S \cup {e}) <= k + 1 /\ k + 1 \in Nat
  BY <1>1, <1>2
<1> QED
  BY <1>2, <1>3, NoMore

Counted == stack.present => IsFiniteSet(Unrecorded) /\ Cardinality(Unrecorded) <= faults + crashes

LEMMA CountedStep == ASSUME PathInv, Counted, [Next]_vars PROVE Counted'
<1> SUFFICES ASSUME stack'.present
             PROVE  IsFiniteSet(Unrecorded') /\ Cardinality(Unrecorded') <= faults' + crashes'
  BY DEF Counted
<1>1. TypeOK /\ TypeOK' /\ Calm
  BY StepCalm, InvStep DEF PathInv, Inv, TypeInv
<1>2. /\ IsFiniteSet(Unrecorded) /\ Cardinality(Unrecorded) <= faults + crashes
      /\ Cardinality(Unrecorded) \in Nat
      /\ faults \in Nat /\ crashes \in Nat /\ faults' \in Nat /\ crashes' \in Nat
      /\ faults' >= faults /\ crashes' >= crashes
  BY <1>1, UnrecordedStep, FS_CardinalityType DEF Counted, TypeOK, Calm
<1>3. CASE Unrecorded' \subseteq Unrecorded
  <2>1. Cardinality(Unrecorded) <= faults' + crashes'
    BY <1>2
  <2> QED
    BY <1>2, <1>3, <2>1, NoMore
<1>4. CASE ~(Unrecorded' \subseteq Unrecorded)
  <2>1. /\ Unrecorded' \subseteq Unrecorded \cup {actor.name}
        /\ Fails \/ (crashes' = crashes + 1 /\ faults' = faults)
    BY <1>4, UnrecordedStep
  <2>2. CASE Fails
    <3>1. faults' + crashes' = (faults + crashes) + 1 /\ faults + crashes \in Nat
      BY <1>2, <2>2 DEF Fails
    <3> QED
      BY <1>2, <2>1, <3>1, OneMore
  <2>3. CASE crashes' = crashes + 1 /\ faults' = faults
    <3>1. faults' + crashes' = (faults + crashes) + 1 /\ faults + crashes \in Nat
      BY <1>2, <2>3
    <3> QED
      BY <1>2, <2>1, <3>1, OneMore
  <2> QED
    BY <2>1, <2>2, <2>3
<1> QED
  BY <1>3, <1>4

\* An Update in flight that currentUpdate does not lead to is the remains of one failed call or
\* restart, and of no other: the record of its creation failed, which handle_action only logs,
\* or the operator ended before it.  Nothing else puts a second Update of a Stack in flight.
THEOREM OrphansCostFailures == Spec => []UnrecordedCostFailures
<1>1. Init => Counted
  <2>1. ASSUME Init PROVE Unrecorded = {} /\ faults + crashes = 0
    BY <2>1 DEF Init, Unrecorded, InFlight
  <2>2. IsFiniteSet({}) /\ Cardinality({}) = 0
    BY FS_EmptySet
  <2> QED
    BY <2>1, <2>2 DEF Counted
<1>2. PathInv /\ Counted /\ [Next]_vars => Counted'
  BY CountedStep
<1>3. Counted => UnrecordedCostFailures
  BY DEF Counted, UnrecordedCostFailures
<1> QED
  BY <1>1, <1>2, <1>3, PathHolds, PTL DEF Spec

\* Who takes a workspace away.
LEMMA Reclaims ==
    ASSUME Inv, [Next]_vars, workspace.state # "absent", workspace'.state = "absent"
    PROVE  \/ OwnerGoes
           \/ actor.pc \in {"removeAfterDestroy", "finishSucceeded"}
<1> USE DEF Inv, TypeInv, TypeOK, WorkspaceObject
<1>1. workspace' # workspace
  OBVIOUS
<1>2. CASE Actor
  <2>1. CASE RemoveFinalizer
    BY <1>1, <2>1 DEF RemoveFinalizer
  <2>2. CASE FinishUpdate
    BY <1>1, <2>2 DEF FinishUpdate
  <2>3. CASE EnsureWorkspace
    BY <2>3 DEF EnsureWorkspace
  <2>4. CASE ~RemoveFinalizer /\ ~FinishUpdate /\ ~EnsureWorkspace
    BY <1>1, <1>2, <2>4
    DEF Actor, Debounced, StepFails, AddFinalizer, Reconcile, CleanupOrphans, GetFails,
        CheckUpdate, DestroyGate, ResolveSource, CreateUpdate, RecreateUpdate, CreateDestroy,
        RecordCreated, RecordSucceeded, RecordFailed, RecordDestroyFailed, worldVars
  <2> QED
    BY <2>1, <2>2, <2>3, <2>4
<1>3. CASE User
  BY <1>1, <1>3 DEF User, EditSpec, AdvanceSource, DeleteStack, worldVars
<1>4. CASE Cluster
  <2>1. CASE PodReady
    BY <2>1 DEF PodReady
  <2>2. CASE CollectWorkspace
    BY <2>2 DEF CollectWorkspace
  <2> QED
    BY <1>1, <1>4, <2>1, <2>2
    DEF Cluster, CooldownElapses, DebounceElapses, StackGone, CollectUpdate, worldVars
<1>5. CASE Crash
  BY <1>1, <1>5 DEF Crash
<1>6. ASSUME NEW n \in UpdateNames, WatchUpdate(n) \/ ExecutorStep(n) PROVE FALSE
  BY <1>1, <1>6 DEF WatchUpdate, ExecutorStep, ExecStart, ExecConfig, ExecStream, ExecReport,
     ExecNotify, worldVars
<1>7. CASE UNCHANGED vars
  BY <1>1, <1>7 DEF vars
<1> QED
  BY <1>2, <1>3, <1>4, <1>5, <1>6, <1>7 DEF Next

\* The actor never takes the workspace from a running operation: it reclaims it after the
\* result of the Update was read, and no other one is in flight then.
THEOREM ReclaimSafe == Spec => ReclaimedWhenIdle
<1>1. ASSUME FlightInv, [Next]_vars, workspace.state # "absent", workspace'.state = "absent",
             ~OwnerGoes, Undisturbed, NEW n \in UpdateNames, Streaming(n)
      PROVE  FALSE
  <2>1. /\ actor.pc \in {"removeAfterDestroy", "finishSucceeded"}
        /\ stack.present
    BY <1>1, Reclaims, PipelineHasStack DEF FlightInv, PathInv
  <2>2. InFlight(n)
    BY <1>1, <2>1 DEF Streaming, Working, InFlight, FlightInv, PathInv, Inv, Protection,
       WorkedIsRunning
  <2>3. stack.current = n
    BY <1>1, <2>1, <2>2 DEF FlightInv, Flight, OneInFlight
  <2>4. CASE actor.pc = "removeAfterDestroy"
    BY <1>1, <2>2, <2>3, <2>4 DEF FlightInv, PathInv, Path, JudgedIsCurrent
  <2>5. CASE actor.pc = "finishSucceeded"
    BY <1>1, <2>3, <2>5, ConstantsAssumption DEF FlightInv, Flight, Forgotten
  <2> QED
    BY <2>1, <2>4, <2>5
<1>2. FlightInv /\ [Next]_vars =>
        [(workspace.state # "absent" /\ workspace'.state = "absent" /\ ~OwnerGoes /\ Undisturbed)
            => \A n \in UpdateNames : ~Streaming(n)]_vars
  BY <1>1
<1> QED
  BY <1>2, FlightHolds, PTL DEF Spec, ReclaimedWhenIdle

-------------------------------------------------------------------------------
(* The destroy before the end *)

\* A destroy Update is made only for a Stack that is being deleted and requires it.
DestroyWanted ==
    /\ actor.pc = "removeFinalizer" => ~DestroyRequired
    /\ actor.pc \in {"check", "resolve", "gate", "ensure", "create", "recreate"}
       /\ actor.snap.deleting => DestroyRequired /\ stack.deleting
    /\ actor.pc = "recordCreated" /\ actor.name \in DestroyNames =>
           DestroyRequired /\ stack.deleting
    /\ stack.current \in DestroyNames => DestroyRequired /\ stack.deleting

LEMMA WantedStep == ASSUME PathInv, DestroyWanted, [Next]_vars PROVE DestroyWanted'
<1> USE DEF DestroyWanted, DestroyRequired
<1>1. TypeOK
  BY DEF PathInv, Inv, TypeInv
<1>2. CASE Aside
  BY <1>2 DEF Aside, SameStatus
<1>3. CASE Ends
  BY <1>3 DEF Ends, SameStatus, NothingElse, Idle
<1>4. CASE Enters
  BY <1>1, <1>4 DEF Enters, NothingElse, FirstStep, TypeOK, StackObject
<1>5. CASE Checks
  <2>1. actor'.pc \in {"recordSucceeded", "recordFailed", "recordDestroyFailed",
                       "removeAfterDestroy", "gate", "resolve"}
    BY <1>5 DEF Checks, AfterCheck
  <2> QED
    BY <1>5, <2>1 DEF Checks, NothingElse
<1>6. CASE Moves
  BY <1>6 DEF Moves, NothingElse
<1>7. ASSUME NEW n \in UpdateNames, Creates(n) \/ Frees(n) PROVE DestroyWanted'
  BY <1>7 DEF Creates, Frees, NothingElse
<1>8. CASE RecordsCreation
  <2>1. /\ stack'.deleting = stack.deleting
        /\ stack'.current \in {stack.current, actor.name}
    BY <1>1, <1>8 DEF RecordsCreation, TypeOK, StackObject
  <2>2. actor.pc = "recordCreated" /\ actor'.pc = "idle" /\ config' = config
    BY <1>8 DEF RecordsCreation, NothingElse, Idle
  <2>3. stack'.current \in DestroyNames => DestroyRequired /\ stack.deleting
    <3>1. CASE stack'.current = stack.current
      BY <3>1
    <3>2. CASE stack'.current = actor.name
      BY <2>2, <3>2
    <3> QED
      BY <2>1, <3>1, <3>2
  <2>4. DestroyRequired' = DestroyRequired
    BY <2>2
  <2>5. (stack.current \in DestroyNames => DestroyRequired /\ stack.deleting)'
    BY <2>1, <2>3, <2>4
  <2> QED
    BY <2>2, <2>5
<1>9. CASE RecordsResult
  <2>1. /\ stack'.deleting = stack.deleting
        /\ stack'.current \in {stack.current, None}
    BY <1>1, <1>9 DEF RecordsResult, TypeOK, StackObject
  <2>2. actor' = Idle \/ actor'.pc \in {"finishSucceeded", "finishFailed"}
    BY <1>9 DEF RecordsResult
  <2>3. None \notin DestroyNames
    BY ConstantsAssumption DEF UpdateNames
  <2>4. config' = config
    BY <1>9 DEF RecordsResult, NothingElse
  <2>5. actor'.pc \in {"idle", "finishSucceeded", "finishFailed"}
    BY <2>2 DEF Idle
  <2>6. (stack.current \in DestroyNames => DestroyRequired /\ stack.deleting)'
    BY <2>1, <2>3, <2>4
  <2> QED
    BY <2>5, <2>6
<1>10. CASE Crash
  BY <1>10 DEF Crash, Idle
<1> QED
  BY <1>2, <1>3, <1>4, <1>5, <1>6, <1>7, <1>8, <1>9, <1>10, Kinds

\* Nothing is deployed, and no Update could deploy anything.
Settled == backend = Nothing /\ \A n \in UpdateNames : ~Busy(n)

Reported(n) == exec[n].pc = "report" /\ exec[n].result = "succeeded"

DestroyIsTrue ==
    Undisturbed =>
        /\ \A n \in DestroyNames : Reported(n) => backend = Nothing
        /\ \A n \in DestroyNames :
               updates[n].phase = "succeeded"
               /\ (stack.current = n \/ (actor.pc = "recordCreated" /\ actor.name = n)) => Settled
        /\ actor.pc = "removeAfterDestroy" /\ actor.name \in DestroyNames => Settled
        /\ stack.deleting /\ ~stack.finalizer /\ stack.current \in DestroyNames => Settled
        /\ ~stack.finalizer /\ DestroyRequired /\ stack.current = None => Settled

DestroyInv == FlightInv /\ DestroyWanted /\ DestroyIsTrue

LEMMA BackendChanges ==
    ASSUME Inv, [Next]_vars, backend' # backend
    PROVE  Crash \/ \E n \in UpdateNames : ExecStream(n)
<1>1. CASE Actor
  BY <1>1 DEF Actor, Debounced, StepFails, AddFinalizer, RemoveFinalizer, Reconcile,
     CleanupOrphans, GetFails, CheckUpdate, DestroyGate, ResolveSource, EnsureWorkspace,
     CreateUpdate, RecreateUpdate, CreateDestroy, RecordCreated, RecordSucceeded,
     RecordFailed, FinishUpdate, RecordDestroyFailed, worldVars
<1>2. CASE User \/ Cluster
  BY <1>2 DEF User, Cluster, EditSpec, AdvanceSource, DeleteStack, CooldownElapses,
     DebounceElapses, PodReady, StackGone, CollectUpdate, CollectWorkspace, worldVars
<1>3. ASSUME NEW n \in UpdateNames, WatchUpdate(n) \/ ExecutorStep(n) PROVE ExecStream(n)
  BY <1>3 DEF WatchUpdate, ExecutorStep, ExecStart, ExecConfig, ExecReport, ExecNotify, worldVars
<1> QED
  BY <1>1, <1>2, <1>3 DEF Next, vars

\* What is settled stays so until an Update is created.
LEMMA SettledStays ==
    ASSUME FlightInv, [Next]_vars, Undisturbed', Settled, NoneCreated
    PROVE  Settled'
<1>1. Inv /\ TypeOK
  BY DEF FlightInv, PathInv, Inv, TypeInv
<1>2. backend' = backend
  <2>1. ~Crash
    BY <1>1, CrashDisturbs
  <2>2. \A n \in UpdateNames : ~ExecStream(n)
    BY DEF Settled, Busy, ExecStream, Streaming, Working
  <2> QED
    BY <1>1, <2>1, <2>2, BackendChanges
<1>3. \A n \in UpdateNames : ~Busy(n)'
  BY <1>1, WorkBegins DEF NoneCreated, Busy, Settled
<1> QED
  BY <1>2, <1>3 DEF Settled

\* A destroy that succeeds leaves nothing behind, and nothing works beside it.
LEMMA ReportStep ==
    ASSUME DestroyInv, [Next]_vars, Undisturbed', NEW n \in DestroyNames, Reported(n)'
    PROVE  backend' = Nothing
<1>1. Inv /\ TypeOK /\ n \in UpdateNames /\ ~Crash
  BY CrashDisturbs DEF DestroyInv, FlightInv, PathInv, Inv, TypeInv, UpdateNames
<1>2. Undisturbed
  BY <1>1, StepCalm DEF Calm
<1>3. CASE ExecStream(n)
  <2>1. exec'[n].result = "succeeded" /\ exec[n] \in Executor
    BY <1>1 DEF Reported, TypeOK
  <2>2. backend' = Effect(n)
    BY <1>1, <1>3, <2>1 DEF ExecStream, Executor, TypeOK
  <2> QED
    BY <2>2 DEF Effect
<1>4. CASE ~ExecStream(n)
  <2>1. Reported(n)
    <3>1. CASE exec' = exec
      BY <3>1 DEF Reported
    <3>2. ASSUME NEW m \in UpdateNames, WatchUpdate(m) \/ ExecutorStep(m) PROVE Reported(n)
      <4>1. CASE m # n
        BY <1>1, <3>2, <4>1 DEF WatchUpdate, ExecutorStep, ExecStart, ExecConfig, ExecStream,
           ExecReport, ExecNotify, Reported, TypeOK
      <4>2. CASE m = n
        <5>1. CASE exec'[n].pc # "report"
          BY <5>1 DEF Reported
        <5>2. CASE exec' = exec
          BY <5>2 DEF Reported
        <5>3. exec'[n].pc # "report" \/ exec' = exec
          <6>1. CASE WatchUpdate(n)
            BY <1>1, <6>1 DEF WatchUpdate, TypeOK, Executor
          <6>2. CASE ExecStart(n)
            BY <1>1, <6>2 DEF ExecStart, NoExec, TypeOK, Executor
          <6>3. CASE ExecConfig(n)
            BY <1>1, <6>3 DEF ExecConfig, TypeOK, Executor
          <6>4. CASE ExecReport(n) \/ ExecNotify(n)
            BY <1>1, <6>4 DEF ExecReport, ExecNotify, NoExec, TypeOK, Executor
          <6> QED
            BY <1>4, <3>2, <4>2, <6>1, <6>2, <6>3, <6>4 DEF ExecutorStep
        <5> QED
          BY <5>1, <5>2, <5>3
      <4> QED
        BY <4>1, <4>2
    <3>3. CASE Actor \/ User \/ Cluster \/ UNCHANGED vars
      <4>1. exec' = exec
        BY <3>3 DEF Actor, Debounced, StepFails, AddFinalizer, RemoveFinalizer, Reconcile,
           CleanupOrphans, GetFails, CheckUpdate, DestroyGate, ResolveSource, EnsureWorkspace,
           CreateUpdate, RecreateUpdate, CreateDestroy, RecordCreated, RecordSucceeded,
           RecordFailed, FinishUpdate, RecordDestroyFailed, User, Cluster, EditSpec,
           AdvanceSource, DeleteStack, CooldownElapses, DebounceElapses, PodReady, StackGone,
           CollectUpdate, CollectWorkspace, OperatorUnchanged, executorVars, vars
      <4> QED
        BY <3>1, <4>1
    <3> QED
      BY <1>1, <3>2, <3>3 DEF Next
  <2>2. backend = Nothing
    BY <1>2, <2>1 DEF DestroyInv, DestroyIsTrue
  <2>3. ASSUME NEW m \in UpdateNames, ExecStream(m) PROVE FALSE
    <3>1. Busy(m) /\ Busy(n)
      BY <2>1, <2>3 DEF ExecStream, Streaming, Reported, Busy, Working
    <3>2. m = n
      BY <1>1, <1>2, <3>1 DEF DestroyInv, FlightInv, Flight, OneBusy
    <3> QED
      BY <1>4, <2>3, <3>2
  <2> QED
    BY <1>1, <2>2, <2>3, BackendChanges
<1> QED
  BY <1>3, <1>4

\* Only the executor says that an Update succeeded.
LEMMA SuccessBegins ==
    ASSUME Inv, [Next]_vars, NEW n \in UpdateNames, updates'[n].phase = "succeeded"
    PROVE  updates[n].phase = "succeeded" \/ (ExecReport(n) /\ Reported(n))
<1>1. TypeOK
  BY DEF Inv, TypeInv
<1>2. ASSUME updates'[n] \in {updates[n], Stripped(updates[n]), Deleted(updates[n]),
                             Deleted(Stripped(updates[n])), Created}
      PROVE  updates[n].phase = "succeeded"
  <2>1. ASSUME NEW u \in UpdateObject
        PROVE  Stripped(u).phase \in {u.phase, "gone"} /\ Deleted(u).phase \in {u.phase, "gone"}
    BY DEF Stripped, Deleted, Gone, UpdateObject
  <2>2. updates[n] \in UpdateObject /\ Stripped(updates[n]) \in UpdateObject
    BY <1>1, UpdateTypes DEF TypeOK
  <2>3. updates'[n].phase \in {updates[n].phase, "gone", "new"}
    BY <1>2, <2>1, <2>2 DEF Created
  <2> QED
    BY <2>3
<1>3. CASE Actor
  <2>1. CASE \E trigger \in Triggers : CleanupOrphans(trigger)
    BY <1>2, <2>1 DEF CleanupOrphans
  <2>2. CASE CreateUpdate
    <3>1. updates'[n] \in {updates[n], Stripped(updates[n]), Deleted(updates[n]),
                          Deleted(Stripped(updates[n])), Created}
      BY <1>1, <2>2 DEF CreateUpdate, TypeOK
    <3> QED
      BY <1>2, <3>1
  <2>3. CASE RecreateUpdate \/ CreateDestroy
    <3>1. updates'[n] \in {updates[n], Created}
      BY <1>1, <2>3 DEF RecreateUpdate, CreateDestroy, TypeOK
    <3> QED
      BY <1>2, <3>1
  <2>4. CASE FinishUpdate
    <3>1. updates'[n] \in {updates[n], Stripped(updates[n])}
      BY <1>1, <2>4 DEF FinishUpdate, TypeOK
    <3> QED
      BY <1>2, <3>1
  <2>5. CASE updates' = updates
    BY <2>5
  <2> QED
    BY <1>3, <2>1, <2>2, <2>3, <2>4, <2>5
    DEF Actor, Debounced, StepFails, AddFinalizer, RemoveFinalizer, Reconcile, GetFails,
        CheckUpdate, DestroyGate, ResolveSource, EnsureWorkspace, RecordCreated,
        RecordSucceeded, RecordFailed, RecordDestroyFailed
<1>4. CASE User \/ Cluster
  <2>1. CASE \E m \in UpdateNames : CollectUpdate(m)
    <3>1. updates'[n] \in {updates[n], Deleted(updates[n])}
      BY <1>1, <2>1 DEF CollectUpdate, TypeOK
    <3> QED
      BY <1>2, <3>1
  <2> QED
    BY <1>4, <2>1 DEF User, Cluster, EditSpec, AdvanceSource, DeleteStack, CooldownElapses,
       DebounceElapses, PodReady, StackGone, CollectWorkspace
<1>5. ASSUME NEW m \in UpdateNames, WatchUpdate(m) \/ ExecutorStep(m)
      PROVE  updates[n].phase = "succeeded" \/ (ExecReport(n) /\ Reported(n))
  <2>1. CASE m # n
    BY <1>1, <1>5, <2>1 DEF WatchUpdate, ExecutorStep, ExecStart, ExecConfig, ExecStream,
       ExecReport, ExecNotify, PatchPhase, TypeOK
  <2>2. CASE m = n /\ ExecReport(n)
    BY <1>1, <2>2 DEF ExecReport, PatchPhase, Reported, TypeOK, UpdateObject
  <2>3. CASE m = n /\ ExecStart(n)
    BY <1>1, <2>3 DEF ExecStart, PatchPhase, TypeOK, UpdateObject
  <2>4. CASE m = n /\ ~ExecReport(n) /\ ~ExecStart(n)
    BY <1>5, <2>4 DEF WatchUpdate, ExecutorStep, ExecConfig, ExecStream, ExecNotify
  <2> QED
    BY <1>5, <2>1, <2>2, <2>3, <2>4
<1>6. CASE Crash
  BY <1>6 DEF Crash
<1>7. CASE UNCHANGED vars
  BY <1>7 DEF vars
<1> QED
  BY <1>3, <1>4, <1>5, <1>6, <1>7 DEF Next

LEMMA SuccessStep ==
    ASSUME DestroyInv, [Next]_vars, Undisturbed', NEW n \in DestroyNames,
           updates'[n].phase = "succeeded",
           stack'.current = n \/ (actor'.pc = "recordCreated" /\ actor'.name = n)
    PROVE  Settled'
<1>1. Inv /\ TypeOK /\ PathInv /\ FlightInv /\ n \in UpdateNames /\ ~Crash
  BY CrashDisturbs DEF DestroyInv, FlightInv, PathInv, Inv, TypeInv, UpdateNames
<1>2. Undisturbed
  BY <1>1, StepCalm DEF Calm
<1>3. CASE ExecReport(n) /\ Reported(n)
  <2>1. backend' = Nothing
    BY <1>2, <1>3 DEF DestroyInv, DestroyIsTrue, ExecReport, worldVars
  <2>2. Aside
    BY <1>1, <1>3, ExecutorAside DEF ExecutorStep
  <2>3. ASSUME NEW m \in UpdateNames, Busy(m)' PROVE FALSE
    <3>1. Busy(m)
      BY <1>1, <2>2, <2>3, WorkBegins DEF Aside, NoneCreated, Busy
    <3>2. Busy(n)
      BY <1>3 DEF Reported, Busy, Working
    <3>3. m = n
      BY <1>1, <1>2, <3>1, <3>2 DEF FlightInv, Flight, OneBusy
    <3>4. exec'[n].pc = "notify"
      BY <1>1, <1>3 DEF ExecReport, TypeOK, Executor
    <3> QED
      BY <2>3, <3>3, <3>4 DEF Busy, InFlight, Working
  <2> QED
    BY <2>1, <2>3 DEF Settled
<1>4. CASE updates[n].phase = "succeeded"
  <2>1. ASSUME stack.current = n \/ (actor.pc = "recordCreated" /\ actor.name = n), NoneCreated
        PROVE  Settled'
    BY <1>1, <1>2, <1>4, <2>1, SettledStays DEF DestroyInv, DestroyIsTrue
  <2>2. n # None
    BY ConstantsAssumption DEF UpdateNames
  <2>3. CASE Aside
    BY <2>1, <2>3 DEF Aside, SameStatus
  <2>4. CASE Ends
    <3>1. actor'.pc = "idle" /\ stack'.current = stack.current /\ NoneCreated
      BY <2>4 DEF Ends, Idle, SameStatus
    <3> QED
      BY <2>1, <3>1
  <2>5. CASE Enters \/ Checks \/ Moves
    <3>1. actor'.pc # "recordCreated" /\ UNCHANGED <<stack, updates>>
      BY <2>5 DEF Enters, Checks, Moves, FirstStep, AfterCheck
    <3> QED
      BY <2>1, <3>1, SameUpdates
  <2>6. ASSUME NEW m \in UpdateNames, Frees(m) PROVE Settled'
    BY <2>1, <2>6 DEF Frees
  <2>7. ASSUME NEW m \in UpdateNames, Creates(m) PROVE FALSE
    <3>1. m # n
      BY <1>4, <2>7 DEF Creates, Absent, InFlight
    <3>2. stack.current = n
      BY <2>7, <3>1 DEF Creates
    <3>3. Clear
      BY <1>1, <2>7, ClearUntilCreated
    <3> QED
      BY <1>4, <2>2, <3>2, <3>3 DEF Clear, Absent
  <2>8. CASE RecordsCreation
    <3>1. stack'.current = actor.name /\ actor'.pc = "idle" /\ NoneCreated
      BY <1>1, <2>8, SameUpdates DEF RecordsCreation, Idle, TypeOK, StackObject
    <3> QED
      BY <2>1, <2>8, <3>1 DEF RecordsCreation
  <2>9. CASE RecordsResult
    <3>1. actor' = Idle \/ actor'.pc \in {"finishSucceeded", "finishFailed"}
      BY <2>9 DEF RecordsResult
    <3>2. stack'.current = None
      BY <1>1, <2>9 DEF RecordsResult, TypeOK, StackObject
    <3> QED
      BY <2>2, <3>1, <3>2 DEF Idle
  <2> QED
    BY <1>1, <2>3, <2>4, <2>5, <2>6, <2>7, <2>8, <2>9, Kinds
<1> QED
  BY <1>1, <1>3, <1>4, SuccessBegins

\* On the way to the removal of the Stack's finalizer, and after it.
LEMMA RemovalStep ==
    ASSUME DestroyInv, [Next]_vars, Undisturbed'
    PROVE  /\ actor'.pc = "removeAfterDestroy" /\ actor'.name \in DestroyNames => Settled'
           /\ stack'.deleting /\ ~stack'.finalizer /\ stack'.current \in DestroyNames => Settled'
           /\ ~stack'.finalizer /\ DestroyRequired' /\ stack'.current = None => Settled'
<1> DEFINE Removing == actor.pc = "removeAfterDestroy" /\ actor.name \in DestroyNames
           Removed  == stack.deleting /\ ~stack.finalizer /\ stack.current \in DestroyNames
           Unadded  == ~stack.finalizer /\ DestroyRequired /\ stack.current = None
<1>1. Inv /\ TypeOK /\ PathInv /\ FlightInv /\ DestroyWanted /\ ~Crash
  BY CrashDisturbs DEF DestroyInv, FlightInv, PathInv, Inv, TypeInv
<1>2. Undisturbed
  BY <1>1, StepCalm DEF Calm
<1>3. ASSUME Removing \/ Removed \/ Unadded, NoneCreated PROVE Settled'
  BY <1>1, <1>2, <1>3, SettledStays DEF DestroyInv, DestroyIsTrue
<1>4. CASE Aside
  <2>1. Removing' => Removing
    BY <1>4 DEF Aside
  <2>2. Removed' => Removed
    BY <1>1, <1>4 DEF Aside, SameStatus, DestroyWanted
  <2>3. Unadded' => Unadded
    BY <1>4 DEF Aside, SameStatus, DestroyRequired
  <2> QED
    BY <1>3, <1>4, <2>1, <2>2, <2>3 DEF Aside
<1>5. CASE Ends
  <2>1. ~Removing'
    BY <1>5 DEF Ends, Idle
  <2>2. ASSUME Removed' PROVE Removing \/ Removed
    <3>1. stack.deleting /\ stack.current \in DestroyNames
      BY <1>5, <2>2 DEF Ends, SameStatus
    <3>2. CASE actor.pc = "removeFinalizer"
      BY <1>1, <3>1, <3>2 DEF DestroyWanted
    <3>3. CASE actor.pc = "removeAfterDestroy"
      BY <1>1, <3>1, <3>3 DEF PathInv, Path, JudgedIsCurrent
    <3> QED
      BY <1>5, <2>2, <3>1, <3>2, <3>3 DEF Ends
  <2>3. ASSUME Unadded' PROVE Unadded
    <3>1. DestroyRequired /\ stack.current = None
      BY <1>5, <2>3 DEF Ends, SameStatus, NothingElse, DestroyRequired
    <3>2. actor.pc # "removeFinalizer"
      BY <1>1, <3>1 DEF DestroyWanted
    <3>3. actor.pc # "removeAfterDestroy"
      BY <1>1, <3>1, ConstantsAssumption DEF PathInv, Path, JudgedIsCurrent
    <3> QED
      BY <1>5, <2>3, <3>1, <3>2, <3>3 DEF Ends
  <2> QED
    BY <1>3, <1>5, <2>1, <2>2, <2>3 DEF Ends
<1>6. CASE Enters
  <2>1. ~Removing' /\ stack' = stack /\ DestroyRequired' = DestroyRequired
    BY <1>6 DEF Enters, FirstStep, NothingElse, DestroyRequired
  <2> QED
    BY <1>3, <1>6, <2>1, SameUpdates DEF Enters
<1>7. CASE actor.pc \notin {"idle", "addFinalizer"} /\ stack'.finalizer = stack.finalizer
           /\ actor'.pc # "removeAfterDestroy"
  BY <1>1, <1>7, PipelineHasStack
<1>8. CASE Checks
  <2>1. stack' = stack /\ stack.finalizer
    BY <1>1, <1>8, PipelineHasStack DEF Checks
  <2>2. ASSUME Removing' PROVE Settled
    <3>1. /\ stack.current \in DestroyNames /\ actor.snap.current = stack.current
      BY <1>1, <1>8, <2>2 DEF Checks, PathInv, Path, CheckedIsCurrent
    <3>2. updates[stack.current].phase = "succeeded"
      BY <1>8, <2>2, <3>1 DEF Checks, AfterCheck
    <3> QED
      BY <1>2, <3>1, <3>2 DEF DestroyInv, DestroyIsTrue
  <2> QED
    BY <1>1, <1>8, <2>1, <2>2, SettledStays, SameUpdates DEF Checks
<1>9. CASE Moves \/ \E n \in UpdateNames : Creates(n) \/ Frees(n)
  <2>1. /\ stack' = stack /\ actor'.pc # "removeAfterDestroy"
        /\ actor.pc \notin {"idle", "addFinalizer"}
    BY <1>9 DEF Moves, Creates, Frees
  <2> QED
    BY <1>7, <2>1
<1>10. CASE RecordsCreation \/ RecordsResult
  <2>1. stack'.finalizer = stack.finalizer
    BY <1>1, <1>10 DEF RecordsCreation, RecordsResult, TypeOK, StackObject
  <2>2. actor' = Idle \/ actor'.pc \in {"finishSucceeded", "finishFailed"}
    BY <1>10 DEF RecordsCreation, RecordsResult
  <2>3. actor'.pc # "removeAfterDestroy"
    BY <2>2 DEF Idle
  <2>4. actor.pc \notin {"idle", "addFinalizer"}
    BY <1>10 DEF RecordsCreation, RecordsResult
  <2> QED
    BY <1>7, <2>1, <2>3, <2>4
<1> QED
  BY <1>1, <1>4, <1>5, <1>6, <1>8, <1>9, <1>10, Kinds

LEMMA DestroyHolds == Spec => []DestroyInv
<1>1. Init => DestroyWanted /\ DestroyIsTrue
  BY ConstantsAssumption
  DEF Init, DestroyWanted, DestroyIsTrue, Fresh, Idle, NoExec, Reported, UpdateNames, Settled,
      Busy, InFlight, Working
<1>2. DestroyInv /\ [Next]_vars => DestroyWanted'
  BY WantedStep DEF DestroyInv, FlightInv
<1>3. DestroyInv /\ [Next]_vars => DestroyIsTrue'
  BY ReportStep, SuccessStep, RemovalStep DEF DestroyIsTrue
<1> QED
  BY <1>1, <1>2, <1>3, FlightHolds, PTL DEF Spec, DestroyInv

\* When a destroy Update is the last word, the Stack's finalizer goes only after it succeeded,
\* with nothing deployed and nothing at work that could deploy again: handle_destroy creates
\* it only when no other Update is in flight, and waits for it.  A required destroy that was
\* never made leaves nothing behind either, unless currentUpdate names an Up.
THEOREM DestroyedFirst == Spec => []DestroyedBeforeRemoval
<1>1. DestroyInv => DestroyedBeforeRemoval
  BY DEF DestroyInv, DestroyIsTrue, DestroyedBeforeRemoval, Settled, Busy, Working, Streaming
<1> QED
  BY <1>1, DestroyHolds, PTL

===============================================================================
