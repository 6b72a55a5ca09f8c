------------------------- MODULE StackLifecycle_proofs -------------------------
(***************************************************************************)
(* Theorems about StackLifecycle, for every set of commits and names, every*)
(* Stack spec and every number of faults, failures and restarts.           *)
(***************************************************************************)
EXTENDS StackLifecycle, TLAPS

Recording == {"recordSucceeded", "recordFailed", "recordDestroyFailed",
              "finishSucceeded", "finishFailed"}

\* What the actor holds at each of its steps.
ActorKnows ==
    /\ actor.pc = "check" => actor.snap.current \in UpdateNames
    /\ actor.pc = "resolve" => ~actor.snap.deleting
    /\ actor.pc = "gate" => actor.snap.deleting
    /\ actor.pc \in {"ensure", "create"} => actor.snap.deleting \/ actor.commit \in Commits
    /\ actor.pc = "recreate" => actor.name \in Commits /\ actor.commit \in Commits
    /\ actor.pc \in Recording \cup {"recordCreated"} => actor.name \in UpdateNames

\* The type invariant is not inductive by itself: the name an action uses must be one.
TypeInv == TypeOK /\ ActorKnows

-------------------------------------------------------------------------------
(* Types of the helpers *)

LEMMA FreshType ==
    ASSUME NEW commit \in Commits
    PROVE  Fresh(commit) \in StackObject
BY ConstantsAssumption DEF Fresh, StackObject, NoLast, LastUpdate, Generations

LEMMA IdleType == Idle \in ActorObject
<1>1. SomeCommit \in Commits
  BY ConstantsAssumption DEF SomeCommit
<1> QED
  BY <1>1, FreshType DEF Idle, ActorObject, ActorSteps

LEMMA StackEdits ==
    ASSUME NEW s \in StackObject
    PROVE  /\ \A b \in BOOLEAN : /\ [s EXCEPT !.finalizer = b] \in StackObject
                                /\ [s EXCEPT !.present = b] \in StackObject
           /\ \A how \in BOOLEAN :
                 [s EXCEPT !.deleting = TRUE, !.foreground = how] \in StackObject
           /\ \A current \in UpdateNames \cup {None}, last \in LastUpdate :
                 [s EXCEPT !.current = current, !.last = last] \in StackObject
           /\ \A commit \in Commits : s.generation < MaxGeneration =>
                 [s EXCEPT !.generation = @ + 1, !.commit = commit] \in StackObject
<1>1. \A b \in BOOLEAN : /\ [s EXCEPT !.finalizer = b] \in StackObject
                         /\ [s EXCEPT !.present = b] \in StackObject
  BY DEF StackObject
<1>2. \A how \in BOOLEAN :
         [s EXCEPT !.deleting = TRUE, !.foreground = how] \in StackObject
  BY DEF StackObject
<1>3. \A current \in UpdateNames \cup {None}, last \in LastUpdate :
         [s EXCEPT !.current = current, !.last = last] \in StackObject
  BY DEF StackObject
<1>4. \A commit \in Commits : s.generation < MaxGeneration =>
         [s EXCEPT !.generation = @ + 1, !.commit = commit] \in StackObject
  <2>1. ASSUME s.generation < MaxGeneration PROVE s.generation + 1 \in Generations
    BY <2>1, ConstantsAssumption DEF StackObject, Generations
  <2> QED
    BY <2>1 DEF StackObject
<1> QED
  BY <1>1, <1>2, <1>3, <1>4

\* The steps of the actor that change no more of it than where it is.
LEMMA ActorEdits ==
    ASSUME NEW a \in ActorObject, NEW step \in ActorSteps,
           NEW name \in UpdateNames \cup {None}, NEW commit \in Commits \cup {None}
    PROVE  /\ [a EXCEPT !.pc = step] \in ActorObject
           /\ [a EXCEPT !.pc = step, !.name = name] \in ActorObject
           /\ [a EXCEPT !.pc = step, !.commit = commit] \in ActorObject
BY DEF ActorObject

LEMMA UpdateTypes ==
    ASSUME NEW u \in UpdateObject
    PROVE  /\ Created \in UpdateObject /\ Gone \in UpdateObject
           /\ Stripped(u) \in UpdateObject /\ Deleted(u) \in UpdateObject
BY DEF Created, Gone, Stripped, Deleted, UpdateObject, Phases

LEMMA ExecTypes == NoExec \in Executor
BY ConstantsAssumption DEF NoExec, Executor, ExecSteps, Generations

LEMMA InitTypes == Init => TypeInv
<1> SUFFICES ASSUME Init PROVE TypeInv
  OBVIOUS
<1>1. stack \in StackObject /\ actor \in ActorObject
  BY FreshType, IdleType DEF Init
<1>2. exec \in [UpdateNames -> Executor]
  BY ExecTypes DEF Init
<1>3. updates \in [UpdateNames -> UpdateObject]
  BY DEF Init, UpdateObject, Phases
<1>6. workspace \in WorkspaceObject
  BY DEF Init, WorkspaceObject, NoWorkspace
<1>7. 0 \in Generations
  BY ConstantsAssumption DEF Generations
<1>8. backend \in Deployment
  BY <1>7 DEF Init, Deployment, Nothing
<1>9. config \in Config /\ source \in Commits /\ lastCommit \in Commits \cup {None}
  BY ConstantsAssumption DEF Init
<1>4. TypeOK
  BY <1>1, <1>2, <1>3, <1>6, <1>8, <1>9 DEF Init, TypeOK
<1>5. ActorKnows
  BY DEF Init, ActorKnows, Idle, Recording
<1> QED
  BY <1>4, <1>5 DEF TypeInv

LEMMA OutcomeTypes ==
    ASSUME TypeOK, NEW ok, Outcome(ok)
    PROVE  faults' \in Nat /\ runFailures' \in Nat /\ crashes' \in Nat
BY DEF TypeOK, Outcome

LEMMA FinalizerTypes ==
    ASSUME TypeInv, Debounced \/ StepFails \/ AddFinalizer \/ RemoveFinalizer
    PROVE  TypeInv'
<1> USE DEF TypeInv, ActorKnows, TypeOK, Recording
<1>1. CASE Debounced
  BY <1>1 DEF Debounced, Dequeue, worldVars, executorVars, budgetVars
<1>2. CASE StepFails
  BY <1>2, IdleType, ConstantsAssumption
  DEF StepFails, Outcome, Requeue, Finish, Idle, worldVars, executorVars
<1>3. CASE AddFinalizer
  <2>1. stack' \in StackObject
    BY <1>3, StackEdits DEF AddFinalizer
  <2>2. wake' \in BOOLEAN
    BY <1>3 DEF AddFinalizer
  <2>3. faults' \in Nat /\ runFailures' \in Nat /\ crashes' \in Nat
    BY <1>3, OutcomeTypes DEF AddFinalizer
  <2> QED
    BY <1>3, <2>1, <2>2, <2>3, IdleType, ConstantsAssumption
    DEF AddFinalizer, NoRequeue, Finish, Idle, worldVars, executorVars
<1>4. CASE RemoveFinalizer
  <2>1. stack' \in StackObject
    BY <1>4, StackEdits DEF RemoveFinalizer, RemoveStackFinalizer
  <2>2. workspace' \in WorkspaceObject
    BY <1>4 DEF RemoveFinalizer, WorkspaceObject, NoWorkspace
  <2>3. wake' \in BOOLEAN
    BY <1>4 DEF RemoveFinalizer, RemoveStackFinalizer
  <2>4. faults' \in Nat /\ runFailures' \in Nat /\ crashes' \in Nat
    BY <1>4, OutcomeTypes DEF RemoveFinalizer
  <2> QED
    BY <1>4, <2>1, <2>2, <2>3, <2>4, IdleType, ConstantsAssumption
    DEF RemoveFinalizer, NoRequeue, Finish, Idle, executorVars
<1> QED
  BY <1>1, <1>2, <1>3, <1>4

LEMMA TriggerTypes ==
    ASSUME TypeInv, NEW trigger \in Triggers,
           Reconcile(trigger) \/ CleanupOrphans(trigger) \/ GetFails(trigger)
    PROVE  TypeInv'
<1> USE DEF TypeInv, ActorKnows, TypeOK, Recording
<1>1. CASE Reconcile(trigger)
  <2>1. FirstStep(stack) \in ActorSteps
    BY DEF FirstStep, ActorSteps
  <2>2. actor' \in ActorObject
    BY <1>1, <2>1, IdleType DEF Reconcile, Finish, ActorObject
  <2>3. ActorKnows'
    <3>1. CASE FirstStep(stack) = "idle"
      BY <1>1, <3>1 DEF Reconcile, Finish, Idle
    <3>2. CASE FirstStep(stack) # "idle"
      <4>1. actor'.pc = FirstStep(stack) /\ actor'.snap = stack
        BY <1>1, <3>2, IdleType DEF Reconcile, ActorObject
      <4>2. /\ FirstStep(stack) = "check" => stack.current \in UpdateNames
            /\ FirstStep(stack) = "resolve" => ~stack.deleting
            /\ FirstStep(stack) = "gate" => stack.deleting
            /\ FirstStep(stack) \in {"addFinalizer", "removeFinalizer", "check", "gate", "resolve"}
        BY <3>2 DEF FirstStep, StackObject
      <4> QED
        BY <4>1, <4>2
    <3> QED
      BY <3>1, <3>2
  <2>4. wake' \in BOOLEAN
    BY <1>1 DEF Reconcile, Proceed, Dequeue
  <2> QED
    BY <1>1, <2>2, <2>3, <2>4 DEF Reconcile, worldVars, executorVars, budgetVars
<1>2. CASE CleanupOrphans(trigger)
  <2>1. updates' \in [UpdateNames -> UpdateObject]
    BY <1>2, UpdateTypes DEF CleanupOrphans
  <2>2. wake' \in BOOLEAN
    BY <1>2 DEF CleanupOrphans, Proceed, Dequeue
  <2>3. faults' \in Nat /\ runFailures' \in Nat /\ crashes' \in Nat
    BY <1>2, OutcomeTypes DEF CleanupOrphans
  <2> QED
    BY <1>2, <2>1, <2>2, <2>3 DEF CleanupOrphans, worldVars, executorVars
<1>3. CASE GetFails(trigger)
  <2>1. wake' \in BOOLEAN
    BY <1>3 DEF GetFails, Proceed, Dequeue
  <2>2. faults' \in Nat /\ runFailures' \in Nat /\ crashes' \in Nat
    BY <1>3, OutcomeTypes DEF GetFails
  <2> QED
    BY <1>3, <2>1, <2>2 DEF GetFails, worldVars, executorVars
<1> QED
  BY <1>1, <1>2, <1>3

LEMMA PipelineTypes ==
    ASSUME TypeInv, CheckUpdate \/ DestroyGate \/ ResolveSource \/ EnsureWorkspace
    PROVE  TypeInv'
<1> USE DEF TypeInv, ActorKnows, TypeOK, Recording
<1>1. CASE CheckUpdate
  <2> DEFINE n == actor.snap.current
  <2>1. n \in UpdateNames
    BY <1>1 DEF CheckUpdate
  <2>2. CASE InFlight(n)
    BY <1>1, <2>2, IdleType
    DEF CheckUpdate, Finish, Idle, Requeue, worldVars, executorVars, budgetVars
  <2>3. CASE ~InFlight(n)
    <3> DEFINE step == AfterCheck(updates[n].phase, actor.snap.deleting)
    <3>1. /\ step \in ActorSteps
          /\ step \notin {"check", "ensure", "create", "recreate"}
          /\ step = "resolve" => ~actor.snap.deleting
          /\ step = "gate" => actor.snap.deleting
      BY DEF AfterCheck, ActorSteps
    <3>2. actor' = [actor EXCEPT !.pc = step, !.name = n]
      BY <1>1, <2>3 DEF CheckUpdate
    <3>3. actor' \in ActorObject
      BY <2>1, <3>1, <3>2, ActorEdits
    <3>4. actor'.pc = step /\ actor'.name = n /\ actor'.snap = actor.snap
      BY <3>2 DEF ActorObject
    <3>5. ActorKnows'
      BY <2>1, <3>1, <3>4
    <3> QED
      BY <1>1, <2>3, <3>3, <3>5 DEF CheckUpdate, NoRequeue, worldVars, executorVars, budgetVars
  <2> QED
    BY <2>2, <2>3
<1>2. CASE DestroyGate
  <2>1. actor' = Idle \/ actor' = [actor EXCEPT !.pc = "ensure"]
    BY <1>2 DEF DestroyGate, Finish, Goto
  <2>2. actor' \in ActorObject
    BY <2>1, IdleType, ActorEdits DEF ActorSteps
  <2>3. ActorKnows'
    BY <1>2, <2>1 DEF DestroyGate, Idle, ActorObject
  <2>4. debounce' \in BOOLEAN /\ timers' \in SUBSET {"soon", "cooldown"}
    BY <1>2 DEF DestroyGate, Requeue, NoRequeue
  <2> QED
    BY <1>2, <2>2, <2>3, <2>4 DEF DestroyGate, worldVars, executorVars, budgetVars
<1>3. CASE ResolveSource
  <2>1. PICK commit \in Commits :
           actor' = Idle \/ actor' = [actor EXCEPT !.pc = "ensure", !.commit = commit]
    <3>1. Resolved(actor.snap) \in Commits
      BY DEF Resolved, ActorObject, StackObject
    <3> QED
      BY <1>3, <3>1 DEF ResolveSource, Finish
  <2>2. CASE actor' = Idle
    BY <1>3, <2>2, IdleType DEF ResolveSource, Idle, NoRequeue, worldVars, executorVars, budgetVars
  <2>3. CASE actor' = [actor EXCEPT !.pc = "ensure", !.commit = commit]
    <3>1. actor' \in ActorObject
      BY <2>3, ActorEdits DEF ActorSteps
    <3>2. actor'.pc = "ensure" /\ actor'.commit \in Commits
      BY <2>3 DEF ActorObject
    <3>3. ActorKnows'
      BY <3>2
    <3> QED
      BY <1>3, <3>1, <3>3 DEF ResolveSource, NoRequeue, worldVars, executorVars, budgetVars
  <2> QED
    BY <2>1, <2>2, <2>3
<1>4. CASE EnsureWorkspace
  <2>1. actor' = Idle \/ actor' = [actor EXCEPT !.pc = "create"]
    BY <1>4 DEF EnsureWorkspace, Finish, Goto
  <2>2. actor' \in ActorObject
    BY <2>1, IdleType, ActorEdits DEF ActorSteps
  <2>3. ActorKnows'
    BY <1>4, <2>1 DEF EnsureWorkspace, Idle, ActorObject
  <2>4. debounce' \in BOOLEAN /\ timers' \in SUBSET {"soon", "cooldown"}
    BY <1>4 DEF EnsureWorkspace, Requeue, NoRequeue
  <2>5. Resolved(actor.snap) \in Commits
    BY DEF Resolved, ActorObject, StackObject
  <2>6. workspace' \in WorkspaceObject
    <3>1. CASE workspace.state = "absent"
      BY <1>4, <2>5, <3>1 DEF EnsureWorkspace, WorkspaceObject
    <3>2. CASE workspace.state # "absent"
      <4> DEFINE state == IF workspace.state = "created" THEN "starting" ELSE workspace.state
                 template == IF config.programSource THEN source ELSE workspace.template
      <4>1. state \in {"absent", "created", "starting", "ready"} /\ template \in Commits \cup {None}
        BY DEF WorkspaceObject
      <4>2. workspace' = [workspace EXCEPT !.state = state, !.template = template]
        BY <1>4, <3>2 DEF EnsureWorkspace
      <4> QED
        BY <4>1, <4>2 DEF WorkspaceObject
    <3> QED
      BY <3>1, <3>2
  <2> QED
    BY <1>4, <2>2, <2>3, <2>4, <2>6 DEF EnsureWorkspace, executorVars, budgetVars
<1> QED
  BY <1>1, <1>2, <1>3, <1>4

LEMMA CreationTypes ==
    ASSUME TypeInv, CreateUpdate \/ RecreateUpdate \/ CreateDestroy
    PROVE  TypeInv'
<1> USE DEF TypeInv, ActorKnows, TypeOK, Recording
<1>1. CASE CreateUpdate
  <2> DEFINE n == actor.commit
  <2>1. n \in Commits /\ n \in UpdateNames
    BY <1>1 DEF CreateUpdate, UpdateNames
  <2>2. updates' \in [UpdateNames -> UpdateObject]
    BY <1>1, <2>1, UpdateTypes DEF CreateUpdate
  <2>3. /\ actor' \in ActorObject /\ actor'.name = n /\ actor'.commit = n
        /\ actor'.pc \in {"recordCreated", "recreate"}
    <3>1. \/ actor' = [actor EXCEPT !.pc = "recordCreated", !.name = n]
          \/ actor' = [actor EXCEPT !.pc = "recreate", !.name = n]
      BY <1>1 DEF CreateUpdate
    <3>2. ASSUME NEW step \in {"recordCreated", "recreate"}
          PROVE  [actor EXCEPT !.pc = step, !.name = n] \in ActorObject
      BY <2>1 DEF ActorObject, ActorSteps
    <3>3. actor' \in ActorObject
      BY <3>1, <3>2
    <3> QED
      BY <3>1, <3>3 DEF ActorObject
  <2>4. ActorKnows'
    BY <2>1, <2>3
  <2>5. dirty' \in SUBSET UpdateNames /\ lastCommit' \in Commits \cup {None}
    BY <1>1, <2>1 DEF CreateUpdate
  <2>6. faults' \in Nat /\ runFailures' \in Nat /\ crashes' \in Nat
    BY <1>1, OutcomeTypes DEF CreateUpdate, budgetVars
  <2> QED
    BY <1>1, <2>2, <2>3, <2>4, <2>5, <2>6 DEF CreateUpdate, NoRequeue, worldVars, executorVars
<1>2. CASE RecreateUpdate
  <2> DEFINE n == actor.name
  <2>1. n \in UpdateNames /\ actor.commit \in Commits
    BY <1>2 DEF RecreateUpdate, UpdateNames
  <2>2. updates' \in [UpdateNames -> UpdateObject]
    BY <1>2, <2>1, UpdateTypes DEF RecreateUpdate
  <2>3. actor' = Idle \/ actor' = [actor EXCEPT !.pc = "recordCreated"]
    BY <1>2 DEF RecreateUpdate, Finish, Goto
  <2>4. actor' \in ActorObject
    BY <2>3, IdleType, ActorEdits DEF ActorSteps
  <2>5. ActorKnows'
    BY <2>1, <2>3 DEF Idle, ActorObject
  <2>6. dirty' \in SUBSET UpdateNames /\ lastCommit' \in Commits \cup {None}
    BY <1>2, <2>1 DEF RecreateUpdate
  <2>7. debounce' \in BOOLEAN /\ timers' \in SUBSET {"soon", "cooldown"}
    BY <1>2 DEF RecreateUpdate, Requeue, NoRequeue
  <2> QED
    BY <1>2, <2>2, <2>4, <2>5, <2>6, <2>7 DEF RecreateUpdate, worldVars, executorVars, budgetVars
<1>3. CASE CreateDestroy
  <2>1. PICK n \in FreshNames :
          /\ updates' = [updates EXCEPT ![n] = Created]
          /\ dirty' = dirty \cup {n}
          /\ actor' = [actor EXCEPT !.pc = "recordCreated", !.name = n]
    BY <1>3 DEF CreateDestroy
  <2>2. n \in UpdateNames
    BY DEF FreshNames, UpdateNames
  <2>3. updates' \in [UpdateNames -> UpdateObject]
    BY <2>1, <2>2, UpdateTypes
  <2>4. actor' \in ActorObject
    BY <2>1, <2>2, ActorEdits DEF ActorSteps
  <2>6. actor'.name = n /\ actor'.pc = "recordCreated"
    BY <2>1 DEF ActorObject
  <2>5. ActorKnows'
    BY <2>2, <2>6
  <2> QED
    BY <1>3, <2>1, <2>2, <2>3, <2>4, <2>5
    DEF CreateDestroy, NoRequeue, worldVars, executorVars, budgetVars
<1> QED
  BY <1>1, <1>2, <1>3

LEMMA LastTypes ==
    ASSUME TypeInv, NEW state \in {"succeeded", "failed"}, NEW type \in {"up", "destroy"},
           NEW commit \in Commits \cup {None}
    PROVE  /\ NoLast \in LastUpdate
           /\ Record(state, type, commit) \in LastUpdate
<1>1. NoLast \in LastUpdate
  BY ConstantsAssumption DEF NoLast, LastUpdate, Generations
<1>2. actor.snap.generation \in Generations /\ actor.name \in UpdateNames \cup {None}
  BY DEF TypeInv, TypeOK, ActorObject, StackObject
<1>3. Record(state, type, commit) \in LastUpdate
  BY <1>2 DEF Record, LastUpdate
<1> QED
  BY <1>1, <1>3

LEMMA ApplyTypes ==
    ASSUME TypeOK, NEW ok \in BOOLEAN, NEW current \in UpdateNames \cup {None},
           NEW last \in LastUpdate, ApplyStatus(ok, current, last)
    PROVE  stack' \in StackObject /\ wake' \in BOOLEAN
<1>1. stack' \in StackObject
  <2>1. stack \in StackObject
    BY DEF TypeOK
  <2>2. [stack EXCEPT !.current = current, !.last = last] \in StackObject
    BY <2>1, StackEdits
  <2> QED
    BY <2>1, <2>2 DEF ApplyStatus
<1>2. wake' \in BOOLEAN
  BY DEF ApplyStatus, TypeOK
<1> QED
  BY <1>1, <1>2

LEMMA RecordTypes ==
    ASSUME TypeInv,
           RecordCreated \/ RecordSucceeded \/ RecordFailed \/ FinishUpdate \/ RecordDestroyFailed
    PROVE  TypeInv'
<1> USE DEF TypeInv, ActorKnows, TypeOK, Recording
<1>1. CASE RecordCreated
  <2>1. PICK ok \in BOOLEAN : Outcome(ok) /\ ApplyStatus(ok, actor.name, NoLast)
    BY <1>1 DEF RecordCreated
  <2>2. actor.name \in UpdateNames \cup {None}
    BY DEF ActorObject
  <2>3. stack' \in StackObject /\ wake' \in BOOLEAN
    BY <2>1, <2>2, ApplyTypes, LastTypes
  <2>4. faults' \in Nat /\ runFailures' \in Nat /\ crashes' \in Nat
    BY <2>1, OutcomeTypes
  <2> QED
    BY <1>1, <2>3, <2>4, IdleType DEF RecordCreated, Finish, Idle, NoRequeue, worldVars, executorVars
<1>2. CASE RecordSucceeded
  <2>1. PICK ok \in BOOLEAN :
          Outcome(ok) /\ ApplyStatus(ok, None, Record("succeeded", "up", lastCommit))
    BY <1>2 DEF RecordSucceeded
  <2>2. Record("succeeded", "up", lastCommit) \in LastUpdate
    BY LastTypes
  <2>3. stack' \in StackObject /\ wake' \in BOOLEAN
    BY <2>1, <2>2, ApplyTypes
  <2>4. faults' \in Nat /\ runFailures' \in Nat /\ crashes' \in Nat
    BY <2>1, OutcomeTypes
  <2>5. actor' = [actor EXCEPT !.pc = "finishSucceeded"]
    BY <1>2 DEF RecordSucceeded, Goto
  <2>6. actor' \in ActorObject
    BY <2>5, ActorEdits DEF ActorSteps
  <2>7. ActorKnows'
    BY <1>2, <2>5 DEF RecordSucceeded, ActorObject
  <2> QED
    BY <1>2, <2>3, <2>4, <2>6, <2>7 DEF RecordSucceeded, NoRequeue, worldVars, executorVars
<1>3. CASE RecordFailed
  <2>1. PICK ok \in BOOLEAN :
          Outcome(ok) /\ ApplyStatus(ok, None, Record("failed", "up", lastCommit))
    BY <1>3 DEF RecordFailed
  <2>2. Record("failed", "up", lastCommit) \in LastUpdate
    BY LastTypes
  <2>3. stack' \in StackObject /\ wake' \in BOOLEAN
    BY <2>1, <2>2, ApplyTypes
  <2>4. faults' \in Nat /\ runFailures' \in Nat /\ crashes' \in Nat
    BY <2>1, OutcomeTypes
  <2>5. actor' = [actor EXCEPT !.pc = "finishFailed"]
    BY <1>3 DEF RecordFailed, Goto
  <2>6. actor' \in ActorObject
    BY <2>5, ActorEdits DEF ActorSteps
  <2>7. ActorKnows'
    BY <1>3, <2>5 DEF RecordFailed, ActorObject
  <2>8. cooling' \in BOOLEAN
    BY <1>3 DEF RecordFailed
  <2> QED
    BY <1>3, <2>3, <2>4, <2>6, <2>7, <2>8 DEF RecordFailed, NoRequeue, worldVars, executorVars
<1>4. CASE FinishUpdate
  <2>1. actor.name \in UpdateNames
    BY <1>4 DEF FinishUpdate
  <2>2. updates' \in [UpdateNames -> UpdateObject]
    BY <1>4, <2>1, UpdateTypes DEF FinishUpdate
  <2>3. workspace' \in WorkspaceObject
    BY <1>4 DEF FinishUpdate, WorkspaceObject, NoWorkspace
  <2>4. faults' \in Nat /\ runFailures' \in Nat /\ crashes' \in Nat
    BY <1>4, OutcomeTypes DEF FinishUpdate
  <2>5. debounce' \in BOOLEAN /\ timers' \in SUBSET {"soon", "cooldown"}
    BY <1>4 DEF FinishUpdate, Requeue, NoRequeue
  <2>6. dirty' \in SUBSET UpdateNames
    BY <1>4, <2>1 DEF FinishUpdate
  <2> QED
    BY <1>4, <2>2, <2>3, <2>4, <2>5, <2>6, IdleType DEF FinishUpdate, Finish, Idle, executorVars
<1>5. CASE RecordDestroyFailed
  <2>1. PICK ok \in BOOLEAN :
          Outcome(ok) /\ ApplyStatus(ok, None, Record("failed", "destroy", None))
    BY <1>5 DEF RecordDestroyFailed
  <2>2. Record("failed", "destroy", None) \in LastUpdate
    BY LastTypes
  <2>3. stack' \in StackObject /\ wake' \in BOOLEAN
    BY <2>1, <2>2, ApplyTypes
  <2>4. faults' \in Nat /\ runFailures' \in Nat /\ crashes' \in Nat
    BY <2>1, OutcomeTypes
  <2>5. cooling' \in BOOLEAN
    BY <1>5 DEF RecordDestroyFailed
  <2> QED
    BY <1>5, <2>3, <2>4, <2>5, IdleType
    DEF RecordDestroyFailed, Finish, Idle, Requeue, worldVars, executorVars
<1> QED
  BY <1>1, <1>2, <1>3, <1>4, <1>5

LEMMA ExecEdits ==
    ASSUME TypeOK, NEW n \in UpdateNames, NEW step \in ExecSteps
    PROVE  /\ [exec EXCEPT ![n].pc = step] \in [UpdateNames -> Executor]
           /\ [exec EXCEPT ![n] = NoExec] \in [UpdateNames -> Executor]
           /\ \A result \in {"succeeded", "failed"} :
                 [exec EXCEPT ![n].pc = step, ![n].result = result]
                    \in [UpdateNames -> Executor]
BY ExecTypes DEF TypeOK, Executor

LEMMA PatchTypes ==
    ASSUME TypeOK, NEW n \in UpdateNames, NEW ok \in BOOLEAN,
           NEW phase \in {"progressing", "succeeded", "failed"}, PatchPhase(n, ok, phase)
    PROVE  updates' \in [UpdateNames -> UpdateObject] /\ dirty' \in SUBSET UpdateNames
BY DEF TypeOK, PatchPhase, UpdateObject, Phases

LEMMA EffectTypes ==
    ASSUME TypeOK, NEW n \in UpdateNames
    PROVE  Effect(n) \in Deployment /\ PartialEffects(n) \subseteq Deployment
<1>1. exec[n].pod \in Commits \cup {None} /\ exec[n].generation \in Generations
  BY DEF TypeOK, Executor
<1>2. 0 \in Generations
  BY ConstantsAssumption DEF Generations
<1>3. Effect(n) \in Deployment
  BY <1>1, <1>2 DEF TypeOK, Effect, Deployment, Nothing
<1> QED
  BY <1>3 DEF TypeOK, PartialEffects

LEMMA ExecutorTypes ==
    ASSUME TypeInv, NEW n \in UpdateNames, WatchUpdate(n) \/ ExecutorStep(n)
    PROVE  TypeInv'
<1> USE DEF TypeInv, ActorKnows, ActorUnchanged
<1>1. CASE WatchUpdate(n)
  <2>1. exec' \in [UpdateNames -> Executor]
    <3>1. exec' = exec \/ exec' = [exec EXCEPT ![n].pc = "start"]
      BY <1>1 DEF WatchUpdate
    <3>2. [exec EXCEPT ![n].pc = "start"] \in [UpdateNames -> Executor]
      BY ExecEdits DEF ExecSteps
    <3> QED
      BY <3>1, <3>2 DEF TypeOK
  <2>2. wake' \in BOOLEAN
    BY <1>1 DEF WatchUpdate, TypeOK
  <2>3. inProgress' \in SUBSET UpdateNames
    BY <1>1 DEF WatchUpdate, TypeOK
  <2> QED
    BY <1>1, <2>1, <2>2, <2>3 DEF WatchUpdate, TypeOK, worldVars, budgetVars
<1>2. CASE ExecStart(n)
  <2>1. PICK ok \in BOOLEAN : Outcome(ok) /\ PatchPhase(n, ok, "progressing")
    BY <1>2 DEF ExecStart
  <2>2. updates' \in [UpdateNames -> UpdateObject] /\ dirty' \in SUBSET UpdateNames
    BY <2>1, PatchTypes
  <2>3. faults' \in Nat /\ runFailures' \in Nat /\ crashes' \in Nat
    BY <2>1, OutcomeTypes
  <2>4. exec' \in [UpdateNames -> Executor] /\ inProgress' \in SUBSET UpdateNames
    <3>1. \/ exec' = [exec EXCEPT ![n].pc = "config"] /\ inProgress' = inProgress
          \/ exec' = [exec EXCEPT ![n] = NoExec] /\ inProgress' = inProgress \ {n}
      BY <1>2 DEF ExecStart
    <3>2. /\ [exec EXCEPT ![n].pc = "config"] \in [UpdateNames -> Executor]
          /\ [exec EXCEPT ![n] = NoExec] \in [UpdateNames -> Executor]
      BY ExecTypes DEF TypeOK, Executor, ExecSteps
    <3> QED
      BY <3>1, <3>2 DEF TypeOK
  <2> QED
    BY <1>2, <2>2, <2>3, <2>4 DEF ExecStart, TypeOK, worldVars
<1>3. CASE ExecConfig(n)
  <2>1. PICK ok \in BOOLEAN :
          /\ Outcome(ok)
          /\ exec' = [exec EXCEPT
               ![n].pc = "streaming",
               ![n].generation = IF ok /\ stack.present THEN stack.generation ELSE 0,
               ![n].pod = workspace.pod]
    BY <1>3 DEF ExecConfig
  <2>2. (IF ok /\ stack.present THEN stack.generation ELSE 0) \in Generations
    BY ConstantsAssumption DEF TypeOK, StackObject, Generations
  <2>3. exec' \in [UpdateNames -> Executor]
    <3>1. PICK generation \in Generations :
            exec' = [exec EXCEPT ![n].pc = "streaming", ![n].generation = generation,
                                 ![n].pod = workspace.pod]
      BY <2>1, <2>2
    <3>2. workspace.pod \in Commits \cup {None}
      BY DEF TypeOK, WorkspaceObject
    <3>3. ASSUME NEW e \in Executor, NEW pod \in Commits \cup {None}
          PROVE  [e EXCEPT !.pc = "streaming", !.generation = generation, !.pod = pod] \in Executor
      BY DEF Executor, ExecSteps
    <3> QED
      BY <3>1, <3>2, <3>3 DEF TypeOK
  <2>4. faults' \in Nat /\ runFailures' \in Nat /\ crashes' \in Nat
    BY <2>1, OutcomeTypes
  <2> QED
    BY <1>3, <2>3, <2>4 DEF ExecConfig, TypeOK, worldVars
<1>4. CASE ExecStream(n)
  <2>1. PICK result \in {"succeeded", "failed"} :
          exec' = [exec EXCEPT ![n].pc = "report", ![n].result = result]
    BY <1>4 DEF ExecStream
  <2>2. exec' \in [UpdateNames -> Executor]
    BY <2>1, ExecEdits DEF ExecSteps
  <2>3. backend' \in Deployment
    BY <1>4, EffectTypes DEF ExecStream
  <2>4. runFailures' \in Nat
    BY <1>4 DEF ExecStream, TypeOK
  <2> QED
    BY <1>4, <2>2, <2>3, <2>4 DEF ExecStream, TypeOK
<1>5. CASE ExecReport(n)
  <2>1. PICK ok \in BOOLEAN : Outcome(ok) /\ PatchPhase(n, ok, exec[n].result)
    BY <1>5 DEF ExecReport
  <2>2. exec[n].result \in {"succeeded", "failed"}
    BY DEF TypeOK, Executor
  <2>3. updates' \in [UpdateNames -> UpdateObject] /\ dirty' \in SUBSET UpdateNames
    BY <2>1, <2>2, PatchTypes
  <2>4. faults' \in Nat /\ runFailures' \in Nat /\ crashes' \in Nat
    BY <2>1, OutcomeTypes
  <2>5. exec' \in [UpdateNames -> Executor]
    BY <1>5, ExecEdits DEF ExecReport, ExecSteps
  <2> QED
    BY <1>5, <2>3, <2>4, <2>5 DEF ExecReport, TypeOK, worldVars
<1>6. CASE ExecNotify(n)
  <2>1. exec' \in [UpdateNames -> Executor]
    BY <1>6, ExecTypes DEF ExecNotify, TypeOK
  <2> QED
    BY <1>6, <2>1 DEF ExecNotify, TypeOK, worldVars, budgetVars
<1> QED
  BY <1>1, <1>2, <1>3, <1>4, <1>5, <1>6 DEF ExecutorStep

LEMMA SurroundingsTypes ==
    ASSUME TypeInv, User \/ Cluster \/ Crash
    PROVE  TypeInv'
<1> USE DEF TypeInv, ActorKnows, OperatorUnchanged
<1>1. ASSUME NEW commit \in Commits, EditSpec(commit) PROVE TypeInv'
  <2>1. stack' \in StackObject
    BY <1>1, StackEdits DEF EditSpec, TypeOK
  <2> QED
    BY <1>1, <2>1 DEF EditSpec, TypeOK, worldVars, budgetVars, executorVars
<1>2. ASSUME NEW commit \in Commits, AdvanceSource(commit) PROVE TypeInv'
  BY <1>2 DEF AdvanceSource, TypeOK, executorVars, budgetVars
<1>3. ASSUME NEW how \in Propagations, DeleteStack(how) PROVE TypeInv'
  <2>1. stack' \in StackObject
    BY <1>3, StackEdits DEF DeleteStack, TypeOK
  <2> QED
    BY <1>3, <2>1 DEF DeleteStack, TypeOK, worldVars, budgetVars, executorVars
<1>4. CASE CooldownElapses \/ DebounceElapses
  BY <1>4 DEF CooldownElapses, DebounceElapses, TypeOK, worldVars, executorVars, budgetVars
<1>5. CASE PodReady
  <2>1. workspace' \in WorkspaceObject
    BY <1>5 DEF PodReady, TypeOK, WorkspaceObject
  <2> QED
    BY <1>5, <2>1 DEF PodReady, TypeOK, executorVars, budgetVars
<1>6. CASE StackGone
  <2>1. stack' \in StackObject
    BY <1>6, StackEdits DEF StackGone, TypeOK
  <2> QED
    BY <1>6, <2>1 DEF StackGone, TypeOK, worldVars, budgetVars, executorVars
<1>7. CASE CollectWorkspace
  <2>1. workspace' \in WorkspaceObject
    BY <1>7 DEF CollectWorkspace, WorkspaceObject, NoWorkspace
  <2> QED
    BY <1>7, <2>1 DEF CollectWorkspace, TypeOK, executorVars, budgetVars
<1>8. ASSUME NEW n \in UpdateNames, CollectUpdate(n) PROVE TypeInv'
  <2>1. updates' \in [UpdateNames -> UpdateObject]
    BY <1>8, UpdateTypes DEF CollectUpdate, TypeOK
  <2> QED
    BY <1>8, <2>1 DEF CollectUpdate, TypeOK, worldVars, executorVars, budgetVars
<1>9. CASE Crash
  <2>1. exec' \in [UpdateNames -> Executor]
    BY <1>9, ExecTypes DEF Crash
  <2>2. backend' \in Deployment
    BY <1>9, EffectTypes DEF Crash, TypeOK, UpdateNames
  <2>3. wake' \in BOOLEAN
    BY <1>9 DEF Crash, TypeOK, StackObject
  <2>4. ActorKnows'
    BY <1>9 DEF Crash, Idle, Recording
  <2> QED
    <3>1. crashes' \in Nat /\ dirty' \in SUBSET UpdateNames
      BY <1>9 DEF Crash, TypeOK
    <3>2. actor' \in ActorObject
      BY <1>9, IdleType DEF Crash
    <3>3. debounce' \in BOOLEAN /\ timers' \in SUBSET {"soon", "cooldown"}
      BY <1>9 DEF Crash
    <3>4. TypeOK'
      BY <1>9, <2>1, <2>2, <2>3, <3>1, <3>2, <3>3 DEF Crash, TypeOK
    <3> QED
      BY <2>4, <3>4
<1> QED
  BY <1>1, <1>2, <1>3, <1>4, <1>5, <1>6, <1>7, <1>8, <1>9 DEF User, Cluster

LEMMA TypeStep == TypeInv /\ [Next]_vars => TypeInv'
<1> SUFFICES ASSUME TypeInv, [Next]_vars PROVE TypeInv'
  OBVIOUS
<1>1. CASE Actor
  BY <1>1, FinalizerTypes, TriggerTypes, PipelineTypes, CreationTypes, RecordTypes DEF Actor
<1>2. CASE User \/ Cluster \/ Crash
  BY <1>2, SurroundingsTypes
<1>3. CASE \E n \in UpdateNames : WatchUpdate(n) \/ ExecutorStep(n)
  BY <1>3, ExecutorTypes
<1>4. CASE UNCHANGED vars
  BY <1>4 DEF vars, TypeInv, TypeOK, ActorKnows
<1> QED
  BY <1>1, <1>2, <1>3, <1>4 DEF Next

\* Every variable keeps its type, and the actor enters a step only with what the step
\* needs: a name in currentUpdate before it is checked, a commit before it creates an
\* Update, a name before it records an outcome (handle_reconcile, run_pipeline).
THEOREM TypeCorrect == Spec => []TypeOK
<1>1. TypeInv => TypeOK
  BY DEF TypeInv
<1> QED
  BY <1>1, InitTypes, TypeStep, PTL DEF Spec

-------------------------------------------------------------------------------
(* Updates in flight are protected *)

\* The actor works on the pipeline only while its Stack holds the finalizer, so that the
\* Stack cannot go away; and as it is the only one to remove that finalizer, and the only
\* one to remove that of an Update while the Stack is there, an Update in flight or worked
\* on stays.
FinalizerNeedsStack    == stack.finalizer => stack.present
PipelineHoldsFinalizer == actor.pc \notin {"idle", "addFinalizer"} => stack.finalizer
RecordedIsOver         == actor.pc \in Recording => ~InFlight(actor.name)
StartedIsNew           == \A n \in UpdateNames : exec[n].pc = "start" =>
                              updates[n].phase \in {"new", "unused", "gone"}
WorkedIsRunning        == \A n \in UpdateNames : Working(n) =>
                              updates[n].phase = "progressing" \/ (Absent(n) /\ ~stack.present)

Protection == /\ FinalizerNeedsStack /\ PipelineHoldsFinalizer /\ InFlightProtected
              /\ RecordedIsOver /\ StartedIsNew /\ WorkedIsRunning
Inv == TypeInv /\ Protection

LEMMA InitProtection == Init => Protection
BY DEF Init, Protection, FinalizerNeedsStack, PipelineHoldsFinalizer, InFlightProtected,
       RecordedIsOver, StartedIsNew, WorkedIsRunning, Idle, Fresh, NoExec, InFlight, Working,
       Recording, Absent

\* An action that leaves the Updates and the tasks alone.
LEMMA QuietProtection ==
    ASSUME Inv, UNCHANGED <<updates, exec>>,
           stack'.present => stack.present,
           stack'.finalizer => stack'.present,
           actor'.pc \notin {"idle", "addFinalizer"} => stack'.finalizer,
           actor'.pc \in Recording => ~InFlight(actor'.name)
    PROVE  Protection'
BY DEF Inv, Protection, FinalizerNeedsStack, PipelineHoldsFinalizer, InFlightProtected,
       RecordedIsOver, StartedIsNew, WorkedIsRunning, InFlight, Working, Absent

\* An action of the actor that also leaves the Stack alone, or patches its status.
LEMMA PipelineProtection ==
    ASSUME Inv, UNCHANGED <<updates, exec>>,
           stack'.present = stack.present /\ stack'.finalizer = stack.finalizer,
           actor.pc \notin {"idle", "addFinalizer"} \/ actor' = Idle,
           actor'.pc \in Recording => ~InFlight(actor'.name)
    PROVE  Protection'
<1>1. actor'.pc \notin {"idle", "addFinalizer"} => stack.finalizer
  BY DEF Inv, Protection, PipelineHoldsFinalizer, Idle
<1> QED
  BY <1>1, QuietProtection DEF Inv, Protection, FinalizerNeedsStack

LEMMA StatusPatch ==
    ASSUME TypeOK, NEW ok, NEW current, NEW last, ApplyStatus(ok, current, last)
    PROVE  stack'.present = stack.present /\ stack'.finalizer = stack.finalizer
BY DEF TypeOK, ApplyStatus, StackObject

LEMMA FinalizerProtection ==
    ASSUME Inv, Debounced \/ StepFails \/ AddFinalizer \/ RemoveFinalizer
    PROVE  Protection'
<1> USE DEF Inv
<1>1. CASE Debounced
  BY <1>1, QuietProtection DEF Debounced, executorVars, Protection, FinalizerNeedsStack,
     PipelineHoldsFinalizer, RecordedIsOver
<1>2. CASE StepFails
  BY <1>2, PipelineProtection DEF StepFails, Finish, executorVars, Idle, Recording
<1>3. CASE AddFinalizer
  <2>1. /\ stack'.present = stack.present
        /\ stack'.finalizer => stack.present
    BY <1>3 DEF AddFinalizer, TypeInv, TypeOK, StackObject, Protection, FinalizerNeedsStack
  <2> QED
    BY <1>3, <2>1, QuietProtection DEF AddFinalizer, Finish, Idle, Recording, executorVars
<1>4. CASE RemoveFinalizer
  <2>1. /\ stack'.present = stack.present
        /\ stack'.finalizer => stack.finalizer
    BY <1>4 DEF RemoveFinalizer, RemoveStackFinalizer, TypeInv, TypeOK, StackObject
  <2> QED
    BY <1>4, <2>1, QuietProtection
    DEF RemoveFinalizer, Finish, Idle, Recording, executorVars, Protection, FinalizerNeedsStack
<1> QED
  BY <1>1, <1>2, <1>3, <1>4

LEMMA TriggerProtection ==
    ASSUME Inv, NEW trigger \in Triggers,
           Reconcile(trigger) \/ CleanupOrphans(trigger) \/ GetFails(trigger)
    PROVE  Protection'
<1> USE DEF Inv
<1>1. CASE Reconcile(trigger)
  <2>1. CASE FirstStep(stack) = "idle"
    <3>1. actor' = Idle
      BY <1>1, <2>1 DEF Reconcile, Finish
    <3>2. actor'.pc \notin Recording
      BY <3>1 DEF Idle, Recording
    <3> QED
      BY <1>1, <3>1, <3>2, PipelineProtection DEF Reconcile, executorVars
  <2>2. CASE FirstStep(stack) # "idle"
    <3>1. actor'.pc = FirstStep(stack)
      BY <1>1, <2>2, IdleType DEF Reconcile, ActorObject
    <3>2. /\ FirstStep(stack) # "addFinalizer" => stack.finalizer
          /\ FirstStep(stack) \notin Recording
      BY <2>2 DEF FirstStep, Recording, TypeInv, TypeOK, StackObject
    <3> QED
      BY <1>1, <3>1, <3>2, QuietProtection
      DEF Reconcile, executorVars, Protection, FinalizerNeedsStack
  <2> QED
    BY <2>1, <2>2
<1>2. CASE CleanupOrphans(trigger)
  <2>1. UNCHANGED <<stack, actor, exec>> /\ ~stack.present
    BY <1>2 DEF CleanupOrphans, executorVars
  <2>2. \A n \in UpdateNames : updates'[n].phase \in {updates[n].phase, "gone"}
    BY <1>2 DEF CleanupOrphans, Stripped, Gone, TypeInv, TypeOK, UpdateObject
  <2>3. actor.pc = "idle" \/ actor.pc = "addFinalizer"
    BY <2>1 DEF Protection, FinalizerNeedsStack, PipelineHoldsFinalizer
  <2> QED
    BY <2>1, <2>2, <2>3
    DEF Protection, FinalizerNeedsStack, PipelineHoldsFinalizer, InFlightProtected,
        RecordedIsOver, StartedIsNew, WorkedIsRunning, InFlight, Working, Absent, Recording
<1>3. CASE GetFails(trigger)
  BY <1>3, QuietProtection DEF GetFails, executorVars, Protection, FinalizerNeedsStack,
     PipelineHoldsFinalizer, RecordedIsOver
<1> QED
  BY <1>1, <1>2, <1>3

LEMMA CheckProtection ==
    ASSUME Inv, CheckUpdate \/ DestroyGate \/ ResolveSource \/ EnsureWorkspace
    PROVE  Protection'
<1> USE DEF Inv
<1>1. CASE CheckUpdate
  <2> DEFINE n == actor.snap.current
  <2>1. CASE InFlight(n)
    BY <1>1, <2>1, PipelineProtection
    DEF CheckUpdate, Finish, Idle, Recording, executorVars
  <2>2. CASE ~InFlight(n)
    <3>1. actor'.name = n
      BY <1>1, <2>2 DEF CheckUpdate, TypeInv, TypeOK, ActorObject
    <3> QED
      BY <1>1, <2>2, <3>1, PipelineProtection DEF CheckUpdate, executorVars
  <2> QED
    BY <2>1, <2>2
<1>2. CASE DestroyGate
  <2>1. actor'.pc \in {"idle", "ensure"}
    BY <1>2 DEF DestroyGate, Finish, Idle, Goto, TypeInv, TypeOK, ActorObject
  <2> QED
    BY <1>2, <2>1, PipelineProtection DEF DestroyGate, Recording, executorVars
<1>3. CASE ResolveSource
  <2>1. CASE actor' = Idle
    BY <1>3, <2>1, PipelineProtection DEF ResolveSource, Idle, Recording, executorVars
  <2>2. CASE actor' # Idle
    <3>1. PICK commit \in Commits : actor' = [actor EXCEPT !.pc = "ensure", !.commit = commit]
      <4>1. Resolved(actor.snap) \in Commits
        BY DEF Resolved, TypeInv, TypeOK, ActorObject, StackObject
      <4> QED
        BY <1>3, <2>2, <4>1 DEF ResolveSource, Finish
    <3>2. actor'.pc = "ensure"
      BY <3>1 DEF TypeInv, TypeOK, ActorObject
    <3> QED
      BY <1>3, <3>2, PipelineProtection DEF ResolveSource, Recording, executorVars
  <2> QED
    BY <2>1, <2>2
<1>4. CASE EnsureWorkspace
  <2>1. actor'.pc \in {"idle", "create"}
    BY <1>4 DEF EnsureWorkspace, Finish, Idle, Goto, TypeInv, TypeOK, ActorObject
  <2> QED
    BY <1>4, <2>1, PipelineProtection DEF EnsureWorkspace, Recording, executorVars
<1> QED
  BY <1>1, <1>2, <1>3, <1>4

\* An action that changes one Update, and no task.
LEMMA UpdateProtection ==
    ASSUME Inv, NEW n \in UpdateNames, NEW u \in UpdateObject,
           updates' = [updates EXCEPT ![n] = u], exec' = exec,
           stack'.present = stack.present /\ stack'.finalizer = stack.finalizer,
           actor'.pc \notin {"idle", "addFinalizer"} => stack.finalizer,
           actor'.pc \in Recording =>
               actor'.name \in UpdateNames /\ updates'[actor'.name].phase \notin {"new", "progressing"},
           u.phase \in {"new", "progressing"} => u.finalizer \/ ~stack.present,
           exec[n].pc = "start" => u.phase \in {"new", "unused", "gone"},
           Working(n) => u.phase = "progressing" \/ (u.phase \in {"unused", "gone"} /\ ~stack.present)
    PROVE  Protection'
<1>1. \A m \in UpdateNames : updates'[m] = IF m = n THEN u ELSE updates[m]
  BY DEF Inv, TypeInv, TypeOK
<1>2. FinalizerNeedsStack' /\ PipelineHoldsFinalizer'
  BY DEF Inv, Protection, FinalizerNeedsStack, PipelineHoldsFinalizer
<1>3. InFlightProtected'
  BY <1>1 DEF Inv, Protection, InFlightProtected, InFlight
<1>4. RecordedIsOver'
  BY DEF RecordedIsOver, InFlight
<1>5. StartedIsNew'
  BY <1>1 DEF Inv, Protection, StartedIsNew
<1>6. WorkedIsRunning'
  BY <1>1 DEF Inv, Protection, WorkedIsRunning, Working, Absent
<1> QED
  BY <1>2, <1>3, <1>4, <1>5, <1>6 DEF Protection

LEMMA CreationProtection ==
    ASSUME Inv, CreateUpdate \/ RecreateUpdate \/ CreateDestroy
    PROVE  Protection'
<1> USE DEF Inv
<1>1. stack.finalizer /\ stack.present
  BY DEF CreateUpdate, RecreateUpdate, CreateDestroy, Protection, PipelineHoldsFinalizer,
     FinalizerNeedsStack
<1>2. UNCHANGED <<stack, exec>>
  BY DEF CreateUpdate, RecreateUpdate, CreateDestroy, executorVars
<1>3. ASSUME NEW n \in UpdateNames, Absent(n) PROVE ~Working(n)
  BY <1>1, <1>3 DEF Protection, WorkedIsRunning, Absent
<1>4. /\ Created \in UpdateObject /\ Created.phase = "new" /\ Created.finalizer
  BY UpdateTypes DEF Created, UpdateObject, Phases
<1>5. ASSUME NEW n \in UpdateNames, Absent(n), updates' = [updates EXCEPT ![n] = Created],
             actor'.pc \notin Recording
      PROVE  Protection'
  BY <1>1, <1>2, <1>3, <1>4, <1>5, UpdateProtection
<1>6. CASE CreateUpdate
  <2> DEFINE n == actor.commit
  <2>1. n \in UpdateNames
    BY <1>6 DEF CreateUpdate, TypeInv, ActorKnows, UpdateNames
  <2>2. actor'.pc \notin Recording
    <3>1. \/ actor' = [actor EXCEPT !.pc = "recordCreated", !.name = n]
          \/ actor' = [actor EXCEPT !.pc = "recreate", !.name = n]
      BY <1>6 DEF CreateUpdate
    <3> QED
      BY <3>1 DEF TypeInv, TypeOK, ActorObject, Recording
  <2>3. CASE Absent(n)
    <3>1. updates' = [updates EXCEPT ![n] = Created]
      BY <1>6, <2>3 DEF CreateUpdate, Absent, Completed
    <3> QED
      BY <1>5, <2>1, <2>2, <2>3, <3>1
  <2>4. CASE InFlight(n)
    <3>1. UNCHANGED updates
      BY <1>6, <2>4 DEF CreateUpdate, InFlight, Absent, Completed
    <3> QED
      BY <1>1, <1>2, <2>2, <3>1, QuietProtection
  <2>5. CASE Completed(n)
    <3>1. PICK patched, deleted \in BOOLEAN :
             LET u == IF patched THEN Stripped(updates[n]) ELSE updates[n] IN
             updates' = [updates EXCEPT ![n] = IF deleted THEN Deleted(u) ELSE u]
      BY <1>6, <2>5 DEF CreateUpdate, InFlight, Absent, Completed
    <3> DEFINE stripped == IF patched THEN Stripped(updates[n]) ELSE updates[n]
               u == IF deleted THEN Deleted(stripped) ELSE stripped
    <3>2. updates' = [updates EXCEPT ![n] = u]
      BY <3>1
    <3>3. u \in UpdateObject
      BY <2>1, UpdateTypes DEF TypeInv, TypeOK
    <3>4. u.phase \in {"succeeded", "failed", "gone"}
      BY <2>1, <2>5 DEF Completed, Deleted, Stripped, Gone, TypeInv, TypeOK, UpdateObject
    <3>5. exec[n].pc # "start" /\ ~Working(n)
      BY <1>1, <2>1, <2>5 DEF Protection, StartedIsNew, WorkedIsRunning, Completed, Absent
    <3> HIDE DEF u
    <3> QED
      BY <1>1, <1>2, <2>1, <2>2, <3>2, <3>3, <3>4, <3>5, UpdateProtection
  <2> QED
    BY <1>6, <2>3, <2>4, <2>5 DEF CreateUpdate
<1>7. CASE RecreateUpdate
  <2>1. actor.name \in UpdateNames
    BY <1>7 DEF RecreateUpdate, TypeInv, ActorKnows, UpdateNames
  <2>2. actor'.pc \notin Recording
    BY <1>7 DEF RecreateUpdate, Finish, Idle, Goto, TypeInv, TypeOK, ActorObject, Recording
  <2>3. CASE Absent(actor.name)
    BY <1>5, <1>7, <2>1, <2>2, <2>3 DEF RecreateUpdate
  <2>4. CASE ~Absent(actor.name)
    BY <1>1, <1>2, <1>7, <2>2, <2>4, QuietProtection DEF RecreateUpdate
  <2> QED
    BY <2>3, <2>4
<1>8. CASE CreateDestroy
  <2>1. PICK n \in FreshNames :
          /\ updates' = [updates EXCEPT ![n] = Created]
          /\ actor' = [actor EXCEPT !.pc = "recordCreated", !.name = n]
    BY <1>8 DEF CreateDestroy
  <2>2. actor'.pc \notin Recording
    BY <2>1 DEF TypeInv, TypeOK, ActorObject, Recording
  <2>3. n \in UpdateNames /\ Absent(n)
    BY DEF FreshNames, UpdateNames, Absent
  <2> QED
    BY <1>5, <2>1, <2>2, <2>3
<1> QED
  BY <1>6, <1>7, <1>8

LEMMA RecordProtection ==
    ASSUME Inv,
           RecordCreated \/ RecordSucceeded \/ RecordFailed \/ FinishUpdate \/ RecordDestroyFailed
    PROVE  Protection'
<1> USE DEF Inv
<1>1. CASE RecordCreated
  <2>1. stack'.present = stack.present /\ stack'.finalizer = stack.finalizer
    BY <1>1, StatusPatch DEF RecordCreated, TypeInv
  <2> QED
    BY <1>1, <2>1, PipelineProtection DEF RecordCreated, Finish, Idle, Recording, executorVars
<1>2. CASE RecordSucceeded \/ RecordFailed
  <2>1. stack'.present = stack.present /\ stack'.finalizer = stack.finalizer
    BY <1>2, StatusPatch DEF RecordSucceeded, RecordFailed, TypeInv
  <2>2. actor'.name = actor.name /\ actor.pc \in Recording
    BY <1>2 DEF RecordSucceeded, RecordFailed, Goto, Recording, TypeInv, TypeOK, ActorObject
  <2>3. ~InFlight(actor.name)
    BY <2>2 DEF Protection, RecordedIsOver
  <2> QED
    BY <1>2, <2>1, <2>2, <2>3, PipelineProtection
    DEF RecordSucceeded, RecordFailed, executorVars, Recording
<1>3. CASE RecordDestroyFailed
  <2>1. stack'.present = stack.present /\ stack'.finalizer = stack.finalizer
    BY <1>3, StatusPatch DEF RecordDestroyFailed, TypeInv
  <2> QED
    BY <1>3, <2>1, PipelineProtection
    DEF RecordDestroyFailed, Finish, Idle, Recording, executorVars
<1>4. CASE FinishUpdate
  <2> DEFINE n == actor.name
             u == Stripped(updates[n])
  <2>1. n \in UpdateNames /\ ~InFlight(n)
    BY <1>4 DEF FinishUpdate, TypeInv, ActorKnows, Recording, Protection, RecordedIsOver
  <2>2. /\ stack.finalizer /\ stack.present
        /\ UNCHANGED <<stack, exec>> /\ actor' = Idle
    BY <1>4 DEF FinishUpdate, Finish, executorVars, Protection, PipelineHoldsFinalizer,
       FinalizerNeedsStack
  <2>3. actor'.pc \notin Recording /\ actor'.pc = "idle"
    BY <2>2 DEF Idle, Recording
  <2>4. CASE UNCHANGED updates
    BY <2>2, <2>3, <2>4, QuietProtection
  <2>5. CASE updates' = [updates EXCEPT ![n] = u]
    <3>1. u \in UpdateObject
      BY <2>1, UpdateTypes DEF TypeInv, TypeOK
    <3>2. u.phase \in {updates[n].phase, "gone"}
      BY <2>1 DEF Stripped, Gone, TypeInv, TypeOK, UpdateObject
    <3>3. u.phase \notin {"new", "progressing"}
      BY <2>1, <3>2 DEF InFlight
    <3>4. exec[n].pc = "start" => u.phase \in {"new", "unused", "gone"}
      BY <2>1, <3>2 DEF Protection, StartedIsNew
    <3>5. ~Working(n)
      BY <2>1, <2>2 DEF Protection, WorkedIsRunning, InFlight, Absent
    <3> HIDE DEF u
    <3> QED
      BY <2>1, <2>2, <2>3, <2>5, <3>1, <3>3, <3>4, <3>5, UpdateProtection
  <2> QED
    BY <1>4, <2>1, <2>4, <2>5 DEF FinishUpdate, TypeInv, TypeOK
<1> QED
  BY <1>1, <1>2, <1>3, <1>4

LEMMA ExecutorProtection ==
    ASSUME Inv, NEW n \in UpdateNames, WatchUpdate(n) \/ ExecutorStep(n)
    PROVE  Protection'
<1> USE DEF Inv
<1> DEFINE Tasks == StartedIsNew /\ WorkedIsRunning
<1>1. UNCHANGED <<stack, actor>>
  BY DEF WatchUpdate, ExecutorStep, ExecStart, ExecConfig, ExecStream, ExecReport, ExecNotify,
     ActorUnchanged, worldVars
<1>2. \A m \in UpdateNames : m # n => updates'[m] = updates[m] /\ exec'[m] = exec[m]
  BY DEF WatchUpdate, ExecutorStep, ExecStart, ExecConfig, ExecStream, ExecReport, ExecNotify,
     PatchPhase, TypeInv, TypeOK
<1>3. /\ updates'[n].finalizer = updates[n].finalizer
      /\ InFlight(n)' => InFlight(n)
      /\ exec'[n].pc = "start" => updates'[n].phase \in {"new", "unused", "gone"}
      /\ exec'[n].pc \in {"config", "streaming", "report"} =>
            updates'[n].phase = "progressing"
            \/ (updates'[n].phase \in {"unused", "gone"} /\ ~stack.present)
  <2>1. CASE WatchUpdate(n)
    <3>1. UNCHANGED updates
      BY <2>1 DEF WatchUpdate
    <3>2. \/ exec' = exec
          \/ updates[n].phase = "new" /\ exec'[n].pc = "start"
      BY <2>1 DEF WatchUpdate, NeedsExecution, TypeInv, TypeOK, Executor
    <3> QED
      BY <3>1, <3>2
      DEF Protection, StartedIsNew, WorkedIsRunning, Working, InFlight, Absent
  <2>2. CASE ExecStart(n)
    <3>1. updates[n].phase \in {"new", "unused", "gone"}
      BY <2>2 DEF ExecStart, Protection, StartedIsNew
    <3>2. CASE updates'[n].phase = "progressing" /\ updates[n].phase = "new"
               /\ exec'[n].pc = "config" /\ updates'[n].finalizer = updates[n].finalizer
      BY <3>2 DEF InFlight
    <3>3. CASE updates' = updates /\ exec'[n].pc = "none"
      BY <3>3 DEF InFlight
    <3> QED
      BY <2>2, <3>1, <3>2, <3>3
      DEF ExecStart, PatchPhase, Absent, NoExec, TypeInv, TypeOK, UpdateObject, Executor
  <2>3. CASE ExecConfig(n)
    <3>1. exec[n].pc = "config" /\ exec'[n].pc = "streaming" /\ updates' = updates
      BY <2>3 DEF ExecConfig, TypeInv, TypeOK, Executor
    <3> QED
      BY <3>1 DEF Protection, WorkedIsRunning, Working, InFlight, Absent
  <2>4. CASE ExecStream(n)
    <3>1. exec[n].pc = "streaming" /\ exec'[n].pc = "report" /\ updates' = updates
      BY <2>4 DEF ExecStream, Streaming, TypeInv, TypeOK, Executor
    <3> QED
      BY <3>1 DEF Protection, WorkedIsRunning, Working, InFlight, Absent
  <2>5. CASE ExecReport(n)
    <3>1. exec'[n].pc = "notify" /\ exec[n].result \in {"succeeded", "failed"}
      BY <2>5 DEF ExecReport, TypeInv, TypeOK, Executor
    <3>2. /\ updates'[n].finalizer = updates[n].finalizer
          /\ updates'[n].phase \in {updates[n].phase, exec[n].result}
      BY <2>5 DEF ExecReport, PatchPhase, TypeInv, TypeOK, UpdateObject
    <3> QED
      BY <3>1, <3>2 DEF InFlight
  <2>6. CASE ExecNotify(n)
    <3>1. exec'[n].pc = "none" /\ updates' = updates
      BY <2>6 DEF ExecNotify, NoExec, TypeInv, TypeOK
    <3> QED
      BY <3>1 DEF InFlight
  <2> QED
    BY <2>1, <2>2, <2>3, <2>4, <2>5, <2>6 DEF ExecutorStep
<1>4. FinalizerNeedsStack' /\ PipelineHoldsFinalizer'
  BY <1>1 DEF Protection, FinalizerNeedsStack, PipelineHoldsFinalizer
<1>5. \A m \in UpdateNames : InFlight(m)' => InFlight(m) /\ updates'[m].finalizer = updates[m].finalizer
  BY <1>2, <1>3 DEF InFlight
<1>6. InFlightProtected'
  BY <1>1, <1>5 DEF Protection, InFlightProtected, InFlight
<1>7. RecordedIsOver'
  BY <1>1, <1>5 DEF Protection, RecordedIsOver, TypeInv, ActorKnows, Recording
<1>8. StartedIsNew'
  BY <1>2, <1>3 DEF Protection, StartedIsNew
<1>9. WorkedIsRunning'
  BY <1>1, <1>2, <1>3 DEF Protection, WorkedIsRunning, Working, Absent
<1> QED
  BY <1>4, <1>6, <1>7, <1>8, <1>9 DEF Protection

LEMMA SurroundingsProtection ==
    ASSUME Inv, User \/ Cluster \/ Crash
    PROVE  Protection'
<1> USE DEF Inv
<1>1. CASE User
  <2>1. UNCHANGED <<updates, exec, actor>> /\ stack'.present = stack.present
        /\ stack'.finalizer = stack.finalizer
    BY <1>1 DEF User, EditSpec, AdvanceSource, DeleteStack, OperatorUnchanged, executorVars,
       worldVars, TypeInv, TypeOK, StackObject
  <2> QED
    BY <2>1, QuietProtection
    DEF Protection, FinalizerNeedsStack, PipelineHoldsFinalizer, RecordedIsOver
<1>2. CASE CooldownElapses \/ DebounceElapses \/ PodReady \/ CollectWorkspace
  <2>1. UNCHANGED <<updates, exec, actor, stack>>
    BY <1>2 DEF CooldownElapses, DebounceElapses, PodReady, CollectWorkspace,
       OperatorUnchanged, executorVars, worldVars
  <2> QED
    BY <2>1, QuietProtection
    DEF Protection, FinalizerNeedsStack, PipelineHoldsFinalizer, RecordedIsOver
<1>3. CASE StackGone
  <2>1. UNCHANGED <<updates, exec, actor>> /\ ~stack.finalizer
    BY <1>3 DEF StackGone, OperatorUnchanged, executorVars
  <2>2. ~stack'.present /\ ~stack'.finalizer
    BY <1>3, <2>1 DEF StackGone, TypeInv, TypeOK, StackObject
  <2> QED
    BY <2>1, <2>2, QuietProtection DEF Protection, PipelineHoldsFinalizer, RecordedIsOver
<1>4. ASSUME NEW n \in UpdateNames, CollectUpdate(n) PROVE Protection'
  <2> DEFINE u == Deleted(updates[n])
  <2>1. /\ UNCHANGED <<stack, exec, actor>>
        /\ updates' = [updates EXCEPT ![n] = u]
    BY <1>4 DEF CollectUpdate, OperatorUnchanged, executorVars, TypeInv, TypeOK
  <2>2. u \in UpdateObject
    BY UpdateTypes DEF TypeInv, TypeOK
  <2>3. /\ u.phase \in {updates[n].phase, "gone"}
        /\ u.phase # "gone" => u.finalizer = updates[n].finalizer
        /\ updates[n].finalizer => u.phase = updates[n].phase
    BY DEF Deleted, Gone, TypeInv, TypeOK, UpdateObject
  <2>4. /\ u.phase \in {"new", "progressing"} => u.finalizer \/ ~stack.present
        /\ exec[n].pc = "start" => u.phase \in {"new", "unused", "gone"}
        /\ Working(n) =>
              u.phase = "progressing" \/ (u.phase \in {"unused", "gone"} /\ ~stack.present)
    BY <2>3 DEF Protection, InFlightProtected, InFlight, StartedIsNew, WorkedIsRunning, Absent
  <2>5. actor'.pc \in Recording =>
           actor'.name \in UpdateNames /\ updates'[actor'.name].phase \notin {"new", "progressing"}
    BY <2>1, <2>2, <2>3 DEF Protection, RecordedIsOver, InFlight, TypeInv, TypeOK, ActorKnows, Recording
  <2>6. actor'.pc \notin {"idle", "addFinalizer"} => stack.finalizer
    BY <2>1 DEF Protection, PipelineHoldsFinalizer
  <2> HIDE DEF u
  <2> QED
    BY <2>1, <2>2, <2>4, <2>5, <2>6, UpdateProtection
<1>5. CASE Crash
  <2>1. UNCHANGED <<updates, stack>> /\ actor'.pc = "idle"
        /\ \A n \in UpdateNames : exec'[n].pc = "none"
    BY <1>5 DEF Crash, Idle, NoExec
  <2> QED
    BY <2>1 DEF Protection, FinalizerNeedsStack, PipelineHoldsFinalizer, InFlightProtected,
       InFlight, RecordedIsOver, Recording, StartedIsNew, WorkedIsRunning, Working, Absent
<1> QED
  BY <1>1, <1>2, <1>3, <1>4, <1>5 DEF Cluster

LEMMA InvStep == Inv /\ [Next]_vars => Inv'
<1> SUFFICES ASSUME Inv, [Next]_vars PROVE Protection'
  BY TypeStep DEF Inv
<1>1. CASE Actor
  BY <1>1, FinalizerProtection, TriggerProtection, CheckProtection, CreationProtection,
     RecordProtection DEF Actor
<1>2. CASE User \/ Cluster \/ Crash
  BY <1>2, SurroundingsProtection
<1>3. CASE \E n \in UpdateNames : WatchUpdate(n) \/ ExecutorStep(n)
  BY <1>3, ExecutorProtection
<1>4. CASE UNCHANGED vars
  BY <1>4, QuietProtection DEF vars, Inv, Protection, FinalizerNeedsStack,
     PipelineHoldsFinalizer, RecordedIsOver
<1> QED
  BY <1>1, <1>2, <1>3, <1>4 DEF Next

LEMMA InvHolds == Spec => []Inv
<1>1. Init => Inv
  BY InitTypes, InitProtection DEF Inv
<1> QED
  BY <1>1, InvStep, PTL DEF Spec

\* No Update is lost while it is in flight and its Stack exists, whatever is deleted,
\* fails or restarts: only the actor of the Stack takes the finalizer off, after a check
\* that found the Update completed or missing, and nobody else removes that of the Stack.
THEOREM Protected == Spec => []InFlightProtected
<1>1. Inv => InFlightProtected
  BY DEF Inv, Protection
<1> QED
  BY <1>1, InvHolds, PTL

-------------------------------------------------------------------------------
(* StackLifecycle implements UpdateContract *)

\* The state and the tasks of the contract.
Mapped   == [n \in UpdateNames |-> ContractState(n)]
WorkedOn == {n \in UpdateNames : Working(n)}
ContractStep == Contract!Next \/ UNCHANGED <<Mapped, WorkedOn>>

LEMMA InitRefines == Init => Contract!Init
BY DEF Init, Contract!Init, ContractState, Absent, Working, NoExec

LEMMA QuietRefines ==
    ASSUME UNCHANGED <<updates, exec>>
    PROVE  ContractStep
BY DEF ContractStep, Mapped, WorkedOn, ContractState, Absent, Working

\* Updates disappear.
LEMMA RemovalRefines ==
    ASSUME exec' = exec,
           \A n \in UpdateNames : updates'[n].phase \in {updates[n].phase, "gone"}
    PROVE  ContractStep
<1> DEFINE S == {n \in UpdateNames : updates'[n].phase = "gone"}
<1>1. WorkedOn' = WorkedOn
  BY DEF WorkedOn, Working
<1>2. Mapped' = [n \in UpdateNames |-> IF n \in S THEN "none" ELSE Mapped[n]]
  BY DEF Mapped, ContractState, Absent
<1>3. CASE S = {}
  BY <1>1, <1>2, <1>3 DEF ContractStep, Mapped
<1>4. CASE S # {}
  <2>1. S \in SUBSET UpdateNames
    OBVIOUS
  <2>2. Contract!Remove(S)
    BY <1>1, <1>2, <1>4 DEF Contract!Remove, Mapped, WorkedOn
  <2> QED
    BY <2>1, <2>2 DEF ContractStep, Contract!Next
<1> QED
  BY <1>3, <1>4

\* An Update is created.
LEMMA CreationRefines ==
    ASSUME Inv, NEW n \in UpdateNames, Absent(n), stack.present,
           exec' = exec, updates' = [updates EXCEPT ![n] = Created]
    PROVE  ContractStep
<1>1. ~Working(n)
  BY DEF Inv, Protection, WorkedIsRunning, Absent
<1>2. Mapped[n] = "none" /\ n \notin WorkedOn
  BY <1>1 DEF Mapped, ContractState, Absent, WorkedOn
<1>3. \A m \in UpdateNames : updates'[m].phase = IF m = n THEN "new" ELSE updates[m].phase
  BY DEF Inv, TypeInv, TypeOK, Created
<1>4. Mapped' = [Mapped EXCEPT ![n] = "created"]
  <2>1. \A m \in UpdateNames : ContractState(m)' = IF m = n THEN "created" ELSE ContractState(m)
    BY <1>3 DEF ContractState, Absent
  <2> QED
    BY <2>1 DEF Mapped
<1>5. WorkedOn' = WorkedOn
  BY DEF WorkedOn, Working
<1>6. Contract!Create(n)
  BY <1>2, <1>4, <1>5 DEF Contract!Create, Mapped, WorkedOn
<1> QED
  BY <1>6 DEF ContractStep, Contract!Next

LEMMA ActorRefines ==
    ASSUME Inv, Actor
    PROVE  ContractStep
<1> USE DEF Inv
<1>1. CASE Debounced \/ StepFails \/ AddFinalizer \/ RemoveFinalizer
  BY <1>1, QuietRefines DEF Debounced, StepFails, AddFinalizer, RemoveFinalizer, executorVars
<1>2. ASSUME NEW trigger \in Triggers, Reconcile(trigger) \/ GetFails(trigger) PROVE ContractStep
  BY <1>2, QuietRefines DEF Reconcile, GetFails, executorVars
<1>3. ASSUME NEW trigger \in Triggers, CleanupOrphans(trigger) PROVE ContractStep
  <2>1. exec' = exec
    BY <1>3 DEF CleanupOrphans, executorVars
  <2>2. \A n \in UpdateNames : updates'[n].phase \in {updates[n].phase, "gone"}
    BY <1>3 DEF CleanupOrphans, Stripped, Gone, TypeInv, TypeOK, UpdateObject
  <2> QED
    BY <2>1, <2>2, RemovalRefines
<1>4. CASE CheckUpdate \/ DestroyGate \/ ResolveSource \/ EnsureWorkspace
  BY <1>4, QuietRefines DEF CheckUpdate, DestroyGate, ResolveSource, EnsureWorkspace, executorVars
<1>5. CASE CreateUpdate
  <2> DEFINE n == actor.commit
  <2>1. n \in UpdateNames
    BY <1>5 DEF CreateUpdate, TypeInv, ActorKnows, UpdateNames
  <2>2. stack.present /\ exec' = exec
    BY <1>5 DEF CreateUpdate, Protection, PipelineHoldsFinalizer, FinalizerNeedsStack, executorVars
  <2>3. CASE Absent(n)
    <3>1. updates' = [updates EXCEPT ![n] = Created]
      BY <1>5, <2>3 DEF CreateUpdate, Absent, Completed
    <3> QED
      BY <2>1, <2>2, <2>3, <3>1, CreationRefines
  <2>4. CASE InFlight(n)
    <3>1. UNCHANGED updates
      BY <1>5, <2>4 DEF CreateUpdate, InFlight, Absent, Completed
    <3> QED
      BY <2>2, <3>1, QuietRefines
  <2>5. CASE Completed(n)
    <3>1. PICK patched, deleted \in BOOLEAN :
             LET u == IF patched THEN Stripped(updates[n]) ELSE updates[n] IN
             updates' = [updates EXCEPT ![n] = IF deleted THEN Deleted(u) ELSE u]
      BY <1>5, <2>5 DEF CreateUpdate, InFlight, Absent, Completed
    <3>2. \A m \in UpdateNames : updates'[m].phase \in {updates[m].phase, "gone"}
      BY <3>1 DEF Deleted, Stripped, Gone, TypeInv, TypeOK, UpdateObject
    <3> QED
      BY <2>2, <3>2, RemovalRefines
  <2> QED
    BY <1>5, <2>3, <2>4, <2>5 DEF CreateUpdate
<1>6. CASE RecreateUpdate
  <2>1. stack.present /\ exec' = exec /\ actor.name \in UpdateNames
    BY <1>6 DEF RecreateUpdate, Protection, PipelineHoldsFinalizer, FinalizerNeedsStack,
       executorVars, TypeInv, ActorKnows, UpdateNames
  <2>2. CASE Absent(actor.name)
    BY <1>6, <2>1, <2>2, CreationRefines DEF RecreateUpdate
  <2>3. CASE ~Absent(actor.name)
    BY <1>6, <2>1, <2>3, QuietRefines DEF RecreateUpdate
  <2> QED
    BY <2>2, <2>3
<1>7. CASE CreateDestroy
  <2>1. PICK n \in FreshNames : updates' = [updates EXCEPT ![n] = Created]
    BY <1>7 DEF CreateDestroy
  <2>2. n \in UpdateNames /\ Absent(n)
    BY DEF FreshNames, UpdateNames, Absent
  <2>3. stack.present /\ exec' = exec
    BY <1>7 DEF CreateDestroy, Protection, PipelineHoldsFinalizer, FinalizerNeedsStack, executorVars
  <2> QED
    BY <2>1, <2>2, <2>3, CreationRefines
<1>8. CASE RecordCreated \/ RecordSucceeded \/ RecordFailed \/ RecordDestroyFailed
  BY <1>8, QuietRefines
  DEF RecordCreated, RecordSucceeded, RecordFailed, RecordDestroyFailed, executorVars
<1>9. CASE FinishUpdate
  <2>1. exec' = exec
    BY <1>9 DEF FinishUpdate, executorVars
  <2>2. \A n \in UpdateNames : updates'[n].phase \in {updates[n].phase, "gone"}
    BY <1>9 DEF FinishUpdate, Stripped, Gone, TypeInv, TypeOK, UpdateObject
  <2> QED
    BY <2>1, <2>2, RemovalRefines
<1> QED
  BY <1>1, <1>2, <1>3, <1>4, <1>5, <1>6, <1>7, <1>8, <1>9 DEF Actor

LEMMA ExecutorRefines ==
    ASSUME Inv, NEW n \in UpdateNames, WatchUpdate(n) \/ ExecutorStep(n)
    PROVE  ContractStep
<1> USE DEF Inv
<1>1. \A m \in UpdateNames : m # n => updates'[m] = updates[m] /\ exec'[m] = exec[m]
  BY DEF WatchUpdate, ExecutorStep, ExecStart, ExecConfig, ExecStream, ExecReport, ExecNotify,
     PatchPhase, TypeInv, TypeOK
<1>2. \A m \in UpdateNames : m # n => Mapped'[m] = Mapped[m] /\ (m \in WorkedOn' <=> m \in WorkedOn)
  BY <1>1 DEF Mapped, ContractState, Absent, WorkedOn, Working
<1>3. /\ Mapped[n] = ContractState(n) /\ Mapped'[n] = ContractState(n)'
      /\ (n \in WorkedOn <=> Working(n)) /\ (n \in WorkedOn' <=> Working(n)')
      /\ DOMAIN Mapped = UpdateNames /\ DOMAIN Mapped' = UpdateNames
      /\ Mapped = [m \in UpdateNames |-> Mapped[m]] /\ Mapped' = [m \in UpdateNames |-> Mapped'[m]]
      /\ WorkedOn \subseteq UpdateNames /\ WorkedOn' \subseteq UpdateNames
  BY DEF Mapped, WorkedOn
<1>4. ASSUME ContractState(n)' = ContractState(n), Working(n)' <=> Working(n)
      PROVE  ContractStep
  <2>1. Mapped' = Mapped /\ WorkedOn' = WorkedOn
    BY <1>2, <1>3, <1>4
  <2> QED
    BY <2>1 DEF ContractStep
<1>5. CASE WatchUpdate(n)
  <2>1. updates' = updates
    BY <1>5 DEF WatchUpdate
  <2>2. \/ exec' = exec
        \/ updates[n].phase = "new" /\ exec'[n].pc = "start"
    BY <1>5 DEF WatchUpdate, NeedsExecution, TypeInv, TypeOK, Executor
  <2>3. Working(n)' <=> Working(n)
    BY <2>2 DEF Working, Protection, WorkedIsRunning, Absent
  <2> QED
    BY <1>4, <2>1, <2>3 DEF ContractState, Absent
<1>6. CASE ExecStart(n)
  <2>1. updates[n].phase \in {"new", "unused", "gone"} /\ ~Working(n)
    BY <1>6 DEF ExecStart, Protection, StartedIsNew, Working
  <2>2. CASE updates'[n].phase = "progressing" /\ updates[n].phase = "new" /\ exec'[n].pc = "config"
    <3>1. ContractState(n) = "created" /\ ContractState(n)' = "running" /\ Working(n)'
      BY <2>2 DEF ContractState, Absent, Working
    <3>2. /\ Mapped' = [Mapped EXCEPT ![n] = "running"]
          /\ WorkedOn' = WorkedOn \cup {n}
      BY <1>2, <1>3, <3>1
    <3>3. Contract!Start(n)
      BY <1>3, <3>1, <3>2 DEF Contract!Start, Mapped, WorkedOn
    <3> QED
      BY <3>3 DEF ContractStep, Contract!Next
  <2>3. CASE updates' = updates /\ exec'[n].pc = "none"
    <3>1. ContractState(n)' = ContractState(n) /\ (Working(n)' <=> Working(n))
      BY <2>1, <2>3 DEF ContractState, Absent, Working
    <3> QED
      BY <1>4, <3>1
  <2> QED
    BY <1>6, <2>1, <2>2, <2>3
    DEF ExecStart, PatchPhase, Absent, NoExec, TypeInv, TypeOK, UpdateObject, Executor
<1>7. CASE ExecConfig(n) \/ ExecStream(n)
  <2>1. /\ exec[n].pc \in {"config", "streaming"} /\ exec'[n].pc \in {"streaming", "report"}
        /\ updates' = updates
    <3>1. CASE ExecConfig(n)
      BY <3>1 DEF ExecConfig, TypeInv, TypeOK, Executor
    <3>2. CASE ExecStream(n)
      BY <3>2 DEF ExecStream, Streaming, TypeInv, TypeOK, Executor
    <3> QED
      BY <1>7, <3>1, <3>2
  <2>2. ContractState(n)' = ContractState(n) /\ (Working(n)' <=> Working(n))
    BY <2>1 DEF ContractState, Absent, Working
  <2> QED
    BY <1>4, <2>2
<1>8. CASE ExecReport(n)
  <2>1. exec[n].pc = "report" /\ exec'[n].pc = "notify" /\ exec[n].result \in {"succeeded", "failed"}
    BY <1>8 DEF ExecReport, TypeInv, TypeOK, Executor
  <2>2. Working(n) /\ ~Working(n)'
    BY <2>1 DEF Working
  <2>3. WorkedOn' = WorkedOn \ {n} /\ n \in WorkedOn
    BY <1>2, <1>3, <2>2
  <2>4. updates[n].phase = "progressing" \/ Absent(n)
    BY <2>2 DEF Protection, WorkedIsRunning
  <2>5. CASE updates' = updates
    <3>1. Mapped' = Mapped
      BY <2>5 DEF Mapped, ContractState, Absent
    <3>2. Contract!Lose({n})
      BY <2>3, <3>1 DEF Contract!Lose, Mapped, WorkedOn
    <3> QED
      BY <3>2 DEF ContractStep, Contract!Next
  <2>6. CASE updates[n].phase = "progressing" /\ updates'[n].phase = exec[n].result
    <3>1. ContractState(n) = "running" /\ ContractState(n)' = "completed"
      BY <2>1, <2>6 DEF ContractState, Absent
    <3>2. Mapped[n] = "running" /\ Mapped' = [Mapped EXCEPT ![n] = "completed"]
      BY <1>2, <1>3, <3>1
    <3>3. Contract!Complete(n)
      BY <1>3, <2>3, <3>2 DEF Contract!Complete, Mapped, WorkedOn
    <3> QED
      BY <3>3 DEF ContractStep, Contract!Next
  <2> QED
    BY <1>8, <2>4, <2>5, <2>6 DEF ExecReport, PatchPhase, TypeInv, TypeOK, UpdateObject
<1>9. CASE ExecNotify(n)
  <2>1. exec[n].pc = "notify" /\ exec'[n].pc = "none" /\ updates' = updates
    BY <1>9 DEF ExecNotify, NoExec, TypeInv, TypeOK
  <2>2. ContractState(n)' = ContractState(n) /\ (Working(n)' <=> Working(n))
    BY <2>1 DEF ContractState, Absent, Working
  <2> QED
    BY <1>4, <2>2
<1> QED
  BY <1>5, <1>6, <1>7, <1>8, <1>9 DEF ExecutorStep

LEMMA SurroundingsRefine ==
    ASSUME Inv, User \/ Cluster \/ Crash
    PROVE  ContractStep
<1> USE DEF Inv
<1>1. CASE User
  BY <1>1, QuietRefines
  DEF User, EditSpec, AdvanceSource, DeleteStack, OperatorUnchanged, executorVars, worldVars
<1>2. CASE CooldownElapses \/ DebounceElapses \/ PodReady \/ CollectWorkspace \/ StackGone
  BY <1>2, QuietRefines
  DEF CooldownElapses, DebounceElapses, PodReady, CollectWorkspace, StackGone, OperatorUnchanged,
      executorVars, worldVars
<1>3. ASSUME NEW n \in UpdateNames, CollectUpdate(n) PROVE ContractStep
  <2>1. exec' = exec
    BY <1>3 DEF CollectUpdate, OperatorUnchanged, executorVars
  <2>2. \A m \in UpdateNames : updates'[m].phase \in {updates[m].phase, "gone"}
    BY <1>3 DEF CollectUpdate, Deleted, Gone, TypeInv, TypeOK, UpdateObject
  <2> QED
    BY <2>1, <2>2, RemovalRefines
<1>4. CASE Crash
  <2>1. Mapped' = Mapped
    BY <1>4 DEF Crash, Mapped, ContractState, Absent
  <2>2. WorkedOn' = {}
    BY <1>4 DEF Crash, WorkedOn, Working, NoExec
  <2>3. CASE WorkedOn = {}
    BY <2>1, <2>2, <2>3 DEF ContractStep
  <2>4. CASE WorkedOn # {}
    <3>1. WorkedOn \in SUBSET UpdateNames
      BY DEF WorkedOn
    <3>2. Contract!Lose(WorkedOn)
      BY <2>1, <2>2, <2>4 DEF Contract!Lose, Mapped, WorkedOn
    <3> QED
      BY <3>1, <3>2 DEF ContractStep, Contract!Next
  <2> QED
    BY <2>3, <2>4
<1> QED
  BY <1>1, <1>2, <1>3, <1>4 DEF Cluster

LEMMA StepRefines == Inv /\ [Next]_vars => [Contract!Next]_(Contract!vars)
<1> SUFFICES ASSUME Inv, [Next]_vars PROVE ContractStep
  BY DEF ContractStep, Contract!vars, Mapped, WorkedOn
<1>1. CASE Actor
  BY <1>1, ActorRefines
<1>2. CASE User \/ Cluster \/ Crash
  BY <1>2, SurroundingsRefine
<1>3. CASE \E n \in UpdateNames : WatchUpdate(n) \/ ExecutorStep(n)
  BY <1>3, ExecutorRefines
<1>4. CASE UNCHANGED vars
  BY <1>4, QuietRefines DEF vars
<1> QED
  BY <1>1, <1>2, <1>3, <1>4 DEF Next

\* The conditions of the Updates and the executor tasks implement the contract: however
\* calls fail and the operator restarts, an Update is started at most once in its life,
\* a completed one stays completed, and no name is created anew while a task still works
\* under it (run_update_watcher, execute_update, create_update).
THEOREM Implements == Spec => RefinesContract
BY InitRefines, StepRefines, InvHolds, PTL DEF Spec, RefinesContract, Contract!Spec
====
