---------------------------- MODULE StackLifecycle ----------------------------
(***************************************************************************)
(* The life of one Stack: the actor that reconciles it, the update watcher *)
(* and the executor tasks it spawns, and what surrounds them (the          *)
(* Kubernetes API server with its garbage collector, the workspace pod,    *)
(* the Pulumi backend, the user).                                          *)
(*                                                                         *)
(* The actor handles one message at a time, but it awaits API calls        *)
(* between its steps: a value of actor.pc stands between two of them, and  *)
(* every other action may happen there.  Some handlers make several calls, *)
(* each of which may fail, in one step: RemoveFinalizer, EnsureWorkspace,  *)
(* CreateUpdate, FinishUpdate and CleanupOrphans.  What the actor decides, *)
(* it decides on actor.snap, the Stack as it read it.                      *)
(*                                                                         *)
(* Left out: lock conflicts and the lengths of delays (only their order    *)
(* matters here), project verification, prerequisites, Flux sources, the   *)
(* bounded mailbox itself, a periodic resync, the reconcile-request        *)
(* annotation, permanent errors, an executor that panics (AgentOperation   *)
(* has that), and a watch event that is older than the object it is about. *)
(***************************************************************************)
EXTENDS Naturals, FiniteSets

CONSTANTS
    Commits,        \* commits the source can be at; an Up Update is named by one
    DestroyNames,   \* names of destroy Updates, each used at most once
    None,           \* the absent value
    Configs,        \* the Stack specs explored, see Config
    Propagations,   \* how a user deletes: subset of {"background", "foreground"}
    MaxGeneration,  \* bound on spec edits
    MaxFaults,      \* bound on failed API calls
    MaxRunFailures, \* bound on Pulumi operations that fail
    MaxCrashes,     \* bound on operator restarts
    PromptExecutors \* whether a task ends within the half second of RecreateUpdate

UpdateNames == Commits \cup DestroyNames

\* programSource: the source is a Program and the pod template follows it (PROGRAM_URL);
\* otherwise it is the commit of the spec, which the Workspace names, written once.
Config == [destroyOnFinalize : BOOLEAN, preview : BOOLEAN,
           reclaimDelete : BOOLEAN, programSource : BOOLEAN]

ASSUME ConstantsAssumption ==
    /\ None \notin UpdateNames
    /\ Commits \cap DestroyNames = {}
    /\ Commits # {}
    /\ Configs \subseteq Config
    /\ Propagations \subseteq {"background", "foreground"}
    /\ MaxGeneration \in Nat \ {0}
    /\ PromptExecutors \in BOOLEAN
    /\ MaxFaults \in Nat /\ MaxRunFailures \in Nat /\ MaxCrashes \in Nat

VARIABLES
    config,     \* the part of the Stack spec that stays fixed
    source,     \* the artifact revision of the Program
    stack,      \* the Stack object
    updates,    \* the Update objects, by name
    workspace,  \* the Workspace and its pod
    backend,    \* what Pulumi has deployed: of which commit, under which spec
    actor,      \* where the actor is, and what it read
    lastCommit, \* ActorState.last_commit
    wake,       \* a watcher's message waits in the mailbox
    timers,     \* sleeping requeue tasks, by kind
    debounce,   \* next_reconcile_at lies in the future
    cooling,    \* the recorded failure is within its cooldown
    inProgress, \* Manager.update_in_progress
    dirty,      \* Updates with an undelivered watch event
    exec,       \* the executor task of each Update
    faults, runFailures, crashes   \* budget used

executorVars == <<inProgress, exec>>
worldVars    == <<config, source, workspace, backend>>
budgetVars   == <<faults, runFailures, crashes>>
vars == <<config, source, stack, updates, workspace, backend, actor, lastCommit, wake,
          timers, debounce, cooling, inProgress, dirty, exec, faults, runFailures, crashes>>

-------------------------------------------------------------------------------
(* Types *)

Generations == 0 .. MaxGeneration

\* lastUpdate: "commit" is lastSuccessfulCommit or lastAttemptedCommit.
LastUpdate == [state : {"none", "succeeded", "failed"}, type : {"up", "destroy"},
               name : UpdateNames \cup {None}, generation : Generations,
               commit : Commits \cup {None}]
NoLast == [state |-> "none", type |-> "up", name |-> None, generation |-> 0, commit |-> None]

StackObject == [present : BOOLEAN, deleting : BOOLEAN, foreground : BOOLEAN,
                finalizer : BOOLEAN, generation : Generations, commit : Commits,
                current : UpdateNames \cup {None}, last : LastUpdate]

\* The conditions of an Update: "new" has none, "progressing" has Progressing=True.
Phases == {"unused", "gone", "new", "progressing", "succeeded", "failed"}
UpdateObject == [phase : Phases, finalizer : BOOLEAN, deleting : BOOLEAN]

\* "created": the Workspace without its StatefulSet.
WorkspaceObject == [state : {"absent", "created", "starting", "ready"},
                    template : Commits \cup {None}, pod : Commits \cup {None}]
NoWorkspace == [state |-> "absent", template |-> None, pod |-> None]

Deployment == [commit : Commits \cup {None}, generation : Generations]
Nothing == [commit |-> None, generation |-> 0]

ActorSteps == {"idle", "addFinalizer", "removeFinalizer", "removeAfterDestroy", "check",
               "resolve", "gate", "ensure", "create", "recreate", "recordCreated",
               "recordSucceeded", "recordFailed", "recordDestroyFailed",
               "finishSucceeded", "finishFailed"}
ActorObject == [pc : ActorSteps, snap : StackObject, name : UpdateNames \cup {None},
                commit : Commits \cup {None}]
ExecSteps == {"none", "start", "config", "streaming", "report", "notify"}
\* generation: of the spec the configuration came from, 0 for the defaults; pod: the
\* commit in the pod the task is connected to.
Executor == [pc : ExecSteps, generation : Generations, pod : Commits \cup {None},
             result : {"succeeded", "failed"}]
NoExec == [pc |-> "none", generation |-> 0, pod |-> None, result |-> "failed"]

\* The type invariant.
TypeOK ==
    /\ config \in Config
    /\ source \in Commits
    /\ stack \in StackObject
    /\ updates \in [UpdateNames -> UpdateObject]
    /\ workspace \in WorkspaceObject
    /\ backend \in Deployment
    /\ actor \in ActorObject
    /\ lastCommit \in Commits \cup {None}
    /\ wake \in BOOLEAN /\ debounce \in BOOLEAN /\ cooling \in BOOLEAN
    /\ timers \in SUBSET {"soon", "cooldown"}
    /\ inProgress \in SUBSET UpdateNames
    /\ dirty \in SUBSET UpdateNames
    /\ exec \in [UpdateNames -> Executor]
    /\ faults \in Nat /\ runFailures \in Nat /\ crashes \in Nat

-------------------------------------------------------------------------------
(* Helpers *)

Absent(n)     == updates[n].phase \in {"unused", "gone"}
InFlight(n)   == updates[n].phase \in {"new", "progressing"}
Completed(n)  == updates[n].phase \in {"succeeded", "failed"}
Streaming(n)  == exec[n].pc = "streaming"

\* Any API call may fail, MaxFaults times in a run.
Outcome(ok) == /\ ok \/ faults < MaxFaults
               /\ faults' = IF ok THEN faults ELSE faults + 1
               /\ UNCHANGED <<runFailures, crashes>>

\* build_update_with_finalizer: the finalizer is there from the start.
CreatedUnprotected == [phase |-> "new", finalizer |-> FALSE, deleting |-> FALSE]
Created == [phase |-> "new", finalizer |-> TRUE, deleting |-> FALSE]
Gone    == [phase |-> "gone", finalizer |-> FALSE, deleting |-> FALSE]

\* Without a finalizer, an object marked for deletion disappears.
Stripped(u) == IF u.phase \in {"unused", "gone"} THEN u
               ELSE IF u.deleting THEN Gone ELSE [u EXCEPT !.finalizer = FALSE]

\* delete: with a finalizer the object is only marked.
Deleted(u) == IF u.phase \in {"unused", "gone"} THEN u
              ELSE IF u.finalizer THEN [u EXCEPT !.deleting = TRUE] ELSE Gone

\* Merging the status by server-side apply under the one field manager replaces
\* every field that manager owned: what a patch leaves out disappears.
ApplyStatus(ok, current, last) ==
    IF ok /\ stack.present
    THEN /\ stack' = [stack EXCEPT !.current = current, !.last = last]
         /\ wake' = TRUE
    ELSE UNCHANGED <<stack, wake>>

RequeueWithoutTask(kind) == debounce' = TRUE /\ UNCHANGED timers
\* schedule_requeue: a debounce window, and a task that sends Retry at its end.
Requeue(kind) == /\ debounce' = TRUE
                 /\ timers' = timers \cup {kind}
NoRequeue     == UNCHANGED <<debounce, timers>>

Goto(step) == actor' = [actor EXCEPT !.pc = step]
\* A Stack as its user creates it.
Fresh(commit) == [present |-> TRUE, deleting |-> FALSE, foreground |-> FALSE,
                  finalizer |-> FALSE, generation |-> 1, commit |-> commit,
                  current |-> None, last |-> NoLast]

\* Back to the mailbox; what the handler held is dropped.
SomeCommit == CHOOSE commit \in Commits : TRUE
Idle   == [pc |-> "idle", snap |-> Fresh(SomeCommit), name |-> None, commit |-> None]
Finish == actor' = Idle

-------------------------------------------------------------------------------
(* The actor: receiving a message *)

\* A watcher's message, or the Retry of a requeue task.  The cooldown task sleeps as
\* long as the window recorded in lastUpdate, and starts after it.
Triggers == {"event", "soon", "cooldown"}
Dequeue(trigger) ==
    /\ actor.pc = "idle"
    /\ IF trigger = "event" THEN wake ELSE trigger \in timers
    /\ trigger = "cooldown" => ~cooling
    /\ wake' = (wake /\ trigger # "event")

\* The debounce window drops watchers' messages, never a Retry.
Debounced ==
    /\ debounce /\ Dequeue("event")
    /\ UNCHANGED <<worldVars, stack, updates, actor, lastCommit, timers, debounce, cooling,
                   executorVars, dirty, budgetVars>>

Proceed(trigger) ==
    /\ trigger = "event" => ~debounce
    /\ Dequeue(trigger)

\* Whether the end of the Stack takes a destroy Update.
DestroyRequired == config.destroyOnFinalize /\ ~config.preview

FirstStepIgnoringCurrent(s) ==
    IF ~s.finalizer THEN IF s.deleting THEN "idle" ELSE "addFinalizer"
    ELSE IF s.deleting /\ ~DestroyRequired THEN "removeFinalizer"
    ELSE IF s.deleting THEN "gate" ELSE "resolve"

\* Where run_pipeline goes first: stack_finalizer_action, then currentUpdate.
FirstStep(s) ==
    IF ~s.finalizer THEN IF s.deleting THEN "idle" ELSE "addFinalizer"
    ELSE IF s.deleting /\ ~DestroyRequired THEN "removeFinalizer"
    ELSE IF s.current # None THEN "check"
    ELSE IF s.deleting THEN "gate" ELSE "resolve"

Reconcile(trigger) ==
    /\ Proceed(trigger)
    /\ debounce' = FALSE /\ timers' = timers \ {trigger}
    /\ stack.present
    /\ IF FirstStep(stack) = "idle" THEN Finish
       ELSE actor' = [Idle EXCEPT !.pc = FirstStep(stack), !.snap = stack]
    /\ UNCHANGED <<worldVars, stack, updates, lastCommit, cooling, executorVars, dirty, budgetVars>>

\* The Stack is gone: its Updates lose their finalizer, unless the list or a patch fails.
CleanupOrphans(trigger) ==
    /\ Proceed(trigger)
    /\ debounce' = FALSE /\ timers' = timers \ {trigger}
    /\ ~stack.present
    /\ \E cleaned \in SUBSET UpdateNames :
        /\ Outcome(cleaned = UpdateNames)
        /\ updates' = [n \in UpdateNames |->
                          IF n \in cleaned THEN Stripped(updates[n]) ELSE updates[n]]
    /\ dirty' = dirty \cup {n \in UpdateNames : updates'[n] # updates[n]}
    /\ UNCHANGED <<worldVars, stack, actor, lastCommit, cooling, executorVars>>

\* Reading the Stack fails: retry in 5 s.
GetFails(trigger) ==
    /\ Proceed(trigger)
    /\ debounce' = TRUE
    /\ timers' = (timers \ {trigger}) \cup {"soon"}
    /\ Outcome(FALSE)
    /\ UNCHANGED <<worldVars, stack, updates, actor, lastCommit, cooling, executorVars, dirty>>

\* Any error of the pipeline: handle_error schedules a Retry with backoff.
StepFails ==
    /\ actor.pc \in {"check", "resolve", "ensure", "create", "recreate"}
    /\ Outcome(FALSE)
    /\ Requeue("soon")
    /\ Finish
    /\ UNCHANGED <<worldVars, stack, updates, lastCommit, wake, cooling, executorVars, dirty>>

-------------------------------------------------------------------------------
(* The actor: the pipeline *)

AddFinalizer ==
    /\ actor.pc = "addFinalizer"
    /\ \E ok \in BOOLEAN :
        /\ Outcome(ok)
        /\ IF ok /\ stack.present /\ ~stack.deleting   \* none may be added once deleting
           THEN stack' = [stack EXCEPT !.finalizer = TRUE] /\ wake' = TRUE
           ELSE UNCHANGED <<stack, wake>>
    /\ Finish /\ NoRequeue
    /\ UNCHANGED <<worldVars, updates, lastCommit, cooling, executorVars, dirty>>

RemoveStackFinalizer(ok) ==
    IF ok /\ stack.present
    THEN stack' = [stack EXCEPT !.finalizer = FALSE] /\ wake' = TRUE
    ELSE UNCHANGED <<stack, wake>>

\* RemoveFinalizer, and RemoveFinalizerAfterDestroy, which first reclaims the workspace.
RemoveFinalizer ==
    /\ actor.pc \in {"removeFinalizer", "removeAfterDestroy"}
    /\ \E ok, reclaimed \in BOOLEAN :
        /\ Outcome(ok /\ reclaimed)
        /\ RemoveStackFinalizer(ok)
        /\ workspace' = IF actor.pc = "removeAfterDestroy" /\ config.reclaimDelete /\ reclaimed
                        THEN NoWorkspace ELSE workspace
    /\ Finish /\ NoRequeue
    /\ UNCHANGED <<config, source, backend, updates, lastCommit, cooling, executorVars, dirty>>

AfterCheckTakesAnyEnd(phase, deleting) ==
    CASE phase \in {"succeeded", "failed"} -> IF deleting THEN "removeAfterDestroy" ELSE "recordSucceeded"
      [] OTHER -> IF deleting THEN "gate" ELSE "resolve"

\* What the check of currentUpdate leads to; the destroy flow takes any success
\* for that of its destroy.
AfterCheck(phase, deleting) ==
    CASE phase = "succeeded" -> IF deleting THEN "removeAfterDestroy" ELSE "recordSucceeded"
      [] phase = "failed"    -> IF deleting THEN "recordDestroyFailed" ELSE "recordFailed"
      [] OTHER               -> IF deleting THEN "gate" ELSE "resolve"

CheckUpdate ==
    /\ actor.pc = "check"
    /\ LET n == actor.snap.current IN
       IF InFlight(n)
       THEN Finish /\ Requeue("soon")                  \* WaitForUpdate
       ELSE /\ actor' = [actor EXCEPT !.pc = AfterCheck(updates[n].phase, actor.snap.deleting),
                                      !.name = n]
            /\ NoRequeue
    /\ UNCHANGED <<worldVars, stack, updates, lastCommit, wake, cooling, executorVars, dirty, budgetVars>>

\* No destroy in flight: one that failed is repeated after its cooldown only.
DestroyGate ==
    /\ actor.pc = "gate"
    /\ IF actor.snap.last.state = "failed" /\ actor.snap.last.type = "destroy" /\ cooling
       THEN Finish /\ Requeue("soon")
       ELSE Goto("ensure") /\ NoRequeue
    /\ UNCHANGED <<worldVars, stack, updates, lastCommit, wake, cooling, executorVars, dirty, budgetVars>>

IsSynced(s, commit) ==
    /\ s.last.state # "none"
    /\ s.last.generation = s.generation
    /\ s.last.commit = commit
    /\ s.last.state = "failed" => cooling

\* resolve_program reads the Program store, resolve_git the Stack it was given.
Resolved(s) == IF config.programSource THEN source ELSE s.commit

ResolveSource ==
    /\ actor.pc = "resolve"
    /\ LET commit == Resolved(actor.snap) IN
       IF IsSynced(actor.snap, commit)
       THEN Finish
       ELSE actor' = [actor EXCEPT !.pc = "ensure", !.commit = commit]
    /\ NoRequeue
    /\ UNCHANGED <<worldVars, stack, updates, lastCommit, wake, cooling, executorVars, dirty, budgetVars>>

\* A Workspace is built from the spec once.  Applying the StatefulSet again only
\* changes its template for a Program source; one ready replica counts as ready.
EnsureWorkspace ==
    /\ actor.pc = "ensure"
    /\ workspace' =
         IF workspace.state = "absent"
         THEN [state |-> "created", template |-> Resolved(actor.snap), pod |-> None]
         ELSE [workspace EXCEPT !.state = IF @ = "created" THEN "starting" ELSE @,
                                !.template = IF config.programSource THEN source ELSE @]
    /\ IF workspace.state = "ready"
       THEN Goto("create") /\ NoRequeue
       ELSE Finish /\ Requeue("soon")                  \* WaitForWorkspace
    /\ UNCHANGED <<config, source, backend, stack, updates, lastCommit, wake, cooling,
                   executorVars, dirty, budgetVars>>

\* create_update: the name is free, is that of a running Update (reused), or that
\* of a completed one, which loses its finalizer and is deleted.
CreateUpdate ==
    /\ actor.pc = "create" /\ ~actor.snap.deleting
    /\ LET n == actor.commit IN
       \/ /\ Absent(n) \/ InFlight(n)
          /\ updates' = IF Absent(n) THEN [updates EXCEPT ![n] = Created] ELSE updates
          /\ dirty' = IF Absent(n) THEN dirty \cup {n} ELSE dirty
          /\ lastCommit' = actor.commit
          /\ actor' = [actor EXCEPT !.pc = "recordCreated", !.name = n]
          /\ UNCHANGED budgetVars
       \/ /\ Completed(n)
          /\ \E patched, deleted \in BOOLEAN :
              /\ Outcome(patched /\ deleted)
              /\ LET u == IF patched THEN Stripped(updates[n]) ELSE updates[n] IN
                 updates' = [updates EXCEPT ![n] = IF deleted THEN Deleted(u) ELSE u]
          /\ dirty' = dirty \cup {n}
          /\ actor' = [actor EXCEPT !.pc = "recreate", !.name = n]
          /\ UNCHANGED lastCommit
    /\ NoRequeue
    /\ UNCHANGED <<worldVars, stack, wake, cooling, executorVars>>

\* The second create, half a second later.
RecreateUpdate ==
    /\ actor.pc = "recreate"
    /\ PromptExecutors => exec[actor.name].pc # "notify"
    /\ LET n == actor.name IN
       IF Absent(n)
       THEN /\ updates' = [updates EXCEPT ![n] = Created]
            /\ dirty' = dirty \cup {n}
            /\ lastCommit' = actor.commit
            /\ Goto("recordCreated") /\ NoRequeue
       ELSE /\ Finish /\ Requeue("soon")              \* still there: 409
            /\ UNCHANGED <<updates, dirty, lastCommit>>
    /\ UNCHANGED <<worldVars, stack, wake, cooling, executorVars, budgetVars>>

\* create_destroy_update: the name carries the time, so it is a new one.
FreshNames == {n \in DestroyNames : updates[n].phase = "unused"}
CreateDestroy ==
    /\ actor.pc = "create" /\ actor.snap.deleting
    /\ FreshNames # {}
    /\ LET n == CHOOSE fresh \in FreshNames : TRUE IN
        /\ updates' = [updates EXCEPT ![n] = Created]
        /\ dirty' = dirty \cup {n}
        /\ actor' = [actor EXCEPT !.pc = "recordCreated", !.name = n]
    /\ NoRequeue
    /\ UNCHANGED <<worldVars, stack, lastCommit, wake, cooling, executorVars, budgetVars>>

-------------------------------------------------------------------------------
(* The actor: handle_action *)

\* UpdateCreated and DestroyStarted: lastUpdate is not in the patch.
RecordCreated ==
    /\ actor.pc = "recordCreated"
    /\ \E ok \in BOOLEAN : Outcome(ok) /\ ApplyStatus(ok, actor.name, NoLast)
    /\ Finish /\ NoRequeue
    /\ UNCHANGED <<worldVars, updates, lastCommit, cooling, executorVars, dirty>>

RecordOfNow(state, type, commit) ==
    [state |-> state, type |-> type, name |-> actor.name, generation |-> actor.snap.generation,
     commit |-> IF commit = None THEN None ELSE Resolved(stack)]
RecordNextGeneration(state, type, commit) ==
    [state |-> state, type |-> type, name |-> actor.name,
     generation |-> actor.snap.generation + 1, commit |-> commit]

\* The generation recorded is that of the Stack as read, not the Update's.
Record(state, type, commit) ==
    [state |-> state, type |-> type, name |-> actor.name,
     generation |-> actor.snap.generation, commit |-> commit]

RecordSucceeded ==
    /\ actor.pc = "recordSucceeded"
    /\ \E ok \in BOOLEAN :
        Outcome(ok) /\ ApplyStatus(ok, None, Record("succeeded", "up", lastCommit))
    /\ Goto("finishSucceeded") /\ NoRequeue
    /\ UNCHANGED <<worldVars, updates, lastCommit, cooling, executorVars, dirty>>

RecordFailed ==
    /\ actor.pc = "recordFailed"
    /\ \E ok \in BOOLEAN :
        /\ Outcome(ok) /\ ApplyStatus(ok, None, Record("failed", "up", lastCommit))
        /\ cooling' = ((ok /\ stack.present) \/ cooling)
    /\ Goto("finishFailed") /\ NoRequeue
    /\ UNCHANGED <<worldVars, updates, lastCommit, executorVars, dirty>>

FinishUpdateWithoutRetry ==
    /\ actor.pc \in {"finishSucceeded", "finishFailed"}
    /\ \E ok, reclaimed \in BOOLEAN :
        /\ Outcome(ok /\ reclaimed)
        /\ updates' = IF ok THEN [updates EXCEPT ![actor.name] = Stripped(@)] ELSE updates
        /\ workspace' = IF actor.pc = "finishSucceeded" /\ config.reclaimDelete /\ reclaimed
                        THEN NoWorkspace ELSE workspace
    /\ dirty' = IF updates' # updates THEN dirty \cup {actor.name} ELSE dirty
    /\ Finish /\ NoRequeue
    /\ UNCHANGED <<config, source, backend, stack, lastCommit, wake, cooling, executorVars>>

\* remove_update_finalizer, then the workspace if it is reclaimed, then the retry
\* of a failed Update after its cooldown.
FinishUpdate ==
    /\ actor.pc \in {"finishSucceeded", "finishFailed"}
    /\ \E ok, reclaimed \in BOOLEAN :
        /\ Outcome(ok /\ reclaimed)
        /\ updates' = IF ok THEN [updates EXCEPT ![actor.name] = Stripped(@)] ELSE updates
        /\ workspace' = IF actor.pc = "finishSucceeded" /\ config.reclaimDelete /\ reclaimed
                        THEN NoWorkspace ELSE workspace
    /\ dirty' = IF updates' # updates THEN dirty \cup {actor.name} ELSE dirty
    /\ IF actor.pc = "finishSucceeded" THEN NoRequeue ELSE Requeue("cooldown")
    /\ Finish
    /\ UNCHANGED <<config, source, backend, stack, lastCommit, wake, cooling, executorVars>>

RecordDestroyFailed ==
    /\ actor.pc = "recordDestroyFailed"
    /\ \E ok \in BOOLEAN :
        /\ Outcome(ok) /\ ApplyStatus(ok, None, Record("failed", "destroy", None))
        /\ cooling' = ((ok /\ stack.present) \/ cooling)
    /\ Finish /\ Requeue("cooldown")
    /\ UNCHANGED <<worldVars, updates, lastCommit, executorVars, dirty>>

Actor ==
    \/ Debounced \/ StepFails \/ AddFinalizer \/ RemoveFinalizer
    \/ \E trigger \in Triggers :
          Reconcile(trigger) \/ CleanupOrphans(trigger) \/ GetFails(trigger)
    \/ CheckUpdate \/ DestroyGate \/ ResolveSource \/ EnsureWorkspace
    \/ CreateUpdate \/ RecreateUpdate \/ CreateDestroy
    \/ RecordCreated \/ RecordSucceeded \/ RecordFailed \/ FinishUpdate \/ RecordDestroyFailed

-------------------------------------------------------------------------------
(* The update watcher and the executor tasks *)

ActorUnchanged == UNCHANGED <<actor, lastCommit, timers, debounce, cooling>>

NeedsExecutionUntilOver(n) == updates[n].phase \in {"new", "progressing"}
NeedsExecutionAlways(n)    == updates[n].phase \in {"new", "progressing", "succeeded", "failed"}

\* run_update_watcher: an Update without conditions is executed, unless its key is in
\* update_in_progress; one with conditions wakes the actor of its Stack.
NeedsExecution(n) == updates[n].phase = "new"
WatchUpdate(n) ==
    /\ n \in dirty
    /\ dirty' = dirty \ {n}
    /\ IF Absent(n) THEN UNCHANGED <<inProgress, exec, wake>>
       ELSE IF ~NeedsExecution(n) THEN wake' = TRUE /\ UNCHANGED <<inProgress, exec>>
       ELSE IF n \in inProgress THEN UNCHANGED <<inProgress, exec, wake>>
       ELSE /\ inProgress' = inProgress \cup {n}
            /\ exec' = [exec EXCEPT ![n].pc = "start"]
            /\ UNCHANGED wake
    /\ ActorUnchanged
    /\ UNCHANGED <<worldVars, stack, updates, budgetVars>>

\* A patch of an Update's conditions, by name.
PatchPhase(n, ok, phase) ==
    IF ok /\ ~Absent(n)
    THEN updates' = [updates EXCEPT ![n].phase = phase] /\ dirty' = dirty \cup {n}
    ELSE UNCHANGED <<updates, dirty>>

\* Progressing=True, or the task gives up and its key is removed.
ExecStart(n) ==
    /\ exec[n].pc = "start"
    /\ \E ok \in BOOLEAN :
        /\ Outcome(ok)
        /\ PatchPhase(n, ok, "progressing")
        /\ IF ok /\ ~Absent(n)
           THEN exec' = [exec EXCEPT ![n].pc = "config"] /\ UNCHANGED inProgress
           ELSE exec' = [exec EXCEPT ![n] = NoExec] /\ inProgress' = inProgress \ {n}
    /\ ActorUnchanged
    /\ UNCHANGED <<worldVars, stack, wake>>

\* The configuration is read from the Stack as it is now; a failing read means defaults.
ExecConfig(n) ==
    /\ exec[n].pc = "config"
    /\ \E ok \in BOOLEAN :
        /\ Outcome(ok)
        /\ exec' = [exec EXCEPT
             ![n].pc = "streaming",
             ![n].generation = IF ok /\ stack.present THEN stack.generation ELSE 0,
             ![n].pod = workspace.pod]
    /\ ActorUnchanged
    /\ UNCHANGED <<worldVars, stack, updates, wake, inProgress, dirty>>

\* What an operation of the agent does to the backend when it succeeds; one that does
\* not may have deployed a part.
Effect(n) ==
    IF n \in DestroyNames THEN Nothing
    ELSE IF config.preview THEN backend
    ELSE [commit |-> exec[n].pod, generation |-> exec[n].generation]
PartialEffects(n) == IF n \in Commits THEN {backend, Effect(n)} ELSE {backend}

\* The pod is not there, is another one by now, or Pulumi's lock is held.
Broken(n) == \/ workspace.state # "ready" \/ workspace.pod # exec[n].pod
             \/ \E m \in UpdateNames \ {n} : Streaming(m)

\* The stream ends, if by the operation timeout.
ExecStream(n) ==
    /\ Streaming(n)
    /\ \/ /\ ~Broken(n)
          /\ backend' = Effect(n)
          /\ exec' = [exec EXCEPT ![n].pc = "report", ![n].result = "succeeded"]
          /\ UNCHANGED runFailures
       \/ /\ Broken(n) \/ runFailures < MaxRunFailures
          /\ runFailures' = IF Broken(n) THEN runFailures ELSE runFailures + 1
          /\ backend' \in PartialEffects(n)
          /\ exec' = [exec EXCEPT ![n].pc = "report", ![n].result = "failed"]
    /\ ActorUnchanged
    /\ UNCHANGED <<config, source, workspace, stack, updates, wake, inProgress, dirty, faults, crashes>>

\* Complete=True, with Failed=True for a failure; an error of the patch is only logged.
ExecReport(n) ==
    /\ exec[n].pc = "report"
    /\ \E ok \in BOOLEAN : Outcome(ok) /\ PatchPhase(n, ok, exec[n].result)
    /\ exec' = [exec EXCEPT ![n].pc = "notify"]
    /\ ActorUnchanged
    /\ UNCHANGED <<worldVars, stack, wake, inProgress>>

\* UpdateCompleted to the actor, then the key leaves update_in_progress.
ExecNotify(n) ==
    /\ exec[n].pc = "notify"
    /\ wake' = TRUE
    /\ exec' = [exec EXCEPT ![n] = NoExec]
    /\ inProgress' = inProgress \ {n}
    /\ ActorUnchanged
    /\ UNCHANGED <<worldVars, stack, updates, dirty, budgetVars>>

ExecutorStep(n) == ExecStart(n) \/ ExecConfig(n) \/ ExecStream(n) \/ ExecReport(n) \/ ExecNotify(n)

-------------------------------------------------------------------------------
(* The surroundings *)

OperatorUnchanged == UNCHANGED <<actor, lastCommit, timers, debounce, executorVars>>

\* Time passes.
CooldownElapses ==
    /\ cooling /\ cooling' = FALSE
    /\ OperatorUnchanged
    /\ UNCHANGED <<worldVars, stack, updates, wake, dirty, budgetVars>>

DebounceElapses ==
    /\ debounce /\ debounce' = FALSE
    /\ UNCHANGED <<worldVars, stack, updates, actor, lastCommit, wake, timers, cooling,
                   executorVars, dirty, budgetVars>>

\* The pod starts, or is replaced to follow its template.
PodReady ==
    /\ \/ workspace.state = "starting"
       \/ workspace.state = "ready" /\ workspace.pod # workspace.template
    /\ workspace' = [workspace EXCEPT !.state = "ready", !.pod = workspace.template]
    /\ OperatorUnchanged
    /\ UNCHANGED <<config, source, backend, stack, updates, wake, cooling, dirty, budgetVars>>

\* The user edits the spec, and with it, perhaps, the commit it names.
EditSpec(commit) ==
    /\ stack.present /\ ~stack.deleting /\ stack.generation < MaxGeneration
    /\ config.programSource => commit = stack.commit
    /\ stack' = [stack EXCEPT !.generation = @ + 1, !.commit = commit]
    /\ wake' = TRUE
    /\ OperatorUnchanged
    /\ UNCHANGED <<worldVars, updates, cooling, dirty, budgetVars>>

\* A Program changes: the Stacks that reference it are told (trigger_referencing_stacks).
AdvanceSource(commit) ==
    /\ config.programSource
    /\ updates[source].phase # "unused" /\ updates[commit].phase = "unused"   \* bound
    /\ source' = commit
    /\ wake' = TRUE
    /\ OperatorUnchanged
    /\ UNCHANGED <<config, workspace, backend, stack, updates, cooling, dirty, budgetVars>>

DeleteStack(how) ==
    /\ stack.present /\ ~stack.deleting
    /\ stack' = [stack EXCEPT !.deleting = TRUE, !.foreground = (how = "foreground")]
    /\ wake' = TRUE
    /\ OperatorUnchanged
    /\ UNCHANGED <<worldVars, updates, cooling, dirty, budgetVars>>

\* Under foreground deletion dependents go first (both owner references block).
StackGone ==
    /\ stack.present /\ stack.deleting /\ ~stack.finalizer
    /\ stack.foreground => workspace.state = "absent" /\ \A n \in UpdateNames : Absent(n)
    /\ stack' = [stack EXCEPT !.present = FALSE]
    /\ wake' = TRUE
    /\ OperatorUnchanged
    /\ UNCHANGED <<worldVars, updates, cooling, dirty, budgetVars>>

\* The garbage collector, for an owner that is gone or waits for its dependents.
OwnerGoes == ~stack.present \/ (stack.deleting /\ stack.foreground)
CollectUpdate(n) ==
    /\ OwnerGoes
    /\ Deleted(updates[n]) # updates[n]
    /\ updates' = [updates EXCEPT ![n] = Deleted(@)]
    /\ dirty' = dirty \cup {n}
    /\ OperatorUnchanged
    /\ UNCHANGED <<worldVars, stack, wake, cooling, budgetVars>>

CollectWorkspace ==
    /\ OwnerGoes /\ workspace.state # "absent"
    /\ workspace' = NoWorkspace
    /\ OperatorUnchanged
    /\ UNCHANGED <<config, source, backend, stack, updates, wake, cooling, dirty, budgetVars>>

\* The operator restarts: tasks and memory are lost, the watchers list every object.
Crash ==
    /\ crashes < MaxCrashes
    /\ crashes' = crashes + 1
    /\ actor' = Idle /\ lastCommit' = None
    /\ timers' = {} /\ debounce' = FALSE
    /\ wake' = stack.present
    /\ inProgress' = {} /\ exec' = [n \in UpdateNames |-> NoExec]
    /\ dirty' = {n \in UpdateNames : ~Absent(n)}
    /\ backend' \in {backend} \cup UNION {PartialEffects(n) : n \in {m \in UpdateNames : Streaming(m)}}
    /\ UNCHANGED <<config, source, workspace, stack, updates, cooling, faults, runFailures>>

User == \/ \E commit \in Commits : EditSpec(commit) \/ AdvanceSource(commit)
        \/ \E how \in Propagations : DeleteStack(how)
Cluster == \/ CooldownElapses \/ DebounceElapses \/ PodReady \/ StackGone \/ CollectWorkspace
           \/ \E n \in UpdateNames : CollectUpdate(n)

Init ==
    /\ config \in Configs
    /\ source \in Commits
    /\ stack = Fresh(source)
    /\ updates = [n \in UpdateNames |-> [phase |-> "unused", finalizer |-> FALSE, deleting |-> FALSE]]
    /\ workspace = NoWorkspace
    /\ backend = Nothing
    /\ actor = Idle
    /\ lastCommit = None
    /\ wake = TRUE
    /\ timers = {} /\ debounce = FALSE /\ cooling = FALSE
    /\ inProgress = {} /\ dirty = {}
    /\ exec = [n \in UpdateNames |-> NoExec]
    /\ faults = 0 /\ runFailures = 0 /\ crashes = 0

Next == \/ Actor \/ User \/ Cluster \/ Crash
        \/ \E n \in UpdateNames : WatchUpdate(n) \/ ExecutorStep(n)

Spec == Init /\ [][Next]_vars

\* The executor's timeout ends every stream; tasks, watchers and timers of the runtime
\* and the controllers of the cluster keep going.  Users, failures and restarts need
\* not happen.
FairSpec ==
    /\ Spec
    /\ WF_vars(Actor) /\ WF_vars(Reconcile("cooldown"))
    /\ \A n \in UpdateNames : /\ WF_vars(WatchUpdate(n)) /\ WF_vars(ExecutorStep(n))
                              /\ WF_vars(CollectUpdate(n))
    /\ WF_vars(CooldownElapses) /\ WF_vars(DebounceElapses) /\ WF_vars(PodReady)
    /\ WF_vars(StackGone) /\ WF_vars(CollectWorkspace)

-------------------------------------------------------------------------------
(* Properties *)

\* The contract of UpdateContract, with the conditions of the objects for its states
\* and the executor tasks for its tasks.
Working(n) == exec[n].pc \in {"config", "streaming", "report"}
ContractState(n) ==
    CASE Absent(n) -> "none"
      [] updates[n].phase = "new" -> "created"
      [] updates[n].phase = "progressing" -> "running"
      [] OTHER -> "completed"
Contract == INSTANCE UpdateContract
              WITH Updates <- UpdateNames,
                   state   <- [n \in UpdateNames |-> ContractState(n)],
                   working <- {n \in UpdateNames : Working(n)}
\* Across failed calls and restarts, an Update is executed at most once and a completed
\* one is never executed again (run_update_watcher, execute_update, create_update).
RefinesContract == Contract!Spec

Undisturbed == faults = 0 /\ crashes = 0

\* The Stack has one Update in flight, and it is the one recorded, or about to be
\* recorded, in currentUpdate (run_pipeline checks currentUpdate before it creates).
OneInFlight ==
    Undisturbed /\ stack.present =>
        \A n \in UpdateNames : InFlight(n) =>
            stack.current = n \/ (actor.pc = "recordCreated" /\ actor.name = n)

\* Each Update in flight that nothing tells of was left by a failed call or a restart of its
\* own: a status patch that did not arrive leaves one behind, and no more
\* (handle_action only logs the error).
Unrecorded ==
    {n \in UpdateNames : InFlight(n) /\ stack.current # n
                         /\ ~(actor.pc = "recordCreated" /\ actor.name = n)}
UnrecordedCostFailures == stack.present => Cardinality(Unrecorded) <= faults + crashes

\* When a destroy Update is the last word, or a required one was never made, the finalizer is
\* gone only if nothing is deployed and nothing runs that could deploy (handle_destroy): a
\* required destroy is skipped only where currentUpdate names an Up.
DestroyedBeforeRemoval ==
    /\ Undisturbed /\ stack.deleting /\ ~stack.finalizer
    /\ stack.current \in DestroyNames \/ (DestroyRequired /\ stack.current = None)
    => backend = Nothing /\ \A n \in UpdateNames : ~Streaming(n)

\* A running Update keeps its finalizer as long as its Stack exists.
InFlightProtected ==
    stack.present => \A n \in UpdateNames : InFlight(n) => updates[n].finalizer

\* The commit recorded for an Update is the one it was created for, or unknown after
\* a restart (last_commit is set on creation and read when the Update completed).
RecordedCommit ==
    stack.last.name \in Commits => stack.last.commit \in {None, stack.last.name}

\* The actor never reclaims the workspace under a running operation (handle_action
\* deletes it after the Update it was kept for).
ReclaimedWhenIdle ==
    [][(workspace.state # "absent" /\ workspace'.state = "absent" /\ ~OwnerGoes /\ Undisturbed)
        => \A n \in UpdateNames : ~Streaming(n)]_vars

\* A destroy that was required has happened when the finalizer is gone.
RequiredDestroyHappened ==
    stack.deleting /\ ~stack.finalizer /\ DestroyRequired => backend = Nothing

\* What lastUpdate says succeeded for a generation ran with that generation's spec.
SucceededGenerationApplied ==
    stack.last.state = "succeeded" /\ ~config.preview /\ ~stack.deleting
        => backend.generation >= stack.last.generation

\* A Stack that is deleted goes away.
DeletionCompletes == stack.deleting ~> ~stack.present

\* Every Update the actor waits for, or is about to, has its configuration still to be read.
ConfigurationUnread ==
    \A n \in UpdateNames :
       InFlight(n) \/ stack.current = n \/ (actor.pc = "recordCreated" /\ actor.name = n)
          => updates[n].phase = "new" \/ exec[n].pc \in {"start", "config"}

\* Each generation of the spec, or a later one, is what Pulumi deployed in the end, and an
\* Update succeeded, unless the Stack is deleted (is_synced, the retries of handle_action).
\* Excepted is an edit that comes after the running Update has read its configuration and
\* before its result is recorded: that Update is recorded as its, see
\* SucceededGenerationApplied.
Converges ==
    \A g \in 1 .. MaxGeneration :
       (/\ stack.present /\ ~stack.deleting /\ ~config.preview
        /\ stack.generation = g /\ stack.last.generation # g
        /\ ConfigurationUnread)
          ~> (\/ stack.deleting
              \/ backend.generation >= g /\ stack.last.state = "succeeded")
================================================================================
