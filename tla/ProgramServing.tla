---------------------------- MODULE ProgramServing ----------------------------
(***************************************************************************)
(* Programs: the watcher loop that builds a Program's artifact, serves it  *)
(* from memory and publishes its URL in the status, the finalizer that     *)
(* protects a Program Stacks refer to, and what a Stack's reconcile and    *)
(* its workspace pod make of that URL.                                     *)
(*                                                                         *)
(* One Program, to which every Stack of the model refers with              *)
(* destroyOnFinalize.  An Update is one step, which runs the archive of a  *)
(* pod: StackLifecycle is the account of the rest of it.                   *)
(***************************************************************************)
EXTENDS Integers, Sequences

CONSTANTS
    Stacks,
    MaxGeneration,   \* bound: generations of the Program's spec
    MaxFaults,       \* bound: calls that fail, pods that are evicted
    MaxRestarts      \* bound: restarts of the operator

ASSUME ConstantsAssumption ==
    /\ MaxGeneration \in Nat \ {0} /\ MaxFaults \in Nat /\ MaxRestarts \in Nat

VARIABLES
    program,    \* the object in the cluster
    events,     \* of the Program's watch, in order: the object as each found it
    view,       \* the Program store
    task,       \* the call the watcher loop is at
    served,     \* artifacts of the file server, by their generation
    stack,      \* "none", "live", "deleting", "gone"
    store,      \* the Stack store
    wake,       \* whether a message or a retry waits for the Stack's actor
    actor,      \* where the actor's reconcile is, and the commit it resolved
    template,   \* the StatefulSet's pod template: the URL it names
    pod,        \* the generation the running pod fetched
    synced,     \* lastSuccessfulCommit
    deployed,   \* history: the archive that its last Update ran, 0 if there was none
    faults, restarts,
    mishaps     \* history, see Mishap

vars == <<program, events, view, task, served, stack, store, wake, actor, template, pod,
          synced, deployed, faults, restarts, mishaps>>
loop   == <<view, task, served>>
stacks == <<stack, store, wake, actor, template, pod, synced, deployed>>

\* Deletion is one more generation.
Generation == 1 .. MaxGeneration + 1

\* artifact is the revision of the published artifact, 0 if there is none.
Program == [state : {"absent", "present", "deleting"}, generation : {0} \cup Generation,
            finalizer : BOOLEAN, artifact : {0} \cup Generation]
NoProgram == [state |-> "absent", generation |-> 0, finalizer |-> FALSE, artifact |-> 0]

Task   == [call : {"none", "add", "remove", "publish"}, generation : {0} \cup Generation]
NoTask == [call |-> "none", generation |-> 0]

Actor == [at : {"idle", "resolved", "protected", "destroying"},
          commit : {0} \cup Generation]
Idle  == [at |-> "idle", commit |-> 0]

\* Of a pod template only the URL matters that its fetch container is given: a generation
\* or NoUrl.  Without a StatefulSet it is Bare, without a Workspace Nothing.  A pod is
\* known by the URL it has fetched from, or Absent.
NoUrl    == 0
Bare     == -1
Nothing  == -2
Absent   == -1
Template == {Nothing, Bare, NoUrl} \cup Generation

\* What may go wrong with a Program: its removal was decided without a Stack that refers
\* to it, a patch failed with nothing scheduled, the operator restarted, and did so with
\* the Program's deletion under way; an Update succeeded on an archive older than the
\* commit it is recorded for.
Mishap == {"uncounted", "missed", "restart", "blocked", "early"}

\* The type invariant.
TypeOK ==
    /\ program \in Program /\ view \in Program
    /\ events \in Seq(Program)
    /\ task \in Task
    /\ served \subseteq Generation
    /\ stack \in [Stacks -> {"none", "live", "deleting", "gone"}]
    /\ store \subseteq Stacks
    /\ wake \in [Stacks -> BOOLEAN]
    /\ actor \in [Stacks -> Actor]
    /\ template \in [Stacks -> Template]
    /\ pod \in [Stacks -> {Absent, NoUrl} \cup Generation]
    /\ synced \in [Stacks -> {0} \cup Generation]
    /\ deployed \in [Stacks -> {0} \cup Generation]
    /\ faults \in 0 .. MaxFaults /\ restarts \in 0 .. MaxRestarts
    /\ mishaps \subseteq Mishap

Init ==
    /\ program = NoProgram /\ events = <<>> /\ view = NoProgram
    /\ task = NoTask /\ served = {}
    /\ stack = [s \in Stacks |-> "none"] /\ store = {}
    /\ wake = [s \in Stacks |-> FALSE] /\ actor = [s \in Stacks |-> Idle]
    /\ template = [s \in Stacks |-> Nothing] /\ pod = [s \in Stacks |-> Absent]
    /\ synced = [s \in Stacks |-> 0] /\ deployed = [s \in Stacks |-> 0]
    /\ faults = 0 /\ restarts = 0 /\ mishaps = {}

Exists(s) == stack[s] \in {"live", "deleting"}

Fault == faults < MaxFaults /\ faults' = faults + 1
Fine  == UNCHANGED faults

\* A change of the object is an event of its watch.
Becomes(p) == program' = p /\ events' = Append(events, p)

---------------------------------------------------------------------------
(* The watcher loop: an event, and the call it leads to. *)

\* A deletion that is blocked is a call as well, which nothing answers.
ActionBlocked(p, refs) ==
    IF ~p.finalizer /\ p.state = "present" /\ refs # {} THEN "add"
    ELSE IF ~(p.finalizer /\ p.state = "deleting") THEN "publish"
    ELSE IF refs = {} THEN "remove" ELSE "block"

\* Deletion waits for no Stack.
ActionUncounted(p, refs) ==
    IF ~p.finalizer /\ p.state = "present" /\ refs # {} THEN "add"
    ELSE IF p.finalizer /\ p.state = "deleting" THEN "remove" ELSE "publish"

\* What the loop does about a Program that the Stacks of the store refer to.
ProgramAction(p, refs) ==
    IF ~p.finalizer /\ p.state = "present" /\ refs # {} THEN "add"
    ELSE IF ~(p.finalizer /\ p.state = "deleting") THEN "publish"
    ELSE IF refs = {} THEN "remove" ELSE "none"

\* Only the newest artifact is kept.
BuildLatest(p) == served' = {p.generation}

\* An artifact that was published is not built again.
BuildOnce(p) == served' = IF p.artifact = p.generation THEN served
                          ELSE served \cup {p.generation}

Build(p) == served' = served \cup {p.generation}

\* The Program of an event, applied or listed.
ReconcileProgram(p) ==
    LET call == ProgramAction(p, store) IN
    /\ task' = IF call = "none" THEN NoTask
               ELSE [call |-> call, generation |-> p.generation]
    /\ IF call = "publish" THEN Build(p) ELSE UNCHANGED served
    /\ mishaps' = IF call = "remove" /\ \E s \in Stacks \ store : Exists(s)
                  THEN mishaps \cup {"uncounted"} ELSE mishaps

\* The Program is gone, and the artifact of its last generation with it.
ProgramDeleted(p) ==
    /\ served' = served \ {p.generation}
    /\ UNCHANGED <<task, mishaps>>

\* The loop takes an event, through the store.
Receive ==
    /\ task = NoTask /\ events # <<>>
    /\ LET p == Head(events) IN
       /\ view' = IF p.state = "absent" THEN NoProgram ELSE p
       /\ IF p.state = "absent" THEN ProgramDeleted(p) ELSE ReconcileProgram(p)
    /\ events' = Tail(events)
    /\ UNCHANGED <<program, stacks, faults, restarts>>

Missed == program' = program /\ events' = events /\ Fault

\* The patch of the finalizer, which changes nothing if it is there.  It creates no
\* Program: one without a spec is refused.
AddFinalizer ==
    /\ task.call = "add"
    /\ \/ /\ IF program.state = "present" /\ ~program.finalizer
             THEN Becomes([program EXCEPT !.finalizer = TRUE])
             ELSE UNCHANGED <<program, events>>
          /\ Fine /\ UNCHANGED mishaps
       \/ Missed /\ mishaps' = mishaps \cup {"missed"}
    /\ task' = NoTask
    /\ UNCHANGED <<view, served, stacks, restarts>>

\* Without its finalizer a Program that is being deleted is gone.
RemoveFinalizer ==
    /\ task.call = "remove"
    /\ \/ /\ IF program.state = "deleting"
             THEN Becomes([program EXCEPT !.state = "absent", !.finalizer = FALSE])
             ELSE UNCHANGED <<program, events>>
          /\ Fine /\ UNCHANGED mishaps
       \/ Missed /\ mishaps' = mishaps \cup {"missed"}
    /\ task' = NoTask
    /\ UNCHANGED <<view, served, stacks, restarts>>

\* The Stacks are left to find out.
NoTrigger == UNCHANGED wake

\* Every Stack of the store that refers to the Program is reconciled.
TriggerReferencingStacks == wake' = [s \in Stacks |-> s \in store \/ wake[s]]

\* A publication that fails is tried again, of the Program as it was, after the events
\* that have come since.
PublishRequeued ==
    /\ task.call = "publish"
    /\ \/ /\ IF program.state # "absent"
             THEN Becomes([program EXCEPT !.artifact = task.generation])
             ELSE UNCHANGED <<program, events>>
          /\ Fine /\ UNCHANGED mishaps
       \/ /\ Fault /\ events' = Append(events, view) /\ UNCHANGED program
          /\ mishaps' = mishaps \cup {"missed"}
    /\ TriggerReferencingStacks
    /\ task' = NoTask
    /\ UNCHANGED <<view, served, stack, store, actor, template, pod, synced, deployed, restarts>>

\* The status patch, which is an event each time: lastUpdateTime differs.
Publish ==
    /\ task.call = "publish"
    /\ \/ /\ IF program.state # "absent"
             THEN Becomes([program EXCEPT !.artifact = task.generation])
             ELSE UNCHANGED <<program, events>>
          /\ Fine /\ UNCHANGED mishaps
       \/ Missed /\ mishaps' = mishaps \cup {"missed"}
    /\ TriggerReferencingStacks
    /\ task' = NoTask
    /\ UNCHANGED <<view, served, stack, store, actor, template, pod, synced, deployed, restarts>>

Loop == Receive \/ AddFinalizer \/ RemoveFinalizer \/ Publish

---------------------------------------------------------------------------
(* A Stack's reconcile.  Whatever ends it with a retry leaves wake. *)

Goto(s, at, commit) == actor' = [actor EXCEPT ![s] = [at |-> at, commit |-> commit]]
Done(s)  == actor' = [actor EXCEPT ![s] = Idle] /\ UNCHANGED wake
Retry(s) == actor' = [actor EXCEPT ![s] = Idle] /\ wake' = [wake EXCEPT ![s] = TRUE]

\* resolve_program, of the store: no Program stalls, no artifact is retried.  A Stack that
\* is being deleted resolves nothing.
Resolve(s) ==
    /\ wake[s] /\ actor[s] = Idle /\ s \in store
    /\ \/ stack[s] = "deleting" /\ Goto(s, "destroying", 0)
       \/ stack[s] = "live" /\ view.state # "absent" /\ view.artifact # 0
          /\ Goto(s, "resolved", view.artifact)
       \/ stack[s] = "gone" /\ UNCHANGED actor
       \/ stack[s] = "live" /\ view.state = "absent" /\ UNCHANGED actor
    /\ wake' = [wake EXCEPT ![s] = FALSE]
    /\ UNCHANGED <<program, events, loop, stack, store, template, pod, synced, deployed, faults,
                   restarts, mishaps>>

\* ensure_program_finalizer, of the cluster: no Program stalls, and no finalizer is added
\* to an object that is being deleted.
ProtectProgram(s) ==
    /\ actor[s].at = "resolved"
    /\ \/ program.state = "absent" /\ Fine /\ UNCHANGED <<program, events>> /\ Done(s)
       \/ program.state # "absent" /\ program.finalizer /\ Fine
          /\ UNCHANGED <<program, events>>
          /\ Goto(s, "protected", actor[s].commit) /\ UNCHANGED wake
       \/ program.state = "present" /\ ~program.finalizer /\ Fine
          /\ Becomes([program EXCEPT !.finalizer = TRUE])
          /\ Goto(s, "protected", actor[s].commit) /\ UNCHANGED wake
       \/ Missed /\ Retry(s)
    /\ UNCHANGED <<loop, stack, store, template, pod, synced, deployed, restarts, mishaps>>

\* is_synced, of the commit.
Synced(s) ==
    /\ actor[s].at = "protected" /\ synced[s] = actor[s].commit
    /\ Done(s)
    /\ UNCHANGED <<program, events, loop, stack, store, template, pod, synced, deployed, faults,
                   restarts, mishaps>>

\* What the file server has; any other path is not found.
Serves(generation) == generation \in served

\* The fetch container without a URL fetches nothing; with one it fails and starts again
\* until the file server has the artifact.
Fetchable(url) == url = NoUrl \/ Serves(url)

\* ensure_workspace makes the Workspace, and the next time its StatefulSet, with the URL
\* the store has now.
Given(s) == IF template[s] = Nothing THEN Bare ELSE view.artifact

EnsureWorkspace(s) == template' = [template EXCEPT ![s] = Given(s)]

\* A pod that is to be replaced still counts as ready.
Ready(s) == template[s] # Nothing /\ pod[s] # Absent

\* The archives an Update may run: that of the pod, or of the one that replaces it first.
Archives(s) == {pod[s]} \cup (IF Fetchable(Given(s)) THEN {Given(s)} ELSE {})

\* An Update fails without a Program, and when its pod is replaced under it; any other
\* failure is a fault.
UpdateFails(s, archive) == IF archive = NoUrl \/ archive # Given(s) THEN Fine ELSE Fault

Ran(s, archive) ==
    /\ pod' = [pod EXCEPT ![s] = archive]
    /\ deployed' = IF archive = NoUrl THEN deployed ELSE [deployed EXCEPT ![s] = archive]

\* The commit that is recorded is the one the reconcile resolved, whatever the pod has.
UpdateSucceeded(s, archive) ==
    /\ archive # NoUrl /\ Fine
    /\ synced' = [synced EXCEPT ![s] = actor[s].commit]
    /\ mishaps' = IF archive < actor[s].commit THEN mishaps \cup {"early"} ELSE mishaps

Deploy(s) ==
    /\ actor[s].at = "protected" /\ synced[s] # actor[s].commit
    /\ \/ EnsureWorkspace(s) /\ Ready(s)
          /\ \E archive \in Archives(s) :
                /\ Ran(s, archive)
                /\ \/ UpdateSucceeded(s, archive)
                   \/ UpdateFails(s, archive) /\ UNCHANGED <<synced, mishaps>>
       \/ EnsureWorkspace(s) /\ ~Ready(s) /\ Fine
          /\ UNCHANGED <<pod, synced, deployed, mishaps>>
       \/ Fault /\ UNCHANGED <<template, pod, synced, deployed, mishaps>>
    /\ Retry(s)
    /\ UNCHANGED <<program, events, loop, stack, store, restarts>>

\* A Stack that is gone leaves no Workspace.
Destroyed(s, archive) ==
    /\ archive # NoUrl /\ Fine
    /\ stack' = [stack EXCEPT ![s] = "gone"]
    /\ template' = [template EXCEPT ![s] = Nothing]
    /\ pod' = [pod EXCEPT ![s] = Absent]
    /\ Done(s)

\* Every destroy follows an ensure_workspace as well.
Destroy(s) ==
    /\ actor[s].at = "destroying"
    /\ \/ Ready(s) /\ \E archive \in Archives(s) :
             \/ Destroyed(s, archive)
             \/ UpdateFails(s, archive) /\ EnsureWorkspace(s) /\ Retry(s)
                /\ pod' = [pod EXCEPT ![s] = archive] /\ UNCHANGED stack
       \/ ~Ready(s) /\ Fine /\ EnsureWorkspace(s) /\ Retry(s) /\ UNCHANGED <<stack, pod>>
       \/ Fault /\ Retry(s) /\ UNCHANGED <<stack, template, pod>>
    /\ UNCHANGED <<program, events, loop, store, synced, deployed, restarts, mishaps>>

Reconcile(s) ==
    Resolve(s) \/ ProtectProgram(s) \/ Synced(s) \/ Deploy(s) \/ Destroy(s)

---------------------------------------------------------------------------
(* Workspace pods. *)

PodFetches(s) ==
    /\ pod[s] = Absent /\ Fetchable(template[s])
    /\ pod' = [pod EXCEPT ![s] = template[s]]
    /\ UNCHANGED <<program, events, loop, stack, store, wake, actor, template, synced, deployed,
                   faults, restarts, mishaps>>

\* The StatefulSet's controller replaces a pod of another template.
PodReplaced(s) ==
    /\ pod[s] # Absent /\ pod[s] # template[s]
    /\ pod' = [pod EXCEPT ![s] = Absent]
    /\ UNCHANGED <<program, events, loop, stack, store, wake, actor, template, synced, deployed,
                   faults, restarts, mishaps>>

PodEvicted(s) ==
    /\ pod[s] # Absent /\ pod[s] = template[s] /\ Fault
    /\ pod' = [pod EXCEPT ![s] = Absent]
    /\ UNCHANGED <<program, events, loop, stack, store, wake, actor, template, synced, deployed,
                   restarts, mishaps>>

---------------------------------------------------------------------------
(* Users, the watch of the Stacks, restarts. *)

CreateProgram ==
    /\ program.generation = 0
    /\ Becomes([NoProgram EXCEPT !.state = "present", !.generation = 1])
    /\ UNCHANGED <<loop, stacks, faults, restarts, mishaps>>

EditProgram ==
    /\ program.state = "present" /\ program.generation < MaxGeneration
    /\ Becomes([program EXCEPT !.generation = @ + 1])
    /\ UNCHANGED <<loop, stacks, faults, restarts, mishaps>>

\* A finalizer makes a deletion wait.
DeleteProgram ==
    /\ program.state = "present"
    /\ IF program.finalizer
       THEN Becomes([program EXCEPT !.state = "deleting", !.generation = @ + 1])
       ELSE Becomes([program EXCEPT !.state = "absent"])
    /\ UNCHANGED <<loop, stacks, faults, restarts, mishaps>>

CreateStack(s) ==
    /\ stack[s] = "none"
    /\ stack' = [stack EXCEPT ![s] = "live"]
    /\ mishaps' = IF task.call = "remove" THEN mishaps \cup {"uncounted"} ELSE mishaps
    /\ UNCHANGED <<program, events, loop, store, wake, actor, template, pod, synced, deployed,
                   faults, restarts>>

DeleteStack(s) ==
    /\ stack[s] = "live"
    /\ stack' = [stack EXCEPT ![s] = "deleting"]
    /\ wake' = [wake EXCEPT ![s] = s \in store \/ @]
    /\ UNCHANGED <<program, events, loop, store, actor, template, pod, synced, deployed, faults,
                   restarts, mishaps>>

\* The Stack store learns of a Stack, and tells its actor, or forgets one.
SyncStore(s) ==
    /\ \/ Exists(s) /\ s \notin store
          /\ store' = store \cup {s} /\ wake' = [wake EXCEPT ![s] = TRUE]
       \/ ~Exists(s) /\ s \in store
          /\ store' = store \ {s} /\ UNCHANGED wake
    /\ UNCHANGED <<program, events, loop, stack, actor, template, pod, synced, deployed, faults,
                   restarts, mishaps>>

\* The stores and the file server start empty, and everything is listed again.
Restart ==
    /\ restarts < MaxRestarts /\ restarts' = restarts + 1
    /\ events' = IF program.state = "absent" THEN <<>> ELSE <<program>>
    /\ view' = NoProgram /\ task' = NoTask /\ served' = {}
    /\ store' = {}
    /\ wake' = [s \in Stacks |-> FALSE] /\ actor' = [s \in Stacks |-> Idle]
    /\ mishaps' = mishaps \cup {"restart"}
                  \cup (IF program.state = "deleting" THEN {"blocked"} ELSE {})
    /\ UNCHANGED <<program, stack, template, pod, synced, deployed, faults>>

---------------------------------------------------------------------------
Next ==
    \/ Loop
    \/ CreateProgram \/ EditProgram \/ DeleteProgram \/ Restart
    \/ \E s \in Stacks :
          \/ Reconcile(s) \/ PodFetches(s) \/ PodReplaced(s) \/ PodEvicted(s)
          \/ CreateStack(s) \/ DeleteStack(s) \/ SyncStore(s)

Spec == Init /\ [][Next]_vars

\* The loop and the actors are tasks of the runtime; watches deliver, and the cluster
\* runs its pods.
Fairness ==
    /\ WF_vars(Loop)
    /\ \A s \in Stacks : /\ WF_vars(Reconcile(s)) /\ WF_vars(SyncStore(s))
                         /\ WF_vars(PodFetches(s)) /\ WF_vars(PodReplaced(s))

FairSpec == Spec /\ Fairness

---------------------------------------------------------------------------
(* Properties. *)

\* Until a restart, every URL that a workspace's template names is served for as long as
\* the Program exists: whatever has been published since, a pod that starts again can
\* fetch what it ran.
TemplatesServed ==
    program.state # "absent" /\ "restart" \notin mishaps =>
        \A s \in Stacks : template[s] \in Generation => template[s] \in served

\* A Program does not go while there is a Stack for which an Update has run it, even one
\* that failed, and so may have resources to destroy, as long as its removal was decided on
\* all the Stacks there were.
GoneUnused ==
    [][ program.state # "absent" /\ program'.state = "absent" =>
            \/ "uncounted" \in mishaps
            \/ \A s \in Stacks : Exists(s) => deployed[s] = 0 ]_vars

\* The revision recorded as deployed never goes back to an older one, whatever fails and
\* restarts in between: revisions are published, stored and resolved in the order of the
\* Program's generations (run_program_watcher, resolve_program).
NeverGoesBack == [][ \A s \in Stacks : synced'[s] >= synced[s] ]_vars

\* A live Stack comes to the Program's last generation: it is the one recorded, the one its
\* pod has, and the one its last Update ran, unless that Update ran on the pod about to be
\* replaced.  Restarts, evictions and retried failures do not matter; a failed call of the
\* loop does.
Converges ==
    \A s \in Stacks :
        stack[s] = "live" /\ program.state = "present" ~>
            \/ /\ synced[s] = program.generation /\ pod[s] = program.generation
               /\ deployed[s] = program.generation \/ "early" \in mishaps
            \/ stack[s] # "live" \/ program.state # "present" \/ "missed" \in mishaps

\* A Stack that is being deleted comes to an end if its Program was published, even one
\* whose own deletion waits for that Stack.  A restart must not fall into that wait.
DestroysEnd ==
    \A s \in Stacks :
        stack[s] = "deleting" /\ program.artifact # 0 ~>
            \/ stack[s] = "gone" \/ program.state = "absent"
            \/ mishaps \cap {"missed", "blocked"} # {}
===============================================================================
