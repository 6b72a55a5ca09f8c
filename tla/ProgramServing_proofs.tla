------------------------ MODULE ProgramServing_proofs ------------------------
(***************************************************************************)
(* That the artifacts workspaces name are served, and that a Program in    *)
(* use does not go, for any number of Stacks and any bounds.               *)
(***************************************************************************)
EXTENDS ProgramServing, TLAPS

(* Why the invariant is inductive.  What is published was built before, and so was what *)
(* the events, the store and the templates have of it (Published); nothing takes it out *)
(* of the file server before the Program is gone, which is for good.  The finalizer is  *)
(* there from before a Stack's first Update (Protection); it is only removed on a count *)
(* of no Stack, and none exists then unless one was missed.  An actor that is past its  *)
(* resolution has a Stack (Busy): it is the one that ends it.                           *)

Numbered ==
    /\ program.state # "absent" => program.generation \in Generation
    /\ program.state = "present" => program.generation <= MaxGeneration
    /\ \A i \in 1 .. Len(events) : events[i].generation \in Generation

Untouched ==
    /\ program.state # "absent" \/ program.generation = 0
    /\ "restart" \notin mishaps

Published ==
    Untouched =>
        /\ program.artifact \in {0} \cup served
        /\ view.artifact \in {0} \cup served
        /\ task.call = "publish" => task.generation \in served
        /\ \A i \in 1 .. Len(events) : /\ events[i].state # "absent"
                                       /\ events[i].artifact \in {0} \cup served
        /\ \A s \in Stacks : template[s] \in Generation => template[s] \in served

Busy == \A s \in Stacks : /\ actor[s].at # "idle" => Exists(s)
                          /\ stack[s] = "none" => deployed[s] = 0

Protected == program.state # "absent" /\ program.finalizer

Protection ==
    "uncounted" \notin mishaps =>
        /\ task.call = "remove" => \A s \in Stacks : ~Exists(s)
        /\ \A s \in Stacks : actor[s].at = "protected" => Protected
        /\ \A s \in Stacks : Exists(s) /\ deployed[s] # 0 => Protected

IInv == TypeOK /\ Numbered /\ Published /\ Busy /\ Protection

---------------------------------------------------------------------------
(* Types. *)

LEMMA Constants ==
    /\ MaxGeneration \in Nat /\ MaxGeneration >= 1 /\ MaxFaults \in Nat /\ MaxRestarts \in Nat
    /\ 1 \in Generation /\ 0 \notin Generation /\ Generation \subseteq Nat
  BY ConstantsAssumption DEF Generation

LEMMA Records ==
    /\ NoProgram \in Program /\ NoTask \in Task /\ Idle \in Actor
    /\ NoProgram.state = "absent" /\ NoProgram.generation = 0 /\ NoProgram.artifact = 0
    /\ NoTask.call = "none" /\ Idle.at = "idle" /\ Idle.commit = 0
  BY DEF NoProgram, Program, NoTask, Task, Idle, Actor

\* A change that is an event.
LEMMA BecomesTypes ==
    ASSUME events \in Seq(Program), NEW p \in Program, Becomes(p)
    PROVE  /\ program' = p /\ events' \in Seq(Program)
           /\ Len(events') = Len(events) + 1 /\ Len(events) \in Nat
           /\ \A i \in 1 .. Len(events) : events'[i] = events[i]
           /\ events'[Len(events) + 1] = p
  BY DEF Becomes

\* An event that is taken.
LEMMA TakenTypes ==
    ASSUME events \in Seq(Program), events # <<>>
    PROVE  /\ Head(events) \in Program /\ Tail(events) \in Seq(Program)
           /\ Len(events) \in Nat /\ Len(events) >= 1 /\ Head(events) = events[1]
           /\ Len(Tail(events)) = Len(events) - 1
           /\ \A i \in 1 .. Len(events) - 1 : Tail(events)[i] = events[i + 1]
  OBVIOUS

\* The ways in which the object changes.
LEMMA Changes ==
    ASSUME NEW p \in Program
    PROVE  /\ [p EXCEPT !.finalizer = TRUE] \in Program
           /\ [p EXCEPT !.finalizer = TRUE].finalizer = TRUE
           /\ [p EXCEPT !.finalizer = TRUE].state = p.state
           /\ [p EXCEPT !.finalizer = TRUE].generation = p.generation
           /\ [p EXCEPT !.finalizer = TRUE].artifact = p.artifact
           /\ [p EXCEPT !.state = "absent"] \in Program
           /\ [p EXCEPT !.state = "absent"].state = "absent"
           /\ [p EXCEPT !.state = "absent"].finalizer = p.finalizer
           /\ [p EXCEPT !.state = "absent"].generation = p.generation
           /\ [p EXCEPT !.state = "absent", !.finalizer = FALSE] \in Program
           /\ [p EXCEPT !.state = "absent", !.finalizer = FALSE].state = "absent"
           /\ [p EXCEPT !.state = "absent", !.finalizer = FALSE].generation = p.generation
  BY DEF Program

LEMMA Publication ==
    ASSUME NEW p \in Program, NEW g \in {0} \cup Generation
    PROVE  /\ [p EXCEPT !.artifact = g] \in Program
           /\ [p EXCEPT !.artifact = g].artifact = g
           /\ [p EXCEPT !.artifact = g].state = p.state
           /\ [p EXCEPT !.artifact = g].finalizer = p.finalizer
           /\ [p EXCEPT !.artifact = g].generation = p.generation
  BY DEF Program

\* An edit, a deletion that waits, a new Program.
LEMMA NextGeneration ==
    ASSUME NEW p \in Program, p.generation \in Generation, p.generation <= MaxGeneration
    PROVE  /\ p.generation + 1 \in Generation
           /\ [p EXCEPT !.generation = @ + 1] \in Program
           /\ [p EXCEPT !.generation = @ + 1].generation = p.generation + 1
           /\ [p EXCEPT !.generation = @ + 1].state = p.state
           /\ [p EXCEPT !.generation = @ + 1].finalizer = p.finalizer
           /\ [p EXCEPT !.generation = @ + 1].artifact = p.artifact
           /\ [p EXCEPT !.state = "deleting", !.generation = @ + 1] \in Program
           /\ [p EXCEPT !.state = "deleting", !.generation = @ + 1].generation
                = p.generation + 1
           /\ [p EXCEPT !.state = "deleting", !.generation = @ + 1].state = "deleting"
           /\ [p EXCEPT !.state = "deleting", !.generation = @ + 1].finalizer = p.finalizer
           /\ [p EXCEPT !.state = "deleting", !.generation = @ + 1].artifact = p.artifact
  <1>1. p.generation + 1 \in Generation
    BY Constants DEF Generation
  <1> QED
    BY <1>1 DEF Program

LEMMA NewProgram ==
    LET p == [NoProgram EXCEPT !.state = "present", !.generation = 1] IN
    /\ p \in Program /\ p.state = "present" /\ p.generation = 1
    /\ p.finalizer = FALSE /\ p.artifact = 0
  BY Constants DEF NoProgram, Program

LEMMA Counting ==
    ASSUME TypeOK
    PROVE  /\ Fault => faults' \in 0 .. MaxFaults
           /\ Fine => faults' \in 0 .. MaxFaults
           /\ Missed => faults' \in 0 .. MaxFaults /\ UNCHANGED <<program, events>>
  BY Constants DEF TypeOK, Template, Fault, Fine, Missed

LEMMA GotoTypes ==
    ASSUME TypeOK, NEW s \in Stacks, NEW at \in {"resolved", "protected", "destroying"},
           NEW c \in {0} \cup Generation, Goto(s, at, c)
    PROVE  /\ actor' \in [Stacks -> Actor]
           /\ actor'[s].at = at /\ actor'[s].commit = c
           /\ \A t \in Stacks : t # s => actor'[t] = actor[t]
  <1>1. [at |-> at, commit |-> c] \in Actor
    BY DEF Actor
  <1>2. actor' = [actor EXCEPT ![s] = [at |-> at, commit |-> c]]
    BY DEF Goto
  <1> QED
    BY <1>1, <1>2 DEF TypeOK, Template

LEMMA EndTypes ==
    ASSUME TypeOK, NEW s \in Stacks, Done(s) \/ Retry(s)
    PROVE  /\ actor' \in [Stacks -> Actor] /\ wake' \in [Stacks -> BOOLEAN]
           /\ actor'[s].at = "idle"
           /\ \A t \in Stacks : t # s => actor'[t] = actor[t]
  <1>1. actor' = [actor EXCEPT ![s] = Idle]
    BY DEF Done, Retry
  <1>2. actor' \in [Stacks -> Actor] /\ actor'[s] = Idle
        /\ \A t \in Stacks : t # s => actor'[t] = actor[t]
    BY <1>1, Records DEF TypeOK, Template
  <1>3. wake' \in [Stacks -> BOOLEAN]
    BY DEF Done, Retry, TypeOK, Template
  <1> QED
    BY <1>2, <1>3, Records

---------------------------------------------------------------------------
(* Steps of Stacks and of their pods. *)

\* A step that leaves the Program and what the loop made of it alone.
LEMMA StackStep ==
    ASSUME IInv, TypeOK', Busy', UNCHANGED <<program, events, view, served>>,
           task' \in {task, NoTask},
           mishaps \subseteq mishaps', "restart" \in mishaps' => "restart" \in mishaps,
           \A s \in Stacks :
             /\ template'[s] \in Generation =>
                  template'[s] = template[s] \/ template'[s] = view.artifact
             /\ Exists(s)' => Exists(s) \/ (task.call = "remove" => "uncounted" \in mishaps')
             /\ actor'[s].at = "protected" => actor[s].at = "protected"
             /\ Exists(s)' /\ deployed'[s] # 0 =>
                  (Exists(s) /\ deployed[s] # 0) \/ actor[s].at = "protected"
    PROVE  IInv'
  <1>1. /\ program' = program /\ events' = events /\ view' = view /\ served' = served
        /\ task' = task \/ task'.call = "none"
    BY Records
  <1>2. Numbered'
    BY <1>1 DEF IInv, Numbered
  <1>3. Published'
    <2> SUFFICES ASSUME Untouched'
                 PROVE  /\ program'.artifact \in {0} \cup served'
                        /\ view'.artifact \in {0} \cup served'
                        /\ task'.call = "publish" => task'.generation \in served'
                        /\ \A i \in 1 .. Len(events') :
                              events'[i].state # "absent"
                              /\ events'[i].artifact \in {0} \cup served'
                        /\ \A s \in Stacks :
                              template'[s] \in Generation => template'[s] \in served'
      BY DEF Published
    <2>1. Untouched
      BY <1>1 DEF Untouched
    <2>2. \A s \in Stacks : template'[s] \in Generation => template'[s] \in served'
      BY <1>1, <2>1, Constants DEF IInv, Published
    <2> QED
      BY <1>1, <2>1, <2>2 DEF IInv, Published
  <1>4. Protection'
    <2> SUFFICES ASSUME "uncounted" \notin mishaps'
                 PROVE  /\ task'.call = "remove" => \A s \in Stacks : ~Exists(s)'
                        /\ \A s \in Stacks : actor'[s].at = "protected" => Protected'
                        /\ \A s \in Stacks : Exists(s)' /\ deployed'[s] # 0 => Protected'
      BY DEF Protection
    <2>1. Protected' = Protected
      BY <1>1 DEF Protected
    <2> QED
      BY <1>1, <2>1 DEF IInv, Protection
  <1> QED
    BY <1>2, <1>3, <1>4 DEF IInv

LEMMA ResolveStep ==
    ASSUME IInv, NEW s \in Stacks, Resolve(s)
    PROVE  IInv'
  <1>1. /\ actor' \in [Stacks -> Actor] /\ \A t \in Stacks : t # s => actor'[t] = actor[t]
        /\ (actor'[s].at \in {"resolved", "destroying"} /\ Exists(s)) \/ actor' = actor
    <2>1. CASE stack[s] = "deleting" /\ Goto(s, "destroying", 0)
      BY <2>1, GotoTypes DEF IInv, Exists
    <2>2. CASE stack[s] = "live" /\ Goto(s, "resolved", view.artifact)
      <3>1. view.artifact \in {0} \cup Generation
        BY DEF IInv, TypeOK, Template, Program
      <3> QED
        BY <2>2, <3>1, GotoTypes DEF IInv, Exists
    <2>3. CASE actor' = actor
      BY <2>3 DEF IInv, TypeOK, Template
    <2> QED
      BY <2>1, <2>2, <2>3 DEF Resolve
  <1>2. TypeOK'
    BY <1>1 DEF Resolve, IInv, TypeOK, Template, loop
  <1>3. Busy'
    BY <1>1 DEF Resolve, IInv, Busy, Exists
  <1> QED
    BY <1>1, <1>2, <1>3, StackStep DEF Resolve, Exists, loop

LEMMA SyncedStep ==
    ASSUME IInv, NEW s \in Stacks, Synced(s)
    PROVE  IInv'
  <1>1. /\ actor' \in [Stacks -> Actor] /\ wake' \in [Stacks -> BOOLEAN]
        /\ actor'[s].at = "idle" /\ \A t \in Stacks : t # s => actor'[t] = actor[t]
    BY EndTypes DEF Synced, IInv
  <1>2. TypeOK'
    BY <1>1 DEF Synced, IInv, TypeOK, Template, loop
  <1>3. Busy'
    BY <1>1 DEF Synced, IInv, Busy, Exists, loop
  <1> QED
    BY <1>1, <1>2, <1>3, StackStep DEF Synced, Exists, loop

LEMMA EnsureTypes ==
    ASSUME TypeOK, NEW s \in Stacks, EnsureWorkspace(s)
    PROVE  /\ template' \in [Stacks -> {Nothing, Bare, NoUrl} \cup Generation]
           /\ \A t \in Stacks : template'[t] \in Generation =>
                  template'[t] = template[t] \/ template'[t] = view.artifact
  <1>1. view.artifact \in {NoUrl} \cup Generation
    BY DEF TypeOK, Template, Program, NoUrl
  <1>2. Bare \notin Generation
    BY Constants DEF Bare
  <1> QED
    BY <1>1, <1>2 DEF TypeOK, Template, EnsureWorkspace, Given

\* What an Update runs is a pod's, with or without a Program.
LEMMA ArchiveTypes ==
    ASSUME TypeOK, NEW s \in Stacks, Ready(s), NEW archive \in Archives(s)
    PROVE  archive \in {NoUrl} \cup Generation
  <1>1. pod[s] \in {NoUrl} \cup Generation
    BY DEF Ready, TypeOK
  <1>2. Given(s) = view.artifact /\ view.artifact \in {NoUrl} \cup Generation
    BY DEF Given, Ready, TypeOK, Program, NoUrl
  <1> QED
    BY <1>1, <1>2 DEF Archives

LEMMA DeployStep ==
    ASSUME IInv, NEW s \in Stacks, Deploy(s)
    PROVE  IInv'
  <1>1. /\ actor' \in [Stacks -> Actor] /\ wake' \in [Stacks -> BOOLEAN]
        /\ actor'[s].at = "idle" /\ \A t \in Stacks : t # s => actor'[t] = actor[t]
    BY EndTypes DEF Deploy, IInv
  <1>2. /\ template' \in [Stacks -> {Nothing, Bare, NoUrl} \cup Generation]
        /\ \A t \in Stacks : template'[t] \in Generation =>
                  template'[t] = template[t] \/ template'[t] = view.artifact
    BY EnsureTypes DEF Deploy, IInv, TypeOK, Template
  <1>3. /\ pod' \in [Stacks -> {Absent, NoUrl} \cup Generation]
        /\ deployed' \in [Stacks -> {0} \cup Generation]
        /\ \A t \in Stacks : t # s => deployed'[t] = deployed[t]
    <2>1. ASSUME Ready(s), NEW archive \in Archives(s), Ran(s, archive)
          PROVE  /\ pod' \in [Stacks -> {Absent, NoUrl} \cup Generation]
                 /\ deployed' \in [Stacks -> {0} \cup Generation]
                 /\ \A t \in Stacks : t # s => deployed'[t] = deployed[t]
      <3>1. archive \in {NoUrl} \cup Generation
        BY <2>1, ArchiveTypes DEF IInv
      <3> QED
        BY <2>1, <3>1 DEF Ran, IInv, TypeOK
    <2> QED
      BY <2>1 DEF Deploy, IInv, TypeOK
  <1>4. /\ faults' \in 0 .. MaxFaults
        /\ synced' \in [Stacks -> {0} \cup Generation]
        /\ mishaps' \in {mishaps, mishaps \cup {"early"}}
    BY Counting DEF Deploy, UpdateSucceeded, UpdateFails, IInv, TypeOK, Actor
  <1>5. actor[s].at = "protected" /\ Exists(s)
    BY DEF Deploy, IInv, Busy, Exists
  <1>6. TypeOK'
    BY <1>1, <1>2, <1>3, <1>4 DEF Deploy, IInv, TypeOK, Template, Mishap, loop
  <1>7. Busy'
    BY <1>1, <1>3, <1>5 DEF Deploy, IInv, Busy, Exists
  <1> QED
    BY <1>1, <1>2, <1>3, <1>4, <1>5, <1>6, <1>7, StackStep DEF Deploy, Exists, loop

LEMMA DestroyStep ==
    ASSUME IInv, NEW s \in Stacks, Destroy(s)
    PROVE  IInv'
  <1>1. /\ actor' \in [Stacks -> Actor] /\ wake' \in [Stacks -> BOOLEAN]
        /\ actor'[s].at = "idle" /\ \A t \in Stacks : t # s => actor'[t] = actor[t]
    BY EndTypes DEF Destroy, Destroyed, IInv
  <1>2. /\ template' \in [Stacks -> {Nothing, Bare, NoUrl} \cup Generation]
        /\ \A t \in Stacks : template'[t] \in Generation =>
                  template'[t] = template[t] \/ template'[t] = view.artifact
    <2>1. CASE template' = [template EXCEPT ![s] = Nothing]
      BY <2>1, Constants DEF IInv, TypeOK, Template, Nothing
    <2>2. CASE EnsureWorkspace(s)
      BY <2>2, EnsureTypes DEF IInv
    <2>3. CASE template' = template
      BY <2>3 DEF IInv, TypeOK, Template
    <2> QED
      BY <2>1, <2>2, <2>3 DEF Destroy, Destroyed
  <1>3. /\ stack' \in [Stacks -> {"none", "live", "deleting", "gone"}]
        /\ stack' = stack \/ stack' = [stack EXCEPT ![s] = "gone"]
        /\ pod' \in [Stacks -> {Absent, NoUrl} \cup Generation]
    BY ArchiveTypes DEF Destroy, Destroyed, IInv, TypeOK, Template
  <1>4. faults' \in 0 .. MaxFaults
    BY Counting DEF Destroy, Destroyed, UpdateFails, IInv
  <1>5. \A t \in Stacks : /\ Exists(t)' => Exists(t) /\ stack'[t] = stack[t]
                          /\ t # s => stack'[t] = stack[t]
                          /\ stack'[t] = "none" => stack[t] = "none"
    BY <1>3 DEF IInv, TypeOK, Template, Exists
  <1>6. TypeOK'
    BY <1>1, <1>2, <1>3, <1>4 DEF Destroy, IInv, TypeOK, Template, loop
  <1>7. Busy'
    BY <1>1, <1>5 DEF Destroy, IInv, Busy, Exists, loop
  <1> QED
    BY <1>1, <1>2, <1>5, <1>6, <1>7, StackStep DEF Destroy, Exists, loop

LEMMA PodSteps ==
    ASSUME IInv, NEW s \in Stacks, PodFetches(s) \/ PodReplaced(s) \/ PodEvicted(s)
    PROVE  IInv'
  <1>1. pod' \in [Stacks -> {Absent, NoUrl} \cup Generation]
    <2>1. template[s] \in served \cup {NoUrl} => template[s] \in {Absent, NoUrl} \cup Generation
      BY DEF IInv, TypeOK, Template
    <2> QED
      BY <2>1 DEF IInv, TypeOK, Template, PodFetches, Fetchable, Serves, PodReplaced, PodEvicted
  <1>2. faults' \in 0 .. MaxFaults
    BY Counting DEF PodFetches, PodReplaced, PodEvicted, IInv, TypeOK, Template
  <1>3. UNCHANGED <<program, events, view, task, served, stack, store, wake, actor, template,
                    synced, deployed, restarts, mishaps>>
    BY DEF PodFetches, PodReplaced, PodEvicted, loop
  <1>4. TypeOK'
    BY <1>1, <1>2, <1>3 DEF IInv, TypeOK, Template
  <1>5. Busy'
    BY <1>3 DEF IInv, Busy, Exists
  <1> QED
    BY <1>3, <1>4, <1>5, StackStep DEF Exists, loop

LEMMA LifeSteps ==
    ASSUME IInv, NEW s \in Stacks, CreateStack(s) \/ DeleteStack(s) \/ SyncStore(s)
    PROVE  IInv'
  <1>1. /\ UNCHANGED <<program, events, view, task, served, actor, template, pod, synced, deployed,
                       faults, restarts>>
        /\ mishaps' \in {mishaps, mishaps \cup {"uncounted"}}
    BY DEF CreateStack, DeleteStack, SyncStore, loop
  <1>2. /\ stack' \in [Stacks -> {"none", "live", "deleting", "gone"}]
        /\ store' \subseteq Stacks /\ wake' \in [Stacks -> BOOLEAN]
    BY DEF CreateStack, DeleteStack, SyncStore, IInv, TypeOK, Template
  <1>3. TypeOK'
    BY <1>1, <1>2 DEF IInv, TypeOK, Template, Mishap
  <1>4. \A t \in Stacks : /\ Exists(t) => Exists(t)'
                          /\ stack'[t] = "none" => stack[t] = "none"
    BY DEF CreateStack, DeleteStack, SyncStore, IInv, TypeOK, Template, Exists
  <1>5. \A t \in Stacks :
           Exists(t)' => \/ Exists(t)
                         \/ stack[t] = "none" /\ (task.call = "remove" => "uncounted" \in mishaps')
    BY DEF CreateStack, DeleteStack, SyncStore, IInv, TypeOK, Template, Exists
  <1>6. Busy'
    BY <1>1, <1>4 DEF IInv, Busy, Exists
  <1>7. \A t \in Stacks : Exists(t)' /\ deployed'[t] # 0 => Exists(t) /\ deployed[t] # 0
    BY <1>1, <1>5 DEF IInv, Busy, Exists
  <1> QED
    BY <1>1, <1>3, <1>5, <1>6, <1>7, StackStep DEF loop

---------------------------------------------------------------------------
(* Steps of the Program and of the loop. *)

\* A step that changes the Program: it publishes what the loop built, goes once and for
\* all, and loses its finalizer to the loop only.
LEMMA ObjectStep ==
    ASSUME IInv, NEW p \in Program, Becomes(p), TypeOK', Busy',
           UNCHANGED <<view, served, stack, template, synced, deployed, mishaps>>,
           task' \in {task, NoTask},
           p.generation \in Generation, p.state = "present" => p.generation <= MaxGeneration,
           program.state = "absent" => program.generation = 0,
           \/ p.artifact \in {0, program.artifact}
           \/ task.call = "publish" /\ p.artifact = task.generation,
           Protected => task.call = "remove" \/ (p.state # "absent" /\ p.finalizer),
           \A s \in Stacks : actor'[s].at = "protected" =>
              actor[s].at = "protected" \/ (p.state # "absent" /\ p.finalizer)
    PROVE  IInv'
  <1>1. /\ program' = p /\ Len(events') = Len(events) + 1 /\ Len(events) \in Nat
        /\ \A i \in 1 .. Len(events) : events'[i] = events[i]
        /\ events'[Len(events) + 1] = p
    BY BecomesTypes DEF IInv, TypeOK, Template
  <1>2. task' = task \/ task'.call = "none"
    BY Records
  <1>3. \A i \in 1 .. Len(events') : i \in 1 .. Len(events) \/ i = Len(events) + 1
    BY <1>1
  <1>4. Numbered'
    BY <1>1, <1>3 DEF IInv, Numbered
  <1>5. Published'
    <2> SUFFICES ASSUME Untouched'
                 PROVE  /\ program'.artifact \in {0} \cup served'
                        /\ view'.artifact \in {0} \cup served'
                        /\ task'.call = "publish" => task'.generation \in served'
                        /\ \A i \in 1 .. Len(events') :
                              events'[i].state # "absent"
                              /\ events'[i].artifact \in {0} \cup served'
                        /\ \A s \in Stacks :
                              template'[s] \in Generation => template'[s] \in served'
      BY DEF Published
    <2>1. p.state # "absent" /\ Untouched
      BY <1>1, Constants DEF Untouched
    <2>2. p.artifact \in {0} \cup served
      BY <2>1 DEF IInv, Published
    <2>3. \A i \in 1 .. Len(events') :
             events'[i].state # "absent" /\ events'[i].artifact \in {0} \cup served'
      BY <1>1, <1>3, <2>1, <2>2 DEF IInv, Published
    <2> QED
      BY <1>1, <1>2, <2>1, <2>2, <2>3 DEF IInv, Published
  <1>6. Protection'
    <2> SUFFICES ASSUME "uncounted" \notin mishaps
                 PROVE  /\ task'.call = "remove" => \A s \in Stacks : ~Exists(s)
                        /\ \A s \in Stacks : actor'[s].at = "protected" => Protected'
                        /\ \A s \in Stacks : Exists(s) /\ deployed[s] # 0 => Protected'
      BY DEF Protection, Exists
    <2>1. \A s \in Stacks :
             actor[s].at = "protected" \/ (Exists(s) /\ deployed[s] # 0) => Protected /\ Exists(s)
      BY DEF IInv, Protection, Busy
    <2>2. \A s \in Stacks :
             actor[s].at = "protected" \/ (Exists(s) /\ deployed[s] # 0) =>
                p.state # "absent" /\ p.finalizer
      BY <2>1 DEF IInv, Protection
    <2>3. p.state # "absent" /\ p.finalizer => Protected'
      BY <1>1 DEF Protected
    <2>4. task'.call = "remove" => \A s \in Stacks : ~Exists(s)
      BY <1>2 DEF IInv, Protection
    <2>5. \A s \in Stacks : actor'[s].at = "protected" => Protected'
      BY <2>2, <2>3
    <2>6. \A s \in Stacks : Exists(s) /\ deployed[s] # 0 => Protected'
      BY <2>2, <2>3
    <2> QED
      BY <2>4, <2>5, <2>6
  <1> QED
    BY <1>4, <1>5, <1>6 DEF IInv

\* A call of the loop that changes no Program.
LEMMA CallEnds ==
    ASSUME IInv, UNCHANGED <<program, events, view, served, stack, store, actor, template, pod,
                             synced, deployed, restarts>>,
           task' = NoTask, wake' \in [Stacks -> BOOLEAN], faults' \in 0 .. MaxFaults,
           mishaps' \in {mishaps, mishaps \cup {"missed"}}
    PROVE  IInv'
  <1>1. TypeOK'
    BY Records DEF IInv, TypeOK, Template, Mishap
  <1>2. Busy'
    BY DEF IInv, Busy, Exists
  <1> QED
    BY <1>1, <1>2, StackStep DEF Exists

\* A call of the loop that does.
LEMMA CallChanges ==
    ASSUME IInv, NEW p \in Program, Becomes(p),
           UNCHANGED <<view, served, stack, store, actor, template, pod, synced, deployed, restarts,
                       mishaps>>,
           task' = NoTask, wake' \in [Stacks -> BOOLEAN], faults' \in 0 .. MaxFaults,
           program.state # "absent", p.generation = program.generation,
           p.state = "present" => program.state = "present",
           \/ p.artifact = program.artifact
           \/ task.call = "publish" /\ p.artifact = task.generation,
           Protected => task.call = "remove" \/ (p.state # "absent" /\ p.finalizer)
    PROVE  IInv'
  <1>1. program' = p /\ events' \in Seq(Program)
    BY BecomesTypes DEF IInv, TypeOK, Template
  <1>2. TypeOK'
    BY <1>1, Records DEF IInv, TypeOK, Template
  <1>3. Busy'
    BY DEF IInv, Busy, Exists
  <1>4. p.generation \in Generation /\ (p.state = "present" => p.generation <= MaxGeneration)
    BY DEF IInv, Numbered
  <1>5. \A s \in Stacks : actor'[s].at = "protected" => actor[s].at = "protected"
    OBVIOUS
  <1>6. /\ task' \in {task, NoTask}
        /\ \/ p.artifact \in {0, program.artifact}
           \/ task.call = "publish" /\ p.artifact = task.generation
    OBVIOUS
  <1>7. UNCHANGED <<view, served, stack, template, synced, deployed, mishaps>>
    OBVIOUS
  <1> QED
    BY <1>2, <1>3, <1>4, <1>5, <1>6, <1>7, ObjectStep

LEMMA AddFinalizerStep ==
    ASSUME IInv, AddFinalizer
    PROVE  IInv'
  <1>1. /\ UNCHANGED <<view, served, stack, store, actor, template, pod, synced, deployed, restarts>>
        /\ task' = NoTask /\ wake' \in [Stacks -> BOOLEAN] /\ faults' \in 0 .. MaxFaults
    BY Counting DEF AddFinalizer, IInv, TypeOK, Template, stacks
  <1>2. CASE Becomes([program EXCEPT !.finalizer = TRUE])
             /\ program.state = "present" /\ UNCHANGED mishaps
    BY <1>1, <1>2, Changes, CallChanges DEF IInv, TypeOK, Template
  <1>3. CASE UNCHANGED <<program, events>> /\ mishaps' \in {mishaps, mishaps \cup {"missed"}}
    BY <1>1, <1>3, CallEnds
  <1> QED
    BY <1>2, <1>3 DEF AddFinalizer, Missed

LEMMA RemoveFinalizerStep ==
    ASSUME IInv, RemoveFinalizer
    PROVE  IInv'
  <1>1. /\ UNCHANGED <<view, served, stack, store, actor, template, pod, synced, deployed, restarts>>
        /\ task' = NoTask /\ wake' \in [Stacks -> BOOLEAN] /\ faults' \in 0 .. MaxFaults
    BY Counting DEF RemoveFinalizer, IInv, TypeOK, Template, stacks
  <1>2. CASE Becomes([program EXCEPT !.state = "absent", !.finalizer = FALSE])
             /\ program.state = "deleting" /\ UNCHANGED mishaps
    <2> DEFINE p == [program EXCEPT !.state = "absent", !.finalizer = FALSE]
    <2>1. /\ p \in Program /\ p.state = "absent" /\ p.generation = program.generation
          /\ p.artifact = program.artifact
      BY DEF IInv, TypeOK, Template, Program
    <2>2. task.call = "remove" /\ program.state # "absent" /\ Becomes(p) /\ UNCHANGED mishaps
      BY <1>2 DEF RemoveFinalizer
    <2> HIDE DEF p
    <2> QED
      BY <1>1, <2>1, <2>2, CallChanges
  <1>3. CASE UNCHANGED <<program, events>> /\ mishaps' \in {mishaps, mishaps \cup {"missed"}}
    BY <1>1, <1>3, CallEnds
  <1> QED
    BY <1>2, <1>3 DEF RemoveFinalizer, Missed

LEMMA PublishStep ==
    ASSUME IInv, Publish
    PROVE  IInv'
  <1>1. /\ UNCHANGED <<view, served, stack, store, actor, template, pod, synced, deployed, restarts>>
        /\ task' = NoTask /\ wake' \in [Stacks -> BOOLEAN] /\ faults' \in 0 .. MaxFaults
    BY Counting DEF Publish, TriggerReferencingStacks, IInv, TypeOK, Template
  <1>2. CASE Becomes([program EXCEPT !.artifact = task.generation])
             /\ program.state # "absent" /\ UNCHANGED mishaps
    <2>1. program \in Program /\ task.generation \in {0} \cup Generation
      BY DEF IInv, TypeOK, Template, Task
    <2> QED
      BY <1>1, <1>2, <2>1, Publication, CallChanges, ZenonT(30) DEF Publish, Protected
  <1>3. CASE UNCHANGED <<program, events>> /\ mishaps' \in {mishaps, mishaps \cup {"missed"}}
    BY <1>1, <1>3, CallEnds
  <1> QED
    BY <1>2, <1>3 DEF Publish, Missed

LEMMA ProtectProgramStep ==
    ASSUME IInv, NEW s \in Stacks, ProtectProgram(s)
    PROVE  IInv'
  <1>1. /\ UNCHANGED <<view, task, served, stack, store, template, pod, synced, deployed, restarts,
                       mishaps>>
        /\ actor[s].at = "resolved" /\ Exists(s)
    BY DEF ProtectProgram, loop, IInv, Busy, Exists
  <1>2. CASE /\ Fine \/ Missed
             /\ UNCHANGED <<program, events>> /\ (Done(s) \/ Retry(s))
    <2>1. /\ actor' \in [Stacks -> Actor] /\ wake' \in [Stacks -> BOOLEAN]
          /\ actor'[s].at = "idle" /\ \A t \in Stacks : t # s => actor'[t] = actor[t]
          /\ faults' \in 0 .. MaxFaults
      BY <1>2, EndTypes, Counting DEF IInv
    <2>2. TypeOK'
      BY <1>1, <1>2, <2>1 DEF IInv, TypeOK, Template
    <2>3. Busy'
      BY <1>1, <2>1 DEF IInv, Busy, Exists
    <2> QED
      BY <1>1, <1>2, <2>1, <2>2, <2>3, StackStep DEF Exists
  <1>3. ASSUME Goto(s, "protected", actor[s].commit), UNCHANGED wake, Fine
        PROVE  /\ actor' \in [Stacks -> Actor]
               /\ \A t \in Stacks : actor'[t] = actor[t] \/ t = s
               /\ faults' \in 0 .. MaxFaults /\ Busy'
    <2>1. actor[s].commit \in {0} \cup Generation
      BY DEF IInv, TypeOK, Template, Actor
    <2>2. /\ actor' \in [Stacks -> Actor] /\ actor'[s].at = "protected"
          /\ \A t \in Stacks : t # s => actor'[t] = actor[t]
      BY <1>3, <2>1, GotoTypes DEF IInv
    <2>3. Busy'
      BY <1>1, <2>2 DEF IInv, Busy, Exists
    <2> QED
      BY <1>3, <2>2, <2>3, Counting DEF IInv
  <1>4. CASE /\ program.state # "absent" /\ program.finalizer /\ UNCHANGED <<program, events>>
             /\ Goto(s, "protected", actor[s].commit) /\ UNCHANGED wake /\ Fine
    <2>1. TypeOK'
      BY <1>1, <1>3, <1>4 DEF IInv, TypeOK, Template
    <2>2. Numbered' /\ Published'
      BY <1>1, <1>4 DEF IInv, Numbered, Published, Untouched
    <2>3. Protected /\ Protected'
      BY <1>4 DEF Protected
    <2>4. Protection'
      BY <1>1, <2>3 DEF IInv, Protection, Exists
    <2> QED
      BY <1>3, <1>4, <2>1, <2>2, <2>4 DEF IInv
  <1>5. CASE /\ program.state = "present" /\ Becomes([program EXCEPT !.finalizer = TRUE])
             /\ Goto(s, "protected", actor[s].commit) /\ UNCHANGED wake /\ Fine
    <2> DEFINE p == [program EXCEPT !.finalizer = TRUE]
    <2>1. /\ p \in Program /\ p.state = "present" /\ p.finalizer
          /\ p.generation = program.generation /\ p.artifact = program.artifact
      BY <1>5, Changes DEF IInv, TypeOK, Template
    <2>2. Becomes(p) /\ program.state = "present"
      BY <1>5
    <2> HIDE DEF p
    <2>3. program' \in Program /\ events' \in Seq(Program)
      BY <2>1, <2>2, BecomesTypes DEF IInv, TypeOK, Template
    <2>4. TypeOK'
      BY <1>1, <1>3, <1>5, <2>3 DEF IInv, TypeOK, Template
    <2>5. p.generation \in Generation /\ p.generation <= MaxGeneration
      BY <2>1, <2>2 DEF IInv, Numbered
    <2> QED
      BY <1>1, <1>3, <1>5, <2>1, <2>2, <2>4, <2>5, ObjectStep
  <1> QED
    BY <1>2, <1>4, <1>5 DEF ProtectProgram, Missed

\* What the object's owners do to it.
LEMMA OwnerSteps ==
    ASSUME IInv, CreateProgram \/ EditProgram \/ DeleteProgram
    PROVE  IInv'
  <1>1. UNCHANGED <<view, task, served, stack, store, wake, actor, template, pod, synced, deployed,
                    faults, restarts, mishaps>>
    BY DEF CreateProgram, EditProgram, DeleteProgram, loop, stacks
  <1>2. PICK p \in Program :
           /\ Becomes(p)
           /\ p.generation \in Generation /\ (p.state = "present" => p.generation <= MaxGeneration)
           /\ program.state = "absent" => program.generation = 0
           /\ p.artifact \in {0, program.artifact}
           /\ Protected => p.state # "absent" /\ p.finalizer
    <2>0. program \in Program
      BY DEF IInv, TypeOK, Template
    <2>1. CASE CreateProgram
      <3> DEFINE p == [NoProgram EXCEPT !.state = "present", !.generation = 1]
      <3>1. ~Protected
        BY <2>1, Constants DEF CreateProgram, IInv, Numbered, Protected
      <3>2. Becomes(p) /\ program.generation = 0
        BY <2>1 DEF CreateProgram
      <3>3. p \in Program /\ p.generation = 1 /\ p.artifact = 0
        BY NewProgram
      <3> HIDE DEF p
      <3> QED
        BY <3>1, <3>2, <3>3, Constants
    <2>2. ASSUME program.state = "present"
          PROVE  program.generation \in Generation /\ program.generation <= MaxGeneration
      BY <2>2 DEF IInv, Numbered
    <2>3. CASE EditProgram
      <3> DEFINE p == [program EXCEPT !.generation = @ + 1]
      <3>1. Becomes(p) /\ program.state = "present" /\ program.generation < MaxGeneration
        BY <2>3 DEF EditProgram
      <3>2. /\ p \in Program /\ p.generation = program.generation + 1
            /\ p.generation \in Generation /\ p.state = program.state
            /\ p.finalizer = program.finalizer /\ p.artifact = program.artifact
        BY <2>0, <2>2, <3>1, NextGeneration
      <3>3. p.generation <= MaxGeneration
        BY <2>2, <3>1, <3>2, Constants
      <3> HIDE DEF p
      <3> QED
        BY <3>1, <3>2, <3>3 DEF Protected
    <2>4. CASE DeleteProgram /\ program.finalizer
      <3> DEFINE p == [program EXCEPT !.state = "deleting", !.generation = @ + 1]
      <3>1. Becomes(p) /\ program.state = "present"
        BY <2>4 DEF DeleteProgram
      <3>2. /\ p \in Program /\ p.generation = program.generation + 1
            /\ p.generation \in Generation /\ p.state = "deleting"
            /\ p.finalizer = program.finalizer /\ p.artifact = program.artifact
        BY <2>0, <2>2, <3>1, NextGeneration
      <3> HIDE DEF p
      <3> QED
        BY <3>1, <3>2 DEF Protected
    <2>5. CASE DeleteProgram /\ ~program.finalizer
      <3> DEFINE p == [program EXCEPT !.state = "absent"]
      <3>1. Becomes(p) /\ program.state = "present"
        BY <2>5 DEF DeleteProgram
      <3>2. /\ p \in Program /\ p.generation = program.generation /\ p.state = "absent"
            /\ p.artifact = program.artifact
        BY <2>0 DEF Program
      <3> HIDE DEF p
      <3> QED
        BY <2>2, <2>5, <3>1, <3>2 DEF Protected
    <2> QED
      BY <2>1, <2>3, <2>4, <2>5
  <1>3. program' \in Program /\ events' \in Seq(Program)
    BY <1>2, BecomesTypes DEF IInv, TypeOK, Template
  <1>4. TypeOK'
    BY <1>1, <1>3 DEF IInv, TypeOK, Template
  <1>5. Busy'
    BY <1>1 DEF IInv, Busy, Exists
  <1>6. \A s \in Stacks : actor'[s].at = "protected" => actor[s].at = "protected"
    BY <1>1
  <1> QED
    BY <1>1, <1>2, <1>4, <1>5, <1>6, ObjectStep

LEMMA ReceiveStep ==
    ASSUME IInv, Receive
    PROVE  IInv'
  <1> DEFINE p == Head(events)
  <1>1. /\ UNCHANGED <<program, stack, store, wake, actor, template, pod, synced, deployed, faults,
                       restarts>>
        /\ events # <<>> /\ events' = Tail(events)
    BY DEF Receive, stacks
  <1>2. /\ p \in Program /\ events' \in Seq(Program) /\ p = events[1]
        /\ Len(events) \in Nat /\ Len(events) >= 1 /\ Len(events') = Len(events) - 1
        /\ \A i \in 1 .. Len(events') : events'[i] = events[i + 1]
                                        /\ i + 1 \in 1 .. Len(events)
    BY <1>1, TakenTypes DEF IInv, TypeOK, Template
  <1>3. view' = NoProgram \/ view' = p
    BY DEF Receive
  <1>4. p.generation \in Generation
    BY <1>2 DEF IInv, Numbered
  <1>5. p.state = "absent" => ProgramDeleted(p)
    BY DEF Receive
  <1>6. p.state # "absent" => ReconcileProgram(p)
    BY DEF Receive
  <1> HIDE DEF p
  <1>7. ASSUME p.state # "absent"
        PROVE  /\ task' \in Task
               /\ task'.call # "none" => task'.call = ProgramAction(p, store)
               /\ task'.call = "publish" => /\ served' = served \cup {p.generation}
                                            /\ task'.generation = p.generation
               /\ served' \in {served, served \cup {p.generation}}
               /\ mishaps' \in {mishaps, mishaps \cup {"uncounted"}}
               /\ task'.call = "remove" /\ "uncounted" \notin mishaps' =>
                     \A s \in Stacks \ store : ~Exists(s)
    <2> DEFINE call == ProgramAction(p, store)
    <2>1. call \in {"none", "add", "remove", "publish"}
      BY DEF ProgramAction
    <2>2. ReconcileProgram(p)
      BY <1>6, <1>7
    <2>3. CASE call = "none"
      <3>1. task' = NoTask
        BY <2>2, <2>3 DEF ReconcileProgram
      <3>2. served' = served /\ mishaps' = mishaps
        BY <2>2, <2>3 DEF ReconcileProgram
      <3> QED
        BY <3>1, <3>2, Records
    <2>4. CASE call # "none"
      <3>1. task' = [call |-> call, generation |-> p.generation]
        BY <2>2, <2>4 DEF ReconcileProgram
      <3>2. task' \in Task /\ task'.call = call /\ task'.generation = p.generation
        BY <1>4, <2>1, <3>1 DEF Task
      <3>3. IF call = "publish" THEN served' = served \cup {p.generation} ELSE served' = served
        BY <2>2 DEF ReconcileProgram, Build
      <3>4. mishaps' = IF call = "remove" /\ \E s \in Stacks \ store : Exists(s)
                       THEN mishaps \cup {"uncounted"} ELSE mishaps
        BY <2>2 DEF ReconcileProgram
      <3> HIDE DEF call
      <3>5. served' \in {served, served \cup {p.generation}}
        BY <3>3
      <3>6. mishaps' \in {mishaps, mishaps \cup {"uncounted"}}
        BY <3>4
      <3>7. call = "remove" /\ "uncounted" \notin mishaps' => \A s \in Stacks \ store : ~Exists(s)
        BY <3>4
      <3> QED
        BY <3>2, <3>3, <3>5, <3>6, <3>7 DEF call
    <2> QED
      BY <2>3, <2>4
  <1>8. p.state = "absent" => served' \subseteq served /\ task' = task /\ mishaps' = mishaps
    BY <1>5 DEF ProgramDeleted
  <1>9. TypeOK'
    <2>1. served' \subseteq Generation /\ task' \in Task /\ mishaps' \subseteq Mishap
      BY <1>4, <1>7, <1>8 DEF IInv, TypeOK, Template, Mishap
    <2> QED
      BY <1>1, <1>2, <1>3, <2>1, Records DEF IInv, TypeOK, Template
  <1>10. Numbered'
    BY <1>1, <1>2 DEF IInv, Numbered
  <1>11. Busy'
    BY <1>1 DEF IInv, Busy, Exists
  <1>12. Published'
    <2> SUFFICES ASSUME Untouched'
                 PROVE  /\ program'.artifact \in {0} \cup served'
                        /\ view'.artifact \in {0} \cup served'
                        /\ task'.call = "publish" => task'.generation \in served'
                        /\ \A i \in 1 .. Len(events') :
                              events'[i].state # "absent"
                              /\ events'[i].artifact \in {0} \cup served'
                        /\ \A s \in Stacks :
                              template'[s] \in Generation => template'[s] \in served'
      BY DEF Published
    <2>1. Untouched
      BY <1>1, <1>7, <1>8 DEF Untouched
    <2>2. p.state # "absent" /\ p.artifact \in {0} \cup served
      BY <1>2, <2>1 DEF IInv, Published
    <2>3. served \subseteq served'
      BY <1>7, <2>2
    <2>4. view'.artifact \in {0} \cup served'
      BY <1>3, <2>2, <2>3, Records
    <2>5. task'.call = "publish" => task'.generation \in served'
      BY <1>7, <2>2
    <2>6. \A i \in 1 .. Len(events') :
             events'[i].state # "absent" /\ events'[i].artifact \in {0} \cup served'
      BY <1>2, <2>1, <2>3 DEF IInv, Published
    <2> QED
      BY <1>1, <2>1, <2>3, <2>4, <2>5, <2>6 DEF IInv, Published
  <1>13. Protection'
    <2> SUFFICES ASSUME "uncounted" \notin mishaps'
                 PROVE  /\ task'.call = "remove" => \A s \in Stacks : ~Exists(s)
                        /\ \A s \in Stacks : actor[s].at = "protected" => Protected
                        /\ \A s \in Stacks : Exists(s) /\ deployed[s] # 0 => Protected
      BY <1>1 DEF Protection, Protected, Exists
    <2>1. "uncounted" \notin mishaps
      BY <1>7, <1>8
    <2>2. CASE p.state = "absent"
      BY <1>8, <2>1, <2>2 DEF IInv, Protection
    <2>3. CASE p.state # "absent"
      <3>1. ProgramAction(p, store) = "remove" => store = {}
        BY DEF ProgramAction
      <3>2. task'.call = "remove" => \A s \in Stacks : ~Exists(s)
        BY <1>7, <2>3, <3>1
      <3> QED
        BY <2>1, <3>2 DEF IInv, Protection
    <2> QED
      BY <2>2, <2>3
  <1> QED
    BY <1>9, <1>10, <1>11, <1>12, <1>13 DEF IInv

LEMMA RestartStep ==
    ASSUME IInv, Restart
    PROVE  IInv'
  <1>1. /\ UNCHANGED <<program, stack, template, pod, synced, deployed, faults>>
        /\ view' = NoProgram /\ task' = NoTask /\ served' = {} /\ store' = {}
        /\ wake' = [s \in Stacks |-> FALSE] /\ actor' = [s \in Stacks |-> Idle]
        /\ "restart" \in mishaps' /\ mishaps \subseteq mishaps'
    BY DEF Restart
  <1>2. events' \in Seq(Program) /\ \A i \in 1 .. Len(events') : events'[i].generation \in Generation
    <2>1. CASE program.state = "absent"
      BY <2>1 DEF Restart
    <2>2. CASE program.state # "absent"
      <3>1. events' = <<program>> /\ program \in Program /\ program.generation \in Generation
        BY <2>2 DEF Restart, IInv, TypeOK, Template, Numbered
      <3> QED
        BY <3>1
    <2> QED
      BY <2>1, <2>2
  <1>3. restarts' \in 0 .. MaxRestarts /\ mishaps' \subseteq Mishap
    BY Constants DEF Restart, IInv, TypeOK, Template, Mishap
  <1>4. TypeOK'
    BY <1>1, <1>2, <1>3, Records DEF IInv, TypeOK, Template
  <1>5. Numbered'
    BY <1>1, <1>2 DEF IInv, Numbered
  <1>6. Published'
    BY <1>1 DEF Published, Untouched
  <1>7. Busy'
    BY <1>1, Records DEF IInv, Busy, Exists
  <1>8. Protection'
    BY <1>1, Records DEF IInv, Protection, Protected, Exists
  <1> QED
    BY <1>4, <1>5, <1>6, <1>7, <1>8 DEF IInv

---------------------------------------------------------------------------
(* The invariant, and what follows from it. *)

LEMMA InitIInv == Init => IInv
  <1> SUFFICES ASSUME Init PROVE IInv
    OBVIOUS
  <1>1. /\ 0 \in 0 .. MaxFaults /\ 0 \in 0 .. MaxRestarts
        /\ \A s \in Stacks : actor[s] = Idle /\ stack[s] = "none" /\ template[s] = Nothing
                             /\ synced[s] = 0 /\ deployed[s] = 0
        /\ Nothing \notin Generation
    BY Constants DEF Init, Nothing
  <1>2. TypeOK
    BY <1>1, Records DEF Init, TypeOK, Template
  <1>3. Numbered /\ Published
    BY <1>1, Records DEF Init, Numbered, Published
  <1>4. Busy /\ Protection
    BY <1>1, Records DEF Init, Busy, Protection, Exists
  <1> QED
    BY <1>2, <1>3, <1>4 DEF IInv

LEMMA IInvStep == IInv /\ [Next]_vars => IInv'
  <1> SUFFICES ASSUME IInv, [Next]_vars PROVE IInv'
    OBVIOUS
  <1>1. CASE Loop
    BY <1>1, ReceiveStep, AddFinalizerStep, RemoveFinalizerStep, PublishStep DEF Loop
  <1>2. CASE CreateProgram \/ EditProgram \/ DeleteProgram
    BY <1>2, OwnerSteps
  <1>3. CASE Restart
    BY <1>3, RestartStep
  <1>4. ASSUME NEW s \in Stacks, Reconcile(s) PROVE IInv'
    BY <1>4, ResolveStep, ProtectProgramStep, SyncedStep, DeployStep, DestroyStep DEF Reconcile
  <1>5. ASSUME NEW s \in Stacks, PodFetches(s) \/ PodReplaced(s) \/ PodEvicted(s) PROVE IInv'
    BY <1>5, PodSteps
  <1>6. ASSUME NEW s \in Stacks, CreateStack(s) \/ DeleteStack(s) \/ SyncStore(s) PROVE IInv'
    BY <1>6, LifeSteps
  <1>7. CASE UNCHANGED vars
    BY <1>7 DEF vars, IInv, TypeOK, Template, Numbered, Published, Untouched, Busy, Protection, Protected,
                Exists
  <1> QED
    BY <1>1, <1>2, <1>3, <1>4, <1>5, <1>6, <1>7 DEF Next

LEMMA Invariance == Spec => []IInv
  <1> QED
    BY InitIInv, IInvStep, PTL DEF Spec

\* The type invariant holds.
THEOREM TypeCorrect == Spec => []TypeOK
  <1>1. IInv => TypeOK
    BY DEF IInv
  <1> QED
    BY <1>1, Invariance, PTL

\* Until a restart, what the workspaces' templates name is served while the Program exists.
THEOREM ServedWhileThere == Spec => []TemplatesServed
  <1>1. IInv => TemplatesServed
    BY DEF IInv, Published, Untouched, TemplatesServed
  <1> QED
    BY <1>1, Invariance, PTL

\* A Program that an Update has run does not go, unless a Stack was not counted.
THEOREM NotGoneInUse == Spec => GoneUnused
  <1>1. IInv /\ [Next]_vars =>
          [program.state # "absent" /\ program'.state = "absent" =>
              "uncounted" \in mishaps \/ \A s \in Stacks : Exists(s) => deployed[s] = 0]_vars
    <2> SUFFICES ASSUME IInv, [Next]_vars, program.state # "absent", program'.state = "absent",
                        "uncounted" \notin mishaps, NEW s \in Stacks, Exists(s)
                 PROVE  deployed[s] = 0
      BY DEF Exists
    <2>1. RemoveFinalizer \/ (DeleteProgram /\ ~program.finalizer)
      <3>1. program \in Program /\ program' # program
        BY DEF IInv, TypeOK, Template
      <3>2. CASE AddFinalizer
        BY <3>1, <3>2, Changes DEF AddFinalizer, Becomes, Missed
      <3>3. CASE Publish
        <4>1. task.generation \in {0} \cup Generation
          BY DEF IInv, TypeOK, Template, Task
        <4> QED
          BY <3>1, <3>3, <4>1, Publication, ZenonT(30) DEF Publish, Becomes, Missed
      <3>4. ASSUME NEW t \in Stacks, ProtectProgram(t) PROVE FALSE
        BY <3>1, <3>4, Changes, ZenonT(30) DEF ProtectProgram, Becomes, Missed
      <3>5. ~EditProgram /\ ~CreateProgram
        BY <3>1, NewProgram DEF EditProgram, CreateProgram, Becomes, Program
      <3>6. DeleteProgram => ~program.finalizer
        <4> SUFFICES ASSUME DeleteProgram, program.finalizer PROVE FALSE
          OBVIOUS
        <4>1. program.generation \in Generation /\ program.generation <= MaxGeneration
          BY DEF DeleteProgram, IInv, Numbered
        <4>2. program' = [program EXCEPT !.state = "deleting", !.generation = @ + 1]
          BY DEF DeleteProgram, Becomes
        <4> QED
          BY <3>1, <4>1, <4>2, NextGeneration
      <3>7. ~Receive /\ ~Restart
        BY <3>1 DEF Receive, Restart
      <3>8. ASSUME NEW t \in Stacks,
                   \/ Resolve(t) \/ Synced(t) \/ Deploy(t) \/ Destroy(t)
                   \/ PodFetches(t) \/ PodReplaced(t) \/ PodEvicted(t)
                   \/ CreateStack(t) \/ DeleteStack(t) \/ SyncStore(t)
            PROVE  FALSE
        BY <3>1, <3>8 DEF Resolve, Synced, Deploy, Destroy, PodFetches, PodReplaced, PodEvicted,
                          CreateStack, DeleteStack, SyncStore
      <3>9. ~UNCHANGED vars
        BY <3>1 DEF vars
      <3> QED
        BY <3>2, <3>3, <3>4, <3>5, <3>6, <3>7, <3>8, <3>9 DEF Next, Loop, Reconcile
    <2>2. CASE RemoveFinalizer
      BY <2>2 DEF RemoveFinalizer, IInv, Protection
    <2>3. CASE DeleteProgram /\ ~program.finalizer
      BY <2>3 DEF IInv, Protection, Protected
    <2> QED
      BY <2>1, <2>2, <2>3
  <1> QED
    BY <1>1, Invariance, PTL DEF Spec, GoneUnused

---------------------------------------------------------------------------
(* The order of revisions. *)

(* Why no Stack goes back.  Revisions only grow along the way they take: what a Stack has  *)
(* deployed, the commit its reconcile resolved, the artifact the store knows, those of the *)
(* events on their way, in their order, the artifact of the object.  It grows as well: the *)
(* generation the loop is about to publish is that of an event taken since the last one    *)
(* was published, and those to come are of later generations.                              *)

\* What is published or on its way is no older than this.
Behind(a) == /\ a <= program.artifact
             /\ \A i \in 1 .. Len(events) : a <= events[i].artifact

Ordered ==
    /\ program.artifact <= program.generation
    /\ Behind(view.artifact)
    /\ task.call = "publish" =>
           program.artifact <= task.generation /\ task.generation <= program.generation
    /\ \A i \in 1 .. Len(events) :
          /\ program.artifact <= events[i].generation /\ events[i].generation <= program.generation
          /\ events[i].artifact <= program.artifact
          /\ task.call = "publish" => task.generation <= events[i].generation
          /\ \A j \in 1 .. i : /\ events[j].generation <= events[i].generation
                               /\ events[j].artifact <= events[i].artifact

Underway(s) == actor[s].at \in {"resolved", "protected"}
Seen(a)     == Behind(a) /\ (view.artifact # 0 => a <= view.artifact)

Followed == \A s \in Stacks :
    /\ Seen(synced[s])
    /\ Underway(s) => synced[s] <= actor[s].commit /\ Seen(actor[s].commit)

\* What is seen stays seen.
KeepsOrder == Ordered' /\ \A a \in Nat : Seen(a) => Seen(a)'

LEMMA Revisions ==
    ASSUME TypeOK
    PROVE  /\ program.artifact \in Nat /\ program.generation \in Nat
           /\ view.artifact \in Nat /\ task.generation \in Nat
           /\ Len(events) \in Nat
           /\ \A i \in 1 .. Len(events) : events[i] \in Program
           /\ \A p \in Program : p.artifact \in Nat /\ p.generation \in Nat
           /\ \A s \in Stacks : synced[s] \in Nat /\ actor[s].commit \in Nat
  <1>1. {0} \cup Generation \subseteq Nat
    BY Constants
  <1>2. \A p \in Program : p.artifact \in Nat /\ p.generation \in Nat
    BY <1>1 DEF Program
  <1>3. \A s \in Stacks : synced[s] \in Nat /\ actor[s].commit \in Nat
    BY <1>1 DEF TypeOK, Actor
  <1>4. program \in Program /\ view \in Program /\ events \in Seq(Program)
        /\ task.generation \in Nat
    BY <1>1 DEF TypeOK, Task
  <1> QED
    BY <1>2, <1>3, <1>4

LEMMA SameOrder ==
    ASSUME Ordered, UNCHANGED <<program, events, view>>, task' \in {task, NoTask}
    PROVE  KeepsOrder
  <1>1. task' = task \/ task'.call # "publish"
    BY Records
  <1>2. Ordered'
    BY <1>1 DEF Ordered, Behind
  <1> QED
    BY <1>2 DEF KeepsOrder, Seen, Behind

LEMMA NewerOrder ==
    ASSUME IInv, Ordered, NEW p \in Program, Becomes(p), view' = view, task' \in {task, NoTask},
           p.generation >= program.generation,
           \/ p.artifact = program.artifact
           \/ task.call = "publish" /\ p.artifact = task.generation /\ task' = NoTask
    PROVE  KeepsOrder
  <1>1. /\ program' = p /\ Len(events') = Len(events) + 1 /\ Len(events) \in Nat
        /\ \A i \in 1 .. Len(events) : events'[i] = events[i]
        /\ events'[Len(events) + 1] = p
    BY BecomesTypes DEF IInv, TypeOK
  <1>2. \A i \in 1 .. Len(events') :
           \/ i \in 1 .. Len(events) /\ events'[i] = events[i]
           \/ i = Len(events) + 1 /\ events'[i] = p
    BY <1>1
  <1>3. /\ program.artifact \in Nat /\ program.generation \in Nat /\ task.generation \in Nat
        /\ p.artifact \in Nat /\ p.generation \in Nat /\ view.artifact \in Nat
        /\ \A i \in 1 .. Len(events) : events[i].artifact \in Nat /\ events[i].generation \in Nat
    BY Revisions DEF IInv
  <1>4. task' = task \/ task'.call # "publish"
    BY Records
  <1>5. program.artifact <= p.artifact /\ p.artifact <= program.generation
    BY <1>3 DEF Ordered
  <1>6. \A i \in 1 .. Len(events) : p.artifact <= events[i].generation
    BY <1>3 DEF Ordered
  <1>7. ASSUME NEW a \in Nat, Behind(a) PROVE Behind(a)'
    <2>1. a <= program.artifact /\ \A i \in 1 .. Len(events) : a <= events[i].artifact
      BY <1>7 DEF Behind
    <2>2. a <= p.artifact
      BY <1>3, <1>5, <2>1
    <2>3. a <= program'.artifact /\ \A i \in 1 .. Len(events') : a <= events'[i].artifact
      BY <1>1, <1>2, <2>1, <2>2
    <2> QED
      BY <2>3 DEF Behind
  <1>8. Ordered'
    <2>1. program'.artifact <= program'.generation
      BY <1>1, <1>3, <1>5
    <2>2. Behind(view.artifact)'
      BY <1>3, <1>7 DEF Ordered
    <2>3. task'.call = "publish" =>
             program'.artifact <= task'.generation /\ task'.generation <= program'.generation
      BY <1>1, <1>3, <1>4, Records DEF Ordered
    <2>4. ASSUME NEW i \in 1 .. Len(events')
          PROVE  /\ program'.artifact <= events'[i].generation
                 /\ events'[i].generation <= program'.generation
                 /\ events'[i].artifact <= program'.artifact
                 /\ task'.call = "publish" => task'.generation <= events'[i].generation
      <3>1. CASE i \in 1 .. Len(events)
        BY <1>1, <1>3, <1>4, <1>5, <1>6, <3>1, SMTT(30) DEF Ordered
      <3>2. CASE i = Len(events) + 1
        BY <1>1, <1>3, <1>4, <1>5, <3>2 DEF Ordered
      <3> QED
        BY <1>2, <3>1, <3>2
    <2>5. ASSUME NEW i \in 1 .. Len(events'), NEW j \in 1 .. i
          PROVE  /\ events'[j].generation <= events'[i].generation
                 /\ events'[j].artifact <= events'[i].artifact
      <3>1. CASE i \in 1 .. Len(events)
        <4>1. j \in 1 .. Len(events)
          BY <1>1, <3>1
        <4> QED
          BY <1>1, <3>1, <4>1 DEF Ordered
      <3>2. CASE i = Len(events) + 1 /\ j \in 1 .. Len(events)
        BY <1>1, <1>3, <1>5, <3>2, SMTT(30) DEF Ordered
      <3>3. CASE i = Len(events) + 1 /\ j = i
        BY <1>1, <1>3, <3>3
      <3> QED
        BY <1>1, <1>2, <3>1, <3>2, <3>3
    <2> QED
      BY <2>1, <2>2, <2>3, <2>4, <2>5 DEF Ordered
  <1> QED
    BY <1>7, <1>8 DEF KeepsOrder, Seen

LEMMA ReceiveOrder == ASSUME IInv, Ordered, Receive PROVE KeepsOrder
  <1> DEFINE p == Head(events)
  <1>1. program' = program /\ events # <<>> /\ events' = Tail(events)
    BY DEF Receive
  <1>2. /\ p \in Program /\ p = events[1] /\ Len(events) \in Nat /\ 1 \in 1 .. Len(events)
        /\ Len(events') = Len(events) - 1
        /\ \A i \in 1 .. Len(events') : events'[i] = events[i + 1]
                                        /\ i + 1 \in 1 .. Len(events)
    BY <1>1, TakenTypes DEF IInv, TypeOK
  <1>3. view' = NoProgram \/ view' = p
    BY DEF Receive
  <1>4. task = NoTask /\ (task'.call = "publish" => task'.generation = p.generation)
    <2>1. CASE p.state = "absent"
      BY <2>1, Records DEF Receive, ProgramDeleted
    <2>2. CASE p.state # "absent"
      <3>1. ReconcileProgram(p)
        BY <2>2 DEF Receive
      <3>2. \/ task' = NoTask
            \/ task' = [call |-> ProgramAction(p, store), generation |-> p.generation]
        BY <3>1 DEF ReconcileProgram
      <3> HIDE DEF p
      <3> QED
        BY <3>2, Records DEF Receive
    <2> QED
      BY <2>1, <2>2
  <1> HIDE DEF p
  <1>5. /\ program.artifact \in Nat /\ view.artifact \in Nat /\ p.artifact \in Nat
        /\ \A i \in 1 .. Len(events) : events[i].artifact \in Nat /\ events[i].generation \in Nat
    BY <1>2, Revisions DEF IInv
  <1>6. ASSUME NEW a \in Nat, Behind(a) PROVE Behind(a)' /\ a <= p.artifact
    BY <1>1, <1>2, <1>6 DEF Behind
  <1>7. view'.artifact <= program'.artifact
        /\ \A i \in 1 .. Len(events') : view'.artifact <= events'[i].artifact
    <2>1. \A i \in 1 .. Len(events) : p.artifact <= events[i].artifact
      BY <1>2 DEF Ordered
    <2>2. p.artifact <= program.artifact
      BY <1>2 DEF Ordered
    <2>3. view'.artifact = 0 \/ view'.artifact = p.artifact
      BY <1>3, Records
    <2>4. \A i \in 1 .. Len(events') : /\ p.artifact <= events'[i].artifact
                                       /\ events'[i].artifact \in Nat
      BY <1>2, <1>5, <2>1
    <2>5. CASE view'.artifact = 0
      BY <1>1, <1>5, <2>4, <2>5
    <2>6. CASE view'.artifact = p.artifact
      BY <1>1, <2>2, <2>4, <2>6
    <2> QED
      BY <2>3, <2>5, <2>6
  <1>8. Ordered'
    <2>1. Behind(view.artifact)'
      BY <1>7 DEF Behind
    <2>2. task'.call = "publish" =>
             program'.artifact <= task'.generation /\ task'.generation <= program'.generation
      BY <1>1, <1>2, <1>4 DEF Ordered
    <2>3. ASSUME NEW i \in 1 .. Len(events')
          PROVE  /\ program'.artifact <= events'[i].generation
                 /\ events'[i].generation <= program'.generation
                 /\ events'[i].artifact <= program'.artifact
                 /\ task'.call = "publish" => task'.generation <= events'[i].generation
      <3>1. events'[i] = events[i + 1] /\ i + 1 \in 1 .. Len(events) /\ 1 \in 1 .. i + 1
        BY <1>2
      <3>2. p.generation <= events[i + 1].generation
        BY <1>2, <3>1 DEF Ordered
      <3> QED
        BY <1>1, <1>4, <3>1, <3>2 DEF Ordered
    <2>4. ASSUME NEW i \in 1 .. Len(events'), NEW j \in 1 .. i
          PROVE  /\ events'[j].generation <= events'[i].generation
                 /\ events'[j].artifact <= events'[i].artifact
      <3>1. j \in 1 .. Len(events') /\ j + 1 \in 1 .. i + 1
        BY <1>2
      <3>2. /\ events'[i] = events[i + 1] /\ i + 1 \in 1 .. Len(events)
            /\ events'[j] = events[j + 1]
        BY <1>2, <3>1
      <3> QED
        BY <3>1, <3>2 DEF Ordered
    <2>5. program'.artifact <= program'.generation
      BY <1>1 DEF Ordered
    <2> QED
      BY <2>1, <2>2, <2>3, <2>4, <2>5 DEF Ordered
  <1>9. ASSUME NEW a \in Nat, Seen(a) PROVE Seen(a)'
    BY <1>3, <1>6, <1>9, Records DEF Seen
  <1> QED
    BY <1>8, <1>9 DEF KeepsOrder

LEMMA RestartOrder == ASSUME IInv, Ordered, Restart PROVE KeepsOrder
  <1>1. /\ program' = program /\ view'.artifact = 0 /\ task'.call = "none"
    BY Records DEF Restart
  <1>2. program.artifact \in Nat /\ program.generation \in Nat
    BY Revisions DEF IInv
  <1>3. \A i \in 1 .. Len(events') : events'[i] = program /\ i = 1
    <2>1. CASE events' = <<>>
      BY <2>1
    <2>2. CASE events' = <<program>>
      BY <2>2
    <2> QED
      BY <2>1, <2>2 DEF Restart
  <1>4. ASSUME NEW a \in Nat, a <= program.artifact PROVE Behind(a)'
    BY <1>1, <1>3, <1>4 DEF Behind
  <1>5. Ordered'
    <2>1. Behind(view.artifact)'
      BY <1>1, <1>2, <1>4
    <2>2. program.artifact <= program.generation
      BY DEF Ordered
    <2> QED
      BY <1>1, <1>2, <1>3, <2>1, <2>2 DEF Ordered
  <1> QED
    BY <1>1, <1>4, <1>5 DEF KeepsOrder, Seen, Behind

LEMMA OwnersOrder ==
    ASSUME IInv, Ordered, CreateProgram \/ EditProgram \/ DeleteProgram
    PROVE  KeepsOrder
  <1>1. view' = view /\ task' = task /\ program \in Program
    BY DEF CreateProgram, EditProgram, DeleteProgram, loop, IInv, TypeOK
  <1>2. program.generation \in Nat /\ program.artifact \in Nat
    BY Revisions DEF IInv
  <1>3. ASSUME program.state = "present"
        PROVE  program.generation \in Generation /\ program.generation <= MaxGeneration
    BY <1>3 DEF IInv, Numbered
  <1>4. CASE CreateProgram
    <2> DEFINE p == [NoProgram EXCEPT !.state = "present", !.generation = 1]
    <2>1. p \in Program /\ p.generation = 1 /\ p.artifact = 0
      BY NewProgram
    <2>2. Becomes(p) /\ program.generation = 0
      BY <1>4 DEF CreateProgram
    <2>3. program.artifact = 0
      BY <1>2, <2>2 DEF Ordered
    <2> HIDE DEF p
    <2> QED
      BY <1>1, <2>1, <2>2, <2>3, NewerOrder
  <1>5. CASE EditProgram
    <2> DEFINE p == [program EXCEPT !.generation = @ + 1]
    <2>1. Becomes(p) /\ program.state = "present"
      BY <1>5 DEF EditProgram
    <2>2. p \in Program /\ p.generation = program.generation + 1 /\ p.artifact = program.artifact
      BY <1>1, <1>3, <2>1, NextGeneration
    <2> HIDE DEF p
    <2> QED
      BY <1>1, <1>2, <2>1, <2>2, NewerOrder
  <1>6. CASE DeleteProgram /\ program.finalizer
    <2> DEFINE p == [program EXCEPT !.state = "deleting", !.generation = @ + 1]
    <2>1. Becomes(p) /\ program.state = "present"
      BY <1>6 DEF DeleteProgram
    <2>2. p \in Program /\ p.generation = program.generation + 1 /\ p.artifact = program.artifact
      BY <1>1, <1>3, <2>1, NextGeneration
    <2> HIDE DEF p
    <2> QED
      BY <1>1, <1>2, <2>1, <2>2, NewerOrder
  <1>7. CASE DeleteProgram /\ ~program.finalizer
    <2> DEFINE p == [program EXCEPT !.state = "absent"]
    <2>1. Becomes(p)
      BY <1>7 DEF DeleteProgram
    <2>2. p \in Program /\ p.generation = program.generation /\ p.artifact = program.artifact
      BY <1>1 DEF Program
    <2> HIDE DEF p
    <2> QED
      BY <1>1, <1>2, <2>1, <2>2, NewerOrder
  <1> QED
    BY <1>4, <1>5, <1>6, <1>7

\* The finalizer and the status are patches of the object as it is.
LEMMA PatchOrder ==
    ASSUME IInv, Ordered,
           AddFinalizer \/ RemoveFinalizer \/ Publish \/ \E s \in Stacks : ProtectProgram(s)
    PROVE  KeepsOrder
  <1>1. view' = view /\ task' \in {task, NoTask} /\ program \in Program
    BY DEF AddFinalizer, RemoveFinalizer, Publish, ProtectProgram, loop, IInv, TypeOK
  <1>2. program.generation \in Nat /\ program.artifact \in Nat
    BY Revisions DEF IInv
  <1>3. CASE UNCHANGED <<program, events>>
    BY <1>1, <1>3, SameOrder
  <1>4. CASE Becomes([program EXCEPT !.finalizer = TRUE])
    <2> DEFINE p == [program EXCEPT !.finalizer = TRUE]
    <2>1. p \in Program /\ p.generation = program.generation /\ p.artifact = program.artifact
      BY <1>1, Changes
    <2>2. Becomes(p)
      BY <1>4
    <2> HIDE DEF p
    <2> QED
      BY <1>1, <1>2, <2>1, <2>2, NewerOrder
  <1>5. CASE Becomes([program EXCEPT !.state = "absent", !.finalizer = FALSE])
    <2> DEFINE p == [program EXCEPT !.state = "absent", !.finalizer = FALSE]
    <2>1. p \in Program /\ p.generation = program.generation /\ p.artifact = program.artifact
      BY <1>1 DEF Program
    <2>2. Becomes(p)
      BY <1>5
    <2> HIDE DEF p
    <2> QED
      BY <1>1, <1>2, <2>1, <2>2, NewerOrder
  <1>6. CASE Publish /\ Becomes([program EXCEPT !.artifact = task.generation])
    <2> DEFINE p == [program EXCEPT !.artifact = task.generation]
    <2>1. task.generation \in {0} \cup Generation /\ task.call = "publish" /\ task' = NoTask
      BY <1>6 DEF Publish, IInv, TypeOK, Task
    <2>2. p \in Program /\ p.generation = program.generation /\ p.artifact = task.generation
      BY <1>1, <2>1, Publication
    <2>3. Becomes(p)
      BY <1>6
    <2> HIDE DEF p
    <2> QED
      BY <1>1, <1>2, <2>1, <2>2, <2>3, NewerOrder
  <1> QED
    BY <1>3, <1>4, <1>5, <1>6 DEF AddFinalizer, RemoveFinalizer, Publish, ProtectProgram, Missed

LEMMA OrderKept == ASSUME IInv, Ordered, [Next]_vars PROVE KeepsOrder
  <1>1. CASE Loop
    BY <1>1, ReceiveOrder, PatchOrder DEF Loop
  <1>2. CASE CreateProgram \/ EditProgram \/ DeleteProgram \/ Restart
    BY <1>2, OwnersOrder, RestartOrder
  <1>3. ASSUME NEW s \in Stacks, ProtectProgram(s) PROVE KeepsOrder
    BY <1>3, PatchOrder
  <1>4. ASSUME NEW s \in Stacks,
               \/ Resolve(s) \/ Synced(s) \/ Deploy(s) \/ Destroy(s)
               \/ PodFetches(s) \/ PodReplaced(s) \/ PodEvicted(s)
               \/ CreateStack(s) \/ DeleteStack(s) \/ SyncStore(s)
        PROVE  KeepsOrder
    <2>1. UNCHANGED <<program, events, view, task>>
      BY <1>4 DEF Resolve, Synced, Deploy, Destroy, PodFetches, PodReplaced, PodEvicted,
                  CreateStack, DeleteStack, SyncStore, loop
    <2> QED
      BY <2>1, SameOrder
  <1>5. CASE UNCHANGED vars
    BY <1>5, SameOrder DEF vars
  <1> QED
    BY <1>1, <1>2, <1>3, <1>4, <1>5 DEF Next, Reconcile

\* What a step does to a Stack's reconcile, and to what it has deployed.
LEMMA Follows ==
    ASSUME IInv, [Next]_vars, NEW s \in Stacks
    PROVE  \/ /\ synced'[s] = synced[s]
              /\ \/ ~Underway(s)'
                 \/ Underway(s) /\ actor'[s].commit = actor[s].commit
                 \/ view.artifact # 0 /\ actor'[s].commit = view.artifact
           \/ /\ actor[s].at = "protected" /\ ~Underway(s)'
              /\ synced'[s] = actor[s].commit
  <1>1. TypeOK
    BY DEF IInv
  <1>2. CASE actor'[s] = actor[s] /\ synced'[s] = synced[s]
    BY <1>2 DEF Underway
  <1>3. ASSUME NEW t \in Stacks, Resolve(t)
        PROVE  /\ synced' = synced
               /\ \/ actor' = actor
                  \/ \A u \in Stacks : u # t => actor'[u] = actor[u]
               /\ \/ actor' = actor \/ ~Underway(t)'
                  \/ view.artifact # 0 /\ actor'[t].commit = view.artifact
    <2>1. view.artifact \in {0} \cup Generation
      BY <1>1 DEF TypeOK, Program
    <2> QED
      BY <1>1, <1>3, <2>1, GotoTypes DEF Resolve, Underway
  <1>4. ASSUME NEW t \in Stacks, ProtectProgram(t)
        PROVE  /\ synced' = synced
               /\ \A u \in Stacks : u # t => actor'[u] = actor[u]
               /\ ~Underway(t)' \/ (Underway(t) /\ actor'[t].commit = actor[t].commit)
    <2>1. actor[t].commit \in {0} \cup Generation /\ Underway(t)
      BY <1>1, <1>4 DEF TypeOK, Actor, ProtectProgram, Underway
    <2>2. synced' = synced
      BY <1>4 DEF ProtectProgram
    <2>3. Done(t) \/ Retry(t) \/ Goto(t, "protected", actor[t].commit)
      BY <1>4 DEF ProtectProgram
    <2> QED
      BY <1>1, <2>1, <2>2, <2>3, GotoTypes, EndTypes DEF Underway
  <1>5. ASSUME NEW t \in Stacks, Synced(t) \/ Deploy(t) \/ Destroy(t)
        PROVE  /\ \A u \in Stacks : u # t => actor'[u] = actor[u] /\ synced'[u] = synced[u]
               /\ ~Underway(t)'
               /\ \/ synced'[t] = synced[t]
                  \/ actor[t].at = "protected" /\ synced'[t] = actor[t].commit
    <2>1. Done(t) \/ Retry(t)
      BY <1>5 DEF Synced, Deploy, Destroy, Destroyed
    <2>2. \/ synced' = synced
          \/ actor[t].at = "protected" /\ synced' = [synced EXCEPT ![t] = actor[t].commit]
      BY <1>5 DEF Synced, Deploy, UpdateSucceeded, Destroy
    <2>3. /\ \A u \in Stacks : u # t => synced'[u] = synced[u]
          /\ \/ synced'[t] = synced[t]
             \/ actor[t].at = "protected" /\ synced'[t] = actor[t].commit
      BY <1>1, <2>2 DEF TypeOK
    <2> QED
      BY <1>1, <2>1, <2>3, EndTypes DEF Underway
  <1>6. CASE Restart
    BY <1>6, Records DEF Restart, Underway
  <1>7. CASE \/ Loop \/ CreateProgram \/ EditProgram \/ DeleteProgram \/ UNCHANGED vars
             \/ \E t \in Stacks : \/ PodFetches(t) \/ PodReplaced(t) \/ PodEvicted(t)
                                  \/ CreateStack(t) \/ DeleteStack(t) \/ SyncStore(t)
    <2>1. actor' = actor /\ synced' = synced
      BY <1>7 DEF Loop, Receive, AddFinalizer, RemoveFinalizer, Publish, CreateProgram,
                  EditProgram, DeleteProgram, PodFetches, PodReplaced, PodEvicted, CreateStack,
                  DeleteStack, SyncStore, stacks, vars
    <2> QED
      BY <1>2, <2>1
  <1>8. ASSUME NEW t \in Stacks, Reconcile(t)
        PROVE  \/ /\ synced'[s] = synced[s]
                  /\ \/ ~Underway(s)'
                     \/ Underway(s) /\ actor'[s].commit = actor[s].commit
                     \/ view.artifact # 0 /\ actor'[s].commit = view.artifact
               \/ /\ actor[s].at = "protected" /\ ~Underway(s)'
                  /\ synced'[s] = actor[s].commit
    BY <1>2, <1>3, <1>4, <1>5, <1>8 DEF Reconcile
  <1> QED
    BY <1>6, <1>7, <1>8 DEF Next

LEMMA FollowedStep ==
    ASSUME IInv, Ordered, Followed, [Next]_vars
    PROVE  /\ Followed'
           /\ \A s \in Stacks : synced'[s] >= synced[s]
  <1> SUFFICES ASSUME NEW s \in Stacks
               PROVE  /\ Seen(synced[s])'
                      /\ Underway(s)' => synced'[s] <= actor'[s].commit /\ Seen(actor[s].commit)'
                      /\ synced'[s] >= synced[s]
    BY DEF Followed
  <1>1. /\ synced[s] \in Nat /\ actor[s].commit \in Nat /\ view.artifact \in Nat
    BY Revisions DEF IInv
  <1>2. /\ Seen(synced[s])
        /\ Underway(s) => synced[s] <= actor[s].commit /\ Seen(actor[s].commit)
    BY DEF Followed
  <1>3. \A a \in Nat : Seen(a) => Seen(a)'
    BY OrderKept DEF KeepsOrder
  <1>4. CASE synced'[s] = synced[s]
    <2>1. Seen(synced[s])'
      BY <1>1, <1>2, <1>3, <1>4 DEF Seen, Behind
    <2>2. CASE Underway(s) /\ actor'[s].commit = actor[s].commit
      <3>1. Seen(actor[s].commit)'
        BY <1>1, <1>2, <1>3, <2>2 DEF Seen, Behind
      <3> QED
        BY <1>1, <1>2, <1>4, <2>1, <2>2, <3>1
    <2>3. CASE view.artifact # 0 /\ actor'[s].commit = view.artifact
      <3>1. Seen(view.artifact) /\ synced[s] <= view.artifact
        BY <1>1, <1>2, <2>3 DEF Ordered, Seen
      <3>2. Seen(actor[s].commit)'
        BY <1>1, <1>3, <2>3, <3>1 DEF Seen, Behind
      <3> QED
        BY <1>1, <1>4, <2>1, <2>3, <3>1, <3>2
    <2> QED
      BY <1>1, <1>4, <2>1, <2>2, <2>3, Follows DEF Underway
  <1>5. CASE actor[s].at = "protected" /\ ~Underway(s)' /\ synced'[s] = actor[s].commit
    <2>1. synced[s] <= actor[s].commit /\ Seen(actor[s].commit)
      BY <1>2, <1>5 DEF Underway
    <2>2. Seen(synced[s])'
      BY <1>1, <1>3, <1>5, <2>1 DEF Seen, Behind
    <2> QED
      BY <1>1, <1>5, <2>1, <2>2
  <1> QED
    BY <1>4, <1>5, Follows

LEMMA OrderHolds == Spec => [](IInv /\ Ordered /\ Followed)
  <1>1. Init => Ordered /\ Followed
    <2> SUFFICES ASSUME Init PROVE Ordered /\ Followed
      OBVIOUS
    <2>1. /\ program = NoProgram /\ view = NoProgram /\ task = NoTask /\ Len(events) = 0
          /\ \A s \in Stacks : synced[s] = 0 /\ ~Underway(s)
      BY Records DEF Init, Underway
    <2> QED
      BY <2>1, Records DEF Ordered, Followed, Seen, Behind
  <1>2. IInv /\ Ordered /\ Followed /\ [Next]_vars => Ordered' /\ Followed'
    BY OrderKept, FollowedStep DEF KeepsOrder
  <1> QED
    BY <1>1, <1>2, Invariance, PTL DEF Spec

\* No Stack goes back to an older revision of its Program than it has deployed, however often
\* the Program is edited, calls fail and the operator restarts: the loop handles one event at a
\* time and publishes what it built before it takes the next, and a reconcile keeps the commit
\* it resolved.
THEOREM NoneGoesBack == Spec => NeverGoesBack
  <1>1. IInv /\ Ordered /\ Followed /\ [Next]_vars =>
            [\A s \in Stacks : synced'[s] >= synced[s]]_vars
    BY FollowedStep
  <1> QED
    BY <1>1, OrderHolds, PTL DEF Spec, NeverGoesBack

=============================================================================
