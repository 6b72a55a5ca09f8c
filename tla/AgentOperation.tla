---------------------------- MODULE AgentOperation ----------------------------
(***************************************************************************)
(* How one Pulumi operation runs: the executor calls the workspace's agent *)
(* (select the stack, set its configuration, then the operation proper),   *)
(* the agent spawns pulumi, reads its two pipes, and answers on a stream   *)
(* that the executor may drop at any time: the operation timeout, a broken *)
(* connection, a restart of the operator.                                  *)
(*                                                                         *)
(* The operations of one workspace come one after the other, but nothing   *)
(* makes an operation wait for the pulumi process of the one before it.    *)
(* They share the lock of Pulumi's backend, with each other and with       *)
(* somebody else, and after a conflict the agent may be told to clear it,  *)
(* whoever holds it.  Output is counted in lines, their contents left out, *)
(* but that a line may not be text, which ends the reading; engine events  *)
(* are never sent by the agent.                                            *)
(***************************************************************************)
EXTENDS Naturals

CONSTANTS
    MaxOps,       \* bound: operations, one after the other
    Kinds,        \* of operations
    MaxAttempts,  \* of a call that meets the lock
    Capacity,     \* of a pipe, in lines
    Limit,        \* MAX_OUTPUT_BYTES and the size of a gRPC message, in lines
    MaxRestarts   \* bound: restarts of the operator and of the pod

ASSUME ConstantsAssumption ==
    /\ MaxOps \in Nat /\ MaxAttempts \in Nat \ {0} /\ MaxRestarts \in Nat
    /\ Capacity \in Nat \ {0} /\ Limit \in Nat \ {0}
    /\ Kinds \subseteq {"up", "destroy", "preview", "refresh"}

VARIABLES
    kind,       \* of each operation, once it is requested
    client,     \* where the executor is in stream_update
    tries,      \* attempts of the call it makes
    result,     \* what is recorded of the operation
    task,       \* where the agent's task is in run_pulumi_streaming
    cancelled,  \* its CancellationToken
    child,      \* what became of the pulumi process
    pipe,       \* lines in its stdout and stderr
    kept,       \* lines accumulated from them, as long as somebody may get them
    wire,       \* the message of the stream
    lock,       \* who holds the lock of the backend
    restarts

vars == <<kind, client, tries, result, task, cancelled, child, pipe, kept, wire,
          lock, restarts>>
agent   == <<task, cancelled, child, pipe, kept, wire, lock>>
request == <<kind, client, tries, result, restarts>>

Ops     == 1 .. MaxOps
Streams == {"out", "err"}
NoOne   == 0
Other   == MaxOps + 1

\* A process that runs; one that ended with a nonzero status, as it found the lock held
\* or for another reason; one that never started.
Alive  == {"started", "working"}
Ended  == {"finished", "refused", "broken", "killed", "absent"}
Active == {"select", "config", "request", "stream"}
Empty  == [s \in Streams |-> 0]

\* The handlers of up and destroy look at result.failed, those of preview and refresh
\* do not.
Checked == {"up", "destroy"}

\* The type invariant.
TypeOK ==
    /\ kind \in [Ops -> Kinds \cup {"none"}]
    /\ client \in [Ops -> {"new", "recorded", "lost"} \cup Active]
    /\ tries \in [Ops -> 0 .. MaxAttempts]
    /\ result \in [Ops -> {"none", "succeeded", "failed", "locked"}]
    /\ task \in [Ops -> {"none", "spawn", "stdout", "stderr", "wait", "reply", "over"}]
    /\ cancelled \in [Ops -> BOOLEAN]
    /\ child \in [Ops -> {"none"} \cup Alive \cup Ended]
    /\ pipe \in [Ops -> [Streams -> 0 .. Capacity]]
    /\ kept \in [Ops -> [Streams -> 0 .. Limit]]
    /\ wire \in [Ops -> {"none", "result", "failed", "locked"}]
    /\ lock \in Ops \cup {NoOne, Other}
    /\ restarts \in 0 .. MaxRestarts

Init ==
    /\ kind = [o \in Ops |-> "none"]
    /\ client = [o \in Ops |-> "new"]
    /\ tries = [o \in Ops |-> 0]
    /\ result = [o \in Ops |-> "none"]
    /\ task = [o \in Ops |-> "none"]
    /\ cancelled = [o \in Ops |-> FALSE]
    /\ child = [o \in Ops |-> "none"]
    /\ pipe = [o \in Ops |-> Empty]
    /\ kept = [o \in Ops |-> Empty]
    /\ wire = [o \in Ops |-> "none"]
    /\ lock \in {NoOne, Other}
    /\ restarts = 0

---------------------------------------------------------------------------
(* The executor. *)

\* What the executor records, and how it leaves stream_update.
Record(o, outcome) ==
    /\ client' = [client EXCEPT ![o] = "recorded"]
    /\ tries' = [tries EXCEPT ![o] = 0]
    /\ result' = [result EXCEPT ![o] = outcome]

\* An Update is executed: connect, install (whose failure is ignored).
Start(o) ==
    /\ client[o] = "new"
    /\ \A p \in 1 .. (o - 1) : client[p] \in {"recorded", "lost"}
    /\ client' = [client EXCEPT ![o] = "select"]
    /\ UNCHANGED <<kind, tries, result, restarts, agent>>

\* SelectStack or SetAllConfig succeeds; no configuration is a call the executor leaves
\* out.
CallSucceeds(o) ==
    /\ client[o] \in {"select", "config"}
    /\ client' = [client EXCEPT ![o] = IF @ = "select" THEN "config" ELSE "request"]
    /\ tries' = [tries EXCEPT ![o] = 0]
    /\ UNCHANGED <<kind, result, restarts, agent>>

\* The call meets the lock: again after a while, up to MaxAttempts times.
CallMeetsLock(o) ==
    /\ client[o] \in {"select", "config"}
    /\ lock # NoOne
    /\ IF tries[o] + 1 < MaxAttempts
         THEN /\ tries' = [tries EXCEPT ![o] = @ + 1]
              /\ UNCHANGED <<client, result>>
         ELSE Record(o, "locked")
    /\ UNCHANGED <<kind, restarts, agent>>

\* Another error ends the update at once.
CallFails(o) ==
    /\ client[o] \in {"select", "config"}
    /\ Record(o, "failed")
    /\ UNCHANGED <<kind, restarts, agent>>

\* up, destroy, preview or refresh: the agent spawns its task and answers with the
\* stream.
Request(o) ==
    /\ client[o] = "request"
    /\ \E k \in Kinds : kind' = [kind EXCEPT ![o] = k]
    /\ client' = [client EXCEPT ![o] = "stream"]
    /\ task' = [task EXCEPT ![o] = "spawn"]
    /\ UNCHANGED <<tries, result, restarts, cancelled, child, pipe, kept, wire, lock>>

\* A broken stream taken for one that ends.
ReceiveEndAsSuccess(o) ==
    /\ client[o] = "stream" /\ (wire[o] # "none" \/ task[o] = "over")
    /\ Record(o, IF wire[o] \in {"none", "result"} THEN "succeeded" ELSE wire[o])
    /\ wire' = [wire EXCEPT ![o] = "none"]
    /\ UNCHANGED <<kind, restarts, task, cancelled, child, pipe, kept, lock>>

\* The message of the stream: a Result is success, a Status the failure it tells.  The end
\* without either would be a success too, but the agent's task always sends one, and what
\* breaks the stream is an error (GiveUp).
Receive(o) ==
    /\ client[o] = "stream" /\ wire[o] # "none"
    /\ Record(o, IF wire[o] = "result" THEN "succeeded" ELSE wire[o])
    /\ wire' = [wire EXCEPT ![o] = "none"]
    /\ UNCHANGED <<kind, restarts, task, cancelled, child, pipe, kept, lock>>

\* A Status whose message is cut within a character: the executor panics, the stream is
\* dropped, and nothing is recorded.
Panic(o) ==
    /\ client[o] = "stream" /\ wire[o] \in {"failed", "locked"}
    /\ client' = [client EXCEPT ![o] = "lost"]
    /\ wire' = [wire EXCEPT ![o] = "none"]
    /\ UNCHANGED <<kind, tries, result, restarts, task, cancelled, child, pipe, kept, lock>>

\* The operation is requested again.
GiveUpAndRetry(o) ==
    /\ client[o] \in Active
    /\ client' = [client EXCEPT ![o] = "request"]
    /\ UNCHANGED <<kind, tries, result, restarts, agent>>

\* The operation timeout, or the connection breaks: a failure is recorded and the
\* stream dropped.
GiveUp(o) ==
    /\ client[o] \in Active
    /\ Record(o, "failed")
    /\ UNCHANGED <<kind, restarts, agent>>

\* The operator restarts: the executor is gone, its connections with it.
OperatorRestarts ==
    /\ restarts < MaxRestarts
    /\ restarts' = restarts + 1
    /\ client' = [o \in Ops |-> IF client[o] \in Active THEN "lost" ELSE client[o]]
    /\ tries' = [o \in Ops |-> 0]
    /\ UNCHANGED <<kind, result, agent>>

---------------------------------------------------------------------------
(* The agent. *)

\* The stream was dropped, and with it the guard of the token.  From here on nobody gets what
\* is kept, and it is no longer counted.
NoticeDrop(o) ==
    /\ client[o] \in {"recorded", "lost"}
    /\ task[o] \notin {"none", "over"} /\ ~cancelled[o]
    /\ cancelled' = [cancelled EXCEPT ![o] = TRUE]
    /\ kept' = [kept EXCEPT ![o] = Empty]
    /\ UNCHANGED <<request, task, child, pipe, wire, lock>>

\* pulumi is spawned, or cannot be.
Spawn(o) ==
    /\ task[o] = "spawn"
    /\ \/ /\ task' = [task EXCEPT ![o] = "stdout"]
          /\ child' = [child EXCEPT ![o] = "started"]
       \/ /\ task' = [task EXCEPT ![o] = "reply"]
          /\ child' = [child EXCEPT ![o] = "absent"]
    /\ UNCHANGED <<request, cancelled, pipe, kept, wire, lock>>

\* Everything is kept.
ReadUntruncated(o, s) ==
    /\ pipe[o][s] > 0
    /\ pipe' = [pipe EXCEPT ![o][s] = @ - 1]
    /\ kept' = [kept EXCEPT ![o][s] = IF @ <= Limit THEN @ + 1 ELSE @]
    /\ UNCHANGED <<request, task, cancelled, child, wire, lock>>

\* A line is read from a pipe, and kept up to the limit.
Read(o, s) ==
    /\ pipe[o][s] > 0
    /\ pipe' = [pipe EXCEPT ![o][s] = @ - 1]
    /\ kept' = [kept EXCEPT ![o][s] = IF @ < Limit /\ ~cancelled[o] THEN @ + 1 ELSE @]
    /\ UNCHANGED <<request, task, cancelled, child, wire, lock>>

\* The reading of a pipe ends, and what is still in it is dropped: at its end, once it is
\* empty and the process over or the process closed it; or at a line that is not UTF-8,
\* whatever the process does.
StopReading(o, s, next) ==
    /\ task' = [task EXCEPT ![o] = next]
    /\ pipe' = [pipe EXCEPT ![o][s] = 0]
    /\ UNCHANGED <<request, cancelled, child, kept, wire, lock>>

\* stdout first.
ReadStdout(o) ==
    /\ task[o] = "stdout"
    /\ Read(o, "out") \/ StopReading(o, "out", "stderr")

\* Then stderr.
ReadStderr(o) ==
    /\ task[o] = "stderr"
    /\ Read(o, "err") \/ StopReading(o, "err", "wait")

\* Then the exit status is waited for.
Wait(o) ==
    /\ task[o] = "wait" /\ child[o] \in Ended
    /\ task' = [task EXCEPT ![o] = "reply"]
    /\ UNCHANGED <<request, cancelled, child, pipe, kept, wire, lock>>

\* The token is not looked at once there is something to read.
KillWhenQuiet(o) ==
    /\ task[o] = "stdout" /\ cancelled[o] /\ pipe[o]["out"] = 0
    /\ task' = [task EXCEPT ![o] = "over"]
    /\ child' = [child EXCEPT ![o] = IF @ \in Alive THEN "killed" ELSE @]
    /\ UNCHANGED <<request, cancelled, pipe, kept, wire, lock>>

\* Cancelled while it reads stdout, and only there: the process is killed, which leaves the
\* lock as it is.  Nobody receives the message any more.
Kill(o) ==
    /\ task[o] = "stdout" /\ cancelled[o]
    /\ task' = [task EXCEPT ![o] = "over"]
    /\ child' = [child EXCEPT ![o] = IF @ \in Alive THEN "killed" ELSE @]
    /\ pipe' = [pipe EXCEPT ![o] = Empty]
    /\ kept' = [kept EXCEPT ![o] = Empty]
    /\ UNCHANGED <<request, cancelled, wire, lock>>

\* A handler that takes an exit after some output for a success.
AnswersErrorUnlessOutput(o) ==
    kind[o] \in Checked /\ child[o] # "finished" /\ kept[o]["out"] = 0

\* Whether the handler answers with an error: the exit status, where it is looked at.
AnswersError(o) == kind[o] \in Checked /\ child[o] # "finished"

\* Any failure blamed on the lock.
BlamesAlways(o) == {"locked"}

\* What the first hundred characters of the error tell: words about the lock are pulumi's
\* own, and may be cut off.
Blames(o) == IF child[o] = "refused" THEN {"locked", "failed"} ELSE {"failed"}

\* The one message: a Status, a Result, or what becomes of a Result too large to encode.
Answers(o) ==
    CASE AnswersError(o) -> Blames(o)
      [] ~AnswersError(o) /\ kept[o]["out"] + kept[o]["err"] < Limit -> {"result"}
      [] OTHER -> {"failed"}

\* It is sent; nobody gets it once the stream is dropped.
Reply(o) ==
    /\ task[o] = "reply"
    /\ task' = [task EXCEPT ![o] = "over"]
    /\ \E answer \in Answers(o) :
         wire' = [wire EXCEPT ![o] = IF client[o] = "stream" THEN answer ELSE "none"]
    /\ kept' = [kept EXCEPT ![o] = Empty]
    /\ UNCHANGED <<request, cancelled, child, pipe, lock>>

\* The workspace's pod restarts: its processes are killed, its tasks and streams gone.
PodRestarts ==
    /\ restarts < MaxRestarts
    /\ restarts' = restarts + 1
    /\ task' = [o \in Ops |-> IF task[o] = "none" THEN "none" ELSE "over"]
    /\ child' = [o \in Ops |-> IF child[o] \in Alive THEN "killed" ELSE child[o]]
    /\ pipe' = [o \in Ops |-> Empty]
    /\ kept' = [o \in Ops |-> Empty]
    /\ wire' = [o \in Ops |-> "none"]
    /\ UNCHANGED <<kind, client, tries, result, cancelled, lock>>

---------------------------------------------------------------------------
(* Pulumi, and whoever else uses the backend. *)

\* pulumi takes the lock, or says on stderr that somebody has it, and ends.
TakeLock(o) ==
    /\ child[o] = "started"
    /\ IF lock = NoOne
         THEN /\ lock' = o
              /\ child' = [child EXCEPT ![o] = "working"]
              /\ UNCHANGED pipe
         ELSE /\ child' = [child EXCEPT ![o] = "refused"]
              /\ pipe' = [pipe EXCEPT ![o]["err"] = 1]
              /\ UNCHANGED lock
    /\ UNCHANGED <<request, task, cancelled, kept, wire>>

\* The phases of the task in which the agent holds the other end of a pipe.
Readable(s) == IF s = "out" THEN {"stdout"} ELSE {"stdout", "stderr"}

\* It writes a line, if the pipe has room; where nobody reads any more that kills it.
Write(o, s) ==
    /\ child[o] = "working"
    /\ \/ /\ task[o] \in Readable(s) /\ pipe[o][s] < Capacity
          /\ pipe' = [pipe EXCEPT ![o][s] = @ + 1]
          /\ UNCHANGED child
       \/ /\ task[o] \notin Readable(s)
          /\ child' = [child EXCEPT ![o] = "killed"]
          /\ UNCHANGED pipe
    /\ UNCHANGED <<request, task, cancelled, kept, wire, lock>>

\* It releases the lock, if it still has it, and ends, well or not.
Exit(o) ==
    /\ child[o] = "working"
    /\ \E status \in {"finished", "broken"} : child' = [child EXCEPT ![o] = status]
    /\ lock' = IF lock = o THEN NoOne ELSE lock
    /\ UNCHANGED <<request, task, cancelled, pipe, kept, wire>>

\* A conflict was recorded and lasted: the agent clears the lock, whoever holds it.
CancelUpdate ==
    /\ \E o \in Ops : result[o] = "locked"
    /\ lock # NoOne /\ lock' = NoOne
    /\ UNCHANGED <<request, task, cancelled, child, pipe, kept, wire>>

Others ==
    /\ \/ lock = NoOne /\ lock' = Other
       \/ lock = Other /\ lock' = NoOne
    /\ UNCHANGED <<request, task, cancelled, child, pipe, kept, wire>>

---------------------------------------------------------------------------

Executor(o) ==
    \/ Start(o) \/ CallSucceeds(o) \/ CallMeetsLock(o) \/ CallFails(o)
    \/ Request(o) \/ Receive(o) \/ Panic(o) \/ GiveUp(o)

AgentTask(o) ==
    \/ NoticeDrop(o) \/ Spawn(o) \/ ReadStdout(o) \/ ReadStderr(o) \/ Wait(o) \/ Kill(o)
    \/ Reply(o)

Pulumi(o) == TakeLock(o) \/ (\E s \in Streams : Write(o, s)) \/ Exit(o)

Next ==
    \/ \E o \in Ops : Executor(o) \/ AgentTask(o) \/ Pulumi(o)
    \/ OperatorRestarts \/ PodRestarts \/ CancelUpdate \/ Others

Spec == Init /\ [][Next]_vars

\* Timeouts fire, a dropped stream is noticed, and of two branches ready at once select!
\* takes each in time.  Nothing is assumed of pulumi, which may hang or write for ever,
\* of the other users of the lock, or of the reading of its output.
FairSpec ==
    /\ Spec
    /\ \A o \in Ops :
         /\ WF_vars(GiveUp(o)) /\ WF_vars(NoticeDrop(o)) /\ WF_vars(Kill(o))

---------------------------------------------------------------------------
(* Properties. *)

\* An up or a destroy that is recorded as succeeded is one whose pulumi ended with
\* status 0, whatever was read of its output, dropped, timed out or restarted meanwhile.
\* (Of a preview or a refresh the code does not promise it, see the findings.)
SuccessIsReal ==
    \A o \in Ops :
       kind[o] \in Checked /\ result[o] = "succeeded" => child[o] = "finished"

\* An up or destroy that is recorded as stopped by the lock has changed nothing: its
\* pulumi never got the lock.  The recovery may repeat it, or clear the lock.
LockedChangedNothing ==
    \A o \in Ops : result[o] = "locked" => child[o] \in {"none", "refused"}

\* A lock that is held by an operation whose process is gone was left by a process
\* that was killed; its operation is not recorded as stopped by the lock, nor, an up or a
\* destroy, as succeeded.
StaleLockIsKnown ==
    \A o \in Ops :
       lock = o => \/ child[o] = "working"
                   \/ /\ child[o] = "killed" /\ result[o] # "locked"
                      /\ kind[o] \in Checked => result[o] # "succeeded"

\* What OperationContract sees of an operation: its result, where a success that nobody
\* checked is an answer, and what its process does to the backend.
Outcome(o) ==
    IF client[o] = "new" THEN "idle"
    ELSE IF client[o] \in Active THEN "running"
    ELSE IF client[o] = "lost" THEN "lost"
    ELSE IF result[o] = "succeeded" /\ kind[o] \notin Checked THEN "answered" ELSE result[o]

Effect(o) ==
    IF child[o] = "working" THEN "working"
    ELSE IF child[o] = "finished" THEN "applied"
    ELSE IF child[o] \in {"broken", "killed"} THEN "interrupted" ELSE "none"

Contract == INSTANCE OperationContract
              WITH Operations <- Ops,
                   outcome    <- [o \in Ops |-> Outcome(o)],
                   effect     <- [o \in Ops |-> Effect(o)]

\* The operator and the agent keep OperationContract: one outcome each, nothing done after
\* a success or after the lock was given as the reason, although an execution may end before
\* its process does, and one operation at work at a time until a conflict was recorded and
\* the lock may have been cleared.
RefinesOperation == Contract!Spec

\* The agent waits for a process it will not kill: it has stopped reading stdout.
Unheeded(o) == task[o] \in {"stderr", "wait"}

\* The pulumi process of an operation ends, even one that hangs or writes for ever: by
\* itself, or killed when its stream was dropped.  Except where the reading of its stdout
\* ended before it did, from where on nobody looks at the token.
ProcessesEnd == \A o \in Ops : (child[o] \in Alive) ~> (child[o] \in Ended \/ Unheeded(o))
=============================================================================
