------------------------- MODULE AgentOperation_proofs -------------------------
(***************************************************************************)
(* That a recorded success is real, that the lock stops only what changed  *)
(* nothing, that a stale lock is that of a killed process, and that the    *)
(* operations keep OperationContract, for any number of operations, size   *)
(* of pipe and limit.                                                      *)
(***************************************************************************)
EXTENDS AgentOperation, TLAPS

(* Why the invariant is inductive.  A process that ended well or was refused stays so; a
   success on the wire, or a refusal, is what the process ended with, as a task replies only
   once its process has ended; and a process at work has the lock, until somebody's conflict
   was recorded and the lock may have been cleared under it. *)

\* Where each part is a function on the operations.
Shape ==
    /\ kind \in [Ops -> Kinds \cup {"none"}]
    /\ client \in [Ops -> {"new", "recorded", "lost"} \cup Active]
    /\ result \in [Ops -> {"none", "succeeded", "failed", "locked"}]
    /\ task \in [Ops -> {"none", "spawn", "stdout", "stderr", "wait", "reply", "over"}]
    /\ child \in [Ops -> {"none"} \cup Alive \cup Ended]
    /\ wire \in [Ops -> {"none", "result", "failed", "locked"}]
    /\ lock \in Ops \cup {NoOne, Other}

\* What has not begun has left no trace; what is under way has no result.
Fresh(o) ==
    /\ client[o] \in {"new", "select", "config", "request"} =>
          task[o] = "none" /\ child[o] = "none"
    /\ client[o] \in {"new", "lost"} \cup Active => result[o] = "none"
    /\ client[o] = "recorded" => result[o] # "none"
    /\ task[o] \in {"none", "spawn"} => child[o] = "none"
    /\ wire[o] # "none" => task[o] = "over"

\* A task that has spawned has a process; one that replies has one that ended.
TaskAndChild(o) ==
    /\ task[o] \in {"stdout", "stderr", "wait", "reply"} => child[o] # "none"
    /\ task[o] = "reply" => child[o] \in Ended

\* What the stream says of the process.
WireIsTrue(o) ==
    /\ wire[o] = "result" => child[o] \in Ended
    /\ wire[o] = "result" /\ kind[o] \in Checked => child[o] = "finished"
    /\ wire[o] = "locked" => child[o] = "refused"

\* What is recorded of it.
ResultIsTrue(o) ==
    /\ result[o] = "succeeded" => child[o] \in Ended
    /\ result[o] = "succeeded" /\ kind[o] \in Checked => child[o] = "finished"
    /\ result[o] = "locked" =>
          \/ child[o] = "refused"
          \/ child[o] = "none" /\ task[o] = "none" /\ client[o] = "recorded"

\* Who holds the lock.
LockIsTrue(o) == lock = o => child[o] \in {"working", "killed"}

Good(o) == Fresh(o) /\ TaskAndChild(o) /\ WireIsTrue(o) /\ ResultIsTrue(o) /\ LockIsTrue(o)

\* A conflict was recorded: the lock may have been cleared.
Conflict == \E o \in Ops : result[o] = "locked"

\* Who works has the lock, before that.
Exclusive == Conflict \/ \A o \in Ops : child[o] = "working" => lock = o

Inv == Shape /\ (\A o \in Ops : Good(o)) /\ Exclusive

LEMMA Numbers == MaxOps \in Nat /\ (\A o \in Ops : o # NoOne /\ o # Other)
  BY ConstantsAssumption DEF Ops, NoOne, Other

LEMMA InitInv == Init => Inv
<1> USE Numbers DEF Active, Alive, Ended
<1>1. Init => Shape
  BY DEF Init, Shape
<1>2. Init => \A o \in Ops : Fresh(o) /\ TaskAndChild(o) /\ WireIsTrue(o) /\ ResultIsTrue(o)
  BY DEF Init, Fresh, TaskAndChild, WireIsTrue, ResultIsTrue
<1>3. Init => \A o \in Ops : LockIsTrue(o)
  BY DEF Init, LockIsTrue
<1>4. Init => Exclusive
  BY DEF Init, Exclusive
<1> QED
  BY <1>1, <1>2, <1>3, <1>4 DEF Inv, Good

Step(o) == Executor(o) \/ AgentTask(o) \/ Pulumi(o)

\* A step of one operation keeps the shape.
LEMMA ShapeOfStep ==
    ASSUME Shape, NEW o \in Ops, Step(o) PROVE Shape'
<1> USE DEF Shape, request, agent, Active, Alive, Ended
<1>1. ASSUME Start(o) PROVE Shape'
  BY <1>1 DEF Start
<1>2. ASSUME CallSucceeds(o) PROVE Shape'
  BY <1>2 DEF CallSucceeds
<1>3. ASSUME CallMeetsLock(o) PROVE Shape'
  BY <1>3 DEF CallMeetsLock, Record
<1>4. ASSUME CallFails(o) PROVE Shape'
  BY <1>4 DEF CallFails, Record
<1>5. ASSUME Request(o) PROVE Shape'
  BY <1>5 DEF Request
<1>6. ASSUME Receive(o) PROVE Shape'
  BY <1>6 DEF Receive, Record
<1>7. ASSUME GiveUp(o) PROVE Shape'
  BY <1>7 DEF GiveUp, Record
<1>8. ASSUME NoticeDrop(o) PROVE Shape'
  BY <1>8 DEF NoticeDrop
<1>9. ASSUME Spawn(o) PROVE Shape'
  BY <1>9 DEF Spawn
<1>10. ASSUME ReadStdout(o) PROVE Shape'
  BY <1>10 DEF ReadStdout, Read, StopReading
<1>11. ASSUME ReadStderr(o) PROVE Shape'
  BY <1>11 DEF ReadStderr, Read, StopReading
<1>12. ASSUME Kill(o) PROVE Shape'
  BY <1>12 DEF Kill
<1>13. ASSUME Reply(o) PROVE Shape'
  BY <1>13 DEF Reply, Answers, AnswersError, Blames
<1>14. ASSUME TakeLock(o) PROVE Shape'
  BY <1>14 DEF TakeLock
<1>15. ASSUME Exit(o) PROVE Shape'
  BY <1>15 DEF Exit
<1>16. ASSUME NEW s \in Streams, Write(o, s) PROVE Shape'
  BY <1>16 DEF Write
<1>17. ASSUME Panic(o) PROVE Shape'
  BY <1>17 DEF Panic
<1>18. ASSUME Wait(o) PROVE Shape'
  BY <1>18 DEF Wait
<1> QED
  BY <1>1, <1>2, <1>3, <1>4, <1>5, <1>6, <1>7, <1>8, <1>9, <1>10, <1>11, <1>12, <1>13, <1>14, <1>15, <1>16,
     <1>17, <1>18 DEF Step, Executor, AgentTask, Pulumi

\* A step of one operation leaves the others alone, and their lock.
Same(p) ==
    /\ kind'[p] = kind[p] /\ client'[p] = client[p] /\ result'[p] = result[p]
    /\ task'[p] = task[p] /\ child'[p] = child[p] /\ wire'[p] = wire[p]
    /\ lock' = p <=> lock = p

LEMMA OthersSame ==
    ASSUME Shape, NEW o \in Ops, Good(o), Step(o), NEW p \in Ops, p # o PROVE Same(p)
<1> USE Numbers DEF Shape, Same, Good, LockIsTrue, request, agent
<1>1. ASSUME Start(o) PROVE Same(p)
  BY <1>1 DEF Start
<1>2. ASSUME CallSucceeds(o) PROVE Same(p)
  BY <1>2 DEF CallSucceeds
<1>3. ASSUME CallMeetsLock(o) PROVE Same(p)
  BY <1>3 DEF CallMeetsLock, Record
<1>4. ASSUME CallFails(o) PROVE Same(p)
  BY <1>4 DEF CallFails, Record
<1>5. ASSUME Request(o) PROVE Same(p)
  BY <1>5 DEF Request
<1>6. ASSUME Receive(o) PROVE Same(p)
  BY <1>6 DEF Receive, Record
<1>7. ASSUME GiveUp(o) PROVE Same(p)
  BY <1>7 DEF GiveUp, Record
<1>8. ASSUME NoticeDrop(o) PROVE Same(p)
  BY <1>8 DEF NoticeDrop
<1>9. ASSUME Spawn(o) PROVE Same(p)
  BY <1>9 DEF Spawn
<1>10. ASSUME ReadStdout(o) PROVE Same(p)
  BY <1>10 DEF ReadStdout, Read, StopReading
<1>11. ASSUME ReadStderr(o) PROVE Same(p)
  BY <1>11 DEF ReadStderr, Read, StopReading
<1>12. ASSUME Kill(o) PROVE Same(p)
  BY <1>12 DEF Kill
<1>13. ASSUME Reply(o) PROVE Same(p)
  BY <1>13 DEF Reply, Answers, AnswersError, Blames
<1>14. ASSUME TakeLock(o) PROVE Same(p)
  BY <1>14 DEF TakeLock
<1>15. ASSUME Exit(o) PROVE Same(p)
  BY <1>15 DEF Exit
<1>16. ASSUME NEW s \in Streams, Write(o, s) PROVE Same(p)
  BY <1>16 DEF Write
<1>17. ASSUME Panic(o) PROVE Same(p)
  BY <1>17 DEF Panic
<1>18. ASSUME Wait(o) PROVE Same(p)
  BY <1>18 DEF Wait
<1> QED
  BY <1>1, <1>2, <1>3, <1>4, <1>5, <1>6, <1>7, <1>8, <1>9, <1>10, <1>11, <1>12, <1>13, <1>14, <1>15, <1>16,
     <1>17, <1>18 DEF Step, Executor, AgentTask, Pulumi

LEMMA SameIsGood ==
    ASSUME NEW p \in Ops, Good(p), Same(p) PROVE Good(p)'
  BY DEF Good, Same, Fresh, TaskAndChild, WireIsTrue, ResultIsTrue, LockIsTrue

\* A step of an operation keeps what holds of it.
LEMMA OwnStep ==
    ASSUME Shape, NEW o \in Ops, Good(o), Step(o) PROVE Good(o)'
<1> USE Numbers DEF Shape, Good, Fresh, TaskAndChild, WireIsTrue, ResultIsTrue, LockIsTrue,
        request, agent, Active, Alive, Ended
<1>1. ASSUME Start(o) PROVE Good(o)'
  BY <1>1 DEF Start
<1>2. ASSUME CallSucceeds(o) PROVE Good(o)'
  BY <1>2 DEF CallSucceeds
<1>3. ASSUME CallMeetsLock(o) PROVE Good(o)'
  BY <1>3 DEF CallMeetsLock, Record
<1>4. ASSUME CallFails(o) PROVE Good(o)'
  BY <1>4 DEF CallFails, Record
<1>5. ASSUME Request(o) PROVE Good(o)'
  BY <1>5 DEF Request
<1>6. ASSUME Receive(o) PROVE Good(o)'
  BY <1>6 DEF Receive, Record
<1>7. ASSUME GiveUp(o) PROVE Good(o)'
  BY <1>7 DEF GiveUp, Record
<1>8. ASSUME NoticeDrop(o) PROVE Good(o)'
  BY <1>8 DEF NoticeDrop
<1>9. ASSUME Spawn(o) PROVE Good(o)'
  BY <1>9 DEF Spawn
<1>10. ASSUME ReadStdout(o) PROVE Good(o)'
  BY <1>10 DEF ReadStdout, Read, StopReading
<1>11. ASSUME ReadStderr(o) PROVE Good(o)'
  BY <1>11 DEF ReadStderr, Read, StopReading
<1>12. ASSUME Kill(o) PROVE Good(o)'
  BY <1>12 DEF Kill
<1>13. ASSUME Reply(o) PROVE Good(o)'
  BY <1>13 DEF Reply, Answers, AnswersError, Blames
<1>14. ASSUME TakeLock(o) PROVE Good(o)'
  BY <1>14 DEF TakeLock
<1>15. ASSUME Exit(o) PROVE Good(o)'
  BY <1>15 DEF Exit
<1>16. ASSUME NEW s \in Streams, Write(o, s) PROVE Good(o)'
  BY <1>16 DEF Write
<1>17. ASSUME Panic(o) PROVE Good(o)'
  BY <1>17 DEF Panic
<1>18. ASSUME Wait(o) PROVE Good(o)'
  BY <1>18 DEF Wait
<1> QED
  BY <1>1, <1>2, <1>3, <1>4, <1>5, <1>6, <1>7, <1>8, <1>9, <1>10, <1>11, <1>12, <1>13, <1>14, <1>15, <1>16,
     <1>17, <1>18 DEF Step, Executor, AgentTask, Pulumi

\* Nothing takes a recorded conflict back, and the lock is taken only when nobody has it.
LEMMA ExclusiveStep ==
    ASSUME Inv, NEW o \in Ops, Step(o) PROVE Exclusive'
<1> USE Numbers
<1>1. CASE Conflict
  <2>1. PICK q \in Ops : result[q] = "locked"
    BY <1>1 DEF Conflict
  <2>2. client[q] = "recorded"
    BY <2>1 DEF Inv, Shape, Good, Fresh, Active
  <2>3. result'[q] = "locked"
    <3>1. CASE q = o
      BY <2>1, <2>2, <3>1 DEF Step, Executor, AgentTask, Pulumi, Start, CallSucceeds, CallMeetsLock,
        CallFails, Request, Receive, Panic, GiveUp, Active, NoticeDrop, Spawn, ReadStdout,
        ReadStderr, Read, StopReading, Wait, Kill, Reply, TakeLock, Write, Exit, request
    <3>2. CASE q # o
      BY <2>1, <3>2, OthersSame DEF Inv, Same
    <3> QED
      BY <3>1, <3>2
  <2> QED
    BY <2>3 DEF Exclusive, Conflict
<1>2. CASE \A p \in Ops : child[p] = "working" => lock = p
  <2>1. ASSUME NEW p \in Ops, p # o, child'[p] = "working" PROVE lock' = p
    BY <1>2, <2>1, OthersSame DEF Inv, Same
  <2>2. ASSUME child'[o] = "working" PROVE lock' = o
    <3>1. CASE TakeLock(o)
      BY <2>2, <3>1 DEF TakeLock, Inv, Shape
    <3>2. CASE Exit(o)
      BY <2>2, <3>2 DEF Exit, Inv, Shape
    <3>3. CASE ~TakeLock(o) /\ ~Exit(o)
      <4>1. child'[o] = "working" => child[o] = "working"
        BY <3>3 DEF Inv, Shape, Step, Executor, AgentTask, Pulumi, Start, CallSucceeds, CallMeetsLock,
          CallFails, Request, Receive, Panic, GiveUp, Record, NoticeDrop, Spawn, ReadStdout,
          ReadStderr, Read, StopReading, Wait, Kill, Reply, Write, agent
      <4>2. lock' = lock
        BY <3>3 DEF Step, Executor, AgentTask, Pulumi, Start, CallSucceeds, CallMeetsLock,
          CallFails, Request, Receive, Panic, GiveUp, Record, NoticeDrop, Spawn, ReadStdout,
          ReadStderr, Read, StopReading, Wait, Kill, Reply, Write, agent
      <4> QED
        BY <1>2, <2>2, <4>1, <4>2
    <3> QED
      BY <3>1, <3>2, <3>3
  <2> QED
    BY <2>1, <2>2 DEF Exclusive
<1> QED
  BY <1>1, <1>2 DEF Inv, Exclusive

LEMMA InvStep == Inv /\ [Next]_vars => Inv'
<1> SUFFICES ASSUME Inv, [Next]_vars PROVE Inv'
  OBVIOUS
<1>0. Shape /\ (\A o \in Ops : Good(o)) /\ Exclusive
  BY DEF Inv
<1>1. ASSUME NEW o \in Ops, Step(o) PROVE Inv'
  <2>1. Shape'
    BY <1>0, <1>1, ShapeOfStep
  <2>2. ASSUME NEW p \in Ops PROVE Good(p)'
    <3>1. CASE p = o
      BY <1>0, <1>1, <3>1, OwnStep
    <3>2. CASE p # o
      BY <1>0, <1>1, <3>2, OthersSame, SameIsGood
    <3> QED
      BY <3>1, <3>2
  <2>3. Exclusive'
    BY <1>1, ExclusiveStep
  <2> QED
    BY <2>1, <2>2, <2>3 DEF Inv
<1>2. ASSUME OperatorRestarts PROVE Inv'
  <2>1. Shape'
    BY <1>0, <1>2 DEF Shape, OperatorRestarts, agent, Active
  <2>2. \A p \in Ops : Good(p)'
    BY <1>0, <1>2 DEF Shape, Good, Fresh, TaskAndChild, WireIsTrue, ResultIsTrue, LockIsTrue,
      OperatorRestarts, agent, Active
  <2>3. Exclusive'
    BY <1>0, <1>2 DEF Exclusive, Conflict, OperatorRestarts, agent
  <2> QED
    BY <2>1, <2>2, <2>3 DEF Inv
<1>3. ASSUME PodRestarts PROVE Inv'
  <2>1. Shape'
    BY <1>0, <1>3 DEF Shape, PodRestarts, Alive, Ended
  <2>2. \A p \in Ops : Good(p)'
    BY <1>0, <1>3 DEF Shape, Good, Fresh, TaskAndChild, WireIsTrue, ResultIsTrue, LockIsTrue,
      PodRestarts, Alive, Ended, Active
  <2>3. Exclusive'
    BY <1>0, <1>3 DEF Exclusive, Conflict, PodRestarts, Alive
  <2> QED
    BY <2>1, <2>2, <2>3 DEF Inv
<1>4. ASSUME Others PROVE Inv'
  <2>1. Shape'
    BY <1>0, <1>4 DEF Shape, Others, request
  <2>2. \A p \in Ops : Good(p)'
    BY <1>0, <1>4, Numbers DEF Good, Fresh, TaskAndChild, WireIsTrue, ResultIsTrue, LockIsTrue,
      Others, request
  <2>3. Exclusive'
    BY <1>0, <1>4, Numbers DEF Exclusive, Conflict, Others, request
  <2> QED
    BY <2>1, <2>2, <2>3 DEF Inv
<1>5. ASSUME CancelUpdate PROVE Inv'
  <2>1. Shape'
    BY <1>0, <1>5 DEF Shape, CancelUpdate, request
  <2>2. \A p \in Ops : Good(p)'
    BY <1>0, <1>5, Numbers DEF Good, Fresh, TaskAndChild, WireIsTrue, ResultIsTrue, LockIsTrue,
      CancelUpdate, request
  <2>3. Exclusive'
    BY <1>5 DEF Exclusive, Conflict, CancelUpdate, request
  <2> QED
    BY <2>1, <2>2, <2>3 DEF Inv
<1>6. ASSUME UNCHANGED vars PROVE Inv'
  BY <1>0, <1>6 DEF Inv, Shape, Good, Fresh, TaskAndChild, WireIsTrue, ResultIsTrue, LockIsTrue,
    Exclusive, Conflict, vars
<1> QED
  BY <1>1, <1>2, <1>3, <1>4, <1>5, <1>6 DEF Next, Step

LEMMA Invariance == Spec => []Inv
<1> QED
  BY InitInv, InvStep, PTL DEF Spec

\* An up or destroy recorded as succeeded is one whose pulumi ended well (server.rs, up and
\* destroy; update.rs, stream_update), for any number of operations.
THEOREM RecordedSuccess == Spec => []SuccessIsReal
<1>1. Inv => SuccessIsReal
  BY DEF Inv, Good, ResultIsTrue, SuccessIsReal
<1> QED
  BY <1>1, Invariance, PTL

\* What is recorded as stopped by the lock never had it.
THEOREM LockStops == Spec => []LockedChangedNothing
<1>1. Inv => LockedChangedNothing
  BY DEF Inv, Good, ResultIsTrue, LockedChangedNothing
<1> QED
  BY <1>1, Invariance, PTL

\* A lock is held by a process at work or left by one that was killed and is not recorded
\* as a success.
THEOREM StaleLocks == Spec => []StaleLockIsKnown
<1>1. Inv => StaleLockIsKnown
  BY DEF Inv, Good, ResultIsTrue, LockIsTrue, StaleLockIsKnown, Ended
<1> QED
  BY <1>1, Invariance, PTL

---------------------------------------------------------------------------
(* Types.  Shape has those of what the other theorems speak of; these are the rest. *)

Counts ==
    /\ tries \in [Ops -> 0 .. MaxAttempts]
    /\ cancelled \in [Ops -> BOOLEAN]
    /\ pipe \in [Ops -> [Streams -> 0 .. Capacity]]
    /\ kept \in [Ops -> [Streams -> 0 .. Limit]]
    /\ restarts \in 0 .. MaxRestarts

\* A line is read only from a pipe that has one, and kept only below the limit.
LEMMA CountsOfRead ==
    ASSUME Counts, NEW o \in Ops, NEW s \in Streams, Read(o, s) PROVE Counts'
<1>1. pipe[o][s] \in 0 .. Capacity /\ pipe[o][s] - 1 \in 0 .. Capacity
  BY ConstantsAssumption DEF Counts, Read
<1>2. (IF kept[o][s] < Limit /\ ~cancelled[o] THEN kept[o][s] + 1 ELSE kept[o][s]) \in 0 .. Limit
  BY ConstantsAssumption DEF Counts
<1>3. pipe' \in [Ops -> [Streams -> 0 .. Capacity]] /\ kept' \in [Ops -> [Streams -> 0 .. Limit]]
  BY <1>1, <1>2 DEF Counts, Read
<1> QED
  BY <1>3 DEF Counts, Read, request

LEMMA CountsOfStep ==
    ASSUME Counts, NEW o \in Ops, Step(o) PROVE Counts'
<1> USE ConstantsAssumption DEF Counts, request, agent, Empty
<1>1. ASSUME Start(o) PROVE Counts'
  BY <1>1 DEF Start
<1>2. ASSUME CallSucceeds(o) PROVE Counts'
  BY <1>2 DEF CallSucceeds
<1>3. ASSUME CallMeetsLock(o) PROVE Counts'
  BY <1>3 DEF CallMeetsLock, Record
<1>4. ASSUME CallFails(o) PROVE Counts'
  BY <1>4 DEF CallFails, Record
<1>5. ASSUME Request(o) PROVE Counts'
  BY <1>5 DEF Request
<1>6. ASSUME Receive(o) PROVE Counts'
  BY <1>6 DEF Receive, Record
<1>7. ASSUME GiveUp(o) PROVE Counts'
  BY <1>7 DEF GiveUp, Record
<1>8. ASSUME NoticeDrop(o) PROVE Counts'
  BY <1>8 DEF NoticeDrop
<1>9. ASSUME Spawn(o) PROVE Counts'
  BY <1>9 DEF Spawn
<1>10. ASSUME ReadStdout(o) PROVE Counts'
  <2>1. CASE Read(o, "out")
    BY <2>1, CountsOfRead DEF Streams
  <2>2. CASE StopReading(o, "out", "stderr")
    BY <2>2 DEF StopReading, Streams
  <2> QED
    BY <1>10, <2>1, <2>2 DEF ReadStdout
<1>11. ASSUME ReadStderr(o) PROVE Counts'
  <2>1. CASE Read(o, "err")
    BY <2>1, CountsOfRead DEF Streams
  <2>2. CASE StopReading(o, "err", "wait")
    BY <2>2 DEF StopReading, Streams
  <2> QED
    BY <1>11, <2>1, <2>2 DEF ReadStderr
<1>12. ASSUME Kill(o) PROVE Counts'
  BY <1>12 DEF Kill
<1>13. ASSUME Reply(o) PROVE Counts'
  BY <1>13 DEF Reply
<1>14. ASSUME TakeLock(o) PROVE Counts'
  BY <1>14 DEF TakeLock
<1>15. ASSUME Exit(o) PROVE Counts'
  BY <1>15 DEF Exit
<1>16. ASSUME NEW s \in Streams, Write(o, s) PROVE Counts'
  <2>1. CASE pipe[o][s] < Capacity /\ pipe' = [pipe EXCEPT ![o][s] = @ + 1]
    <3>1. pipe[o][s] + 1 \in 0 .. Capacity
      BY <2>1
    <3> QED
      BY <1>16, <2>1, <3>1 DEF Write
  <2>2. CASE UNCHANGED pipe
    BY <1>16, <2>2 DEF Write
  <2> QED
    BY <1>16, <2>1, <2>2 DEF Write
<1>17. ASSUME Panic(o) PROVE Counts'
  BY <1>17 DEF Panic
<1>18. ASSUME Wait(o) PROVE Counts'
  BY <1>18 DEF Wait
<1> QED
  BY <1>1, <1>2, <1>3, <1>4, <1>5, <1>6, <1>7, <1>8, <1>9, <1>10, <1>11, <1>12, <1>13, <1>14, <1>15, <1>16,
     <1>17, <1>18
     DEF Step, Executor, AgentTask, Pulumi

LEMMA CountsStep == Counts /\ [Next]_vars => Counts'
<1> SUFFICES ASSUME Counts, [Next]_vars PROVE Counts'
  OBVIOUS
<1>1. ASSUME NEW o \in Ops, Step(o) PROVE Counts'
  BY <1>1, CountsOfStep
<1>2. ASSUME OperatorRestarts PROVE Counts'
  BY <1>2, ConstantsAssumption DEF Counts, OperatorRestarts, agent
<1>3. ASSUME PodRestarts PROVE Counts'
  BY <1>3, ConstantsAssumption DEF Counts, PodRestarts, Empty
<1>4. ASSUME Others \/ CancelUpdate PROVE Counts'
  BY <1>4 DEF Counts, Others, CancelUpdate, request
<1>5. ASSUME UNCHANGED vars PROVE Counts'
  BY <1>5 DEF Counts, vars
<1> QED
  BY <1>1, <1>2, <1>3, <1>4, <1>5 DEF Next, Step

\* Every state has the declared types: in particular a call is not tried more often than
\* MaxAttempts, and no more output is kept than MAX_OUTPUT_BYTES (server.rs, lock.rs).
THEOREM TypeCorrect == Spec => []TypeOK
<1>1. Init => Counts
  BY ConstantsAssumption DEF Init, Counts, Empty
<1>2. Inv /\ Counts => TypeOK
  BY DEF Inv, Shape, Counts, TypeOK
<1> QED
  BY <1>1, <1>2, CountsStep, Invariance, PTL DEF Spec
---------------------------------------------------------------------------
(* AgentOperation implements OperationContract. *)

\* Executions begin one after the other.
Sequential ==
    \A p, q \in Ops : p < q /\ client[q] # "new" => client[p] \in {"recorded", "lost"}

\* What a step does to the execution of its operation.
LEMMA ClientOfStep ==
    ASSUME Shape, NEW o \in Ops, Step(o)
    PROVE  \/ Start(o)
           \/ client' = client
           \/ /\ client[o] \in Active
              /\ \E at \in Active \cup {"recorded", "lost"} : client' = [client EXCEPT ![o] = at]
<1> USE DEF Shape, request, agent, Active
<1>1. ASSUME CallSucceeds(o) \/ CallMeetsLock(o) \/ CallFails(o) \/ Request(o)
             \/ Receive(o) \/ Panic(o) \/ GiveUp(o)
      PROVE  client' = client \/ (/\ client[o] \in Active
                                 /\ \E at \in Active \cup {"recorded", "lost"} :
                                       client' = [client EXCEPT ![o] = at])
  BY <1>1 DEF CallSucceeds, CallMeetsLock, CallFails, Request, Receive, Panic, GiveUp, Record
<1>2. ASSUME AgentTask(o) \/ Pulumi(o) PROVE client' = client
  BY <1>2 DEF AgentTask, Pulumi, NoticeDrop, Spawn, ReadStdout, ReadStderr, Read, StopReading, Wait,
     Kill, Reply, TakeLock, Write, Exit
<1> QED
  BY <1>1, <1>2 DEF Step, Executor

LEMMA SequentialStep ==
    ASSUME Inv, Sequential, [Next]_vars PROVE Sequential'
<1>0. Shape
  BY DEF Inv
<1>1. ASSUME NEW o \in Ops, Start(o) PROVE Sequential'
  <2>1. client' = [client EXCEPT ![o] = "select"] /\ client[o] = "new"
    BY <1>1 DEF Start
  <2>2. \A p \in Ops : p < o => client[p] \in {"recorded", "lost"}
    BY <1>1, ConstantsAssumption DEF Start, Ops
  <2> QED
    BY <1>0, <2>1, <2>2 DEF Sequential, Shape
<1>2. ASSUME NEW o \in Ops, client[o] \in Active, NEW at \in Active \cup {"recorded", "lost"},
             client' = [client EXCEPT ![o] = at]
      PROVE  Sequential'
  <2>1. client[o] # "new" /\ client[o] \notin {"recorded", "lost"}
    BY <1>2 DEF Active
  <2> QED
    BY <1>0, <1>2, <2>1 DEF Sequential, Shape
<1>3. ASSUME client' = client PROVE Sequential'
  BY <1>3 DEF Sequential
<1>4. ASSUME OperatorRestarts PROVE Sequential'
  BY <1>0, <1>4 DEF Sequential, OperatorRestarts, Shape, Active
<1>5. ASSUME PodRestarts \/ Others \/ CancelUpdate \/ UNCHANGED vars PROVE Sequential'
  BY <1>3, <1>5 DEF PodRestarts, Others, CancelUpdate, request, vars
<1> QED
  BY <1>0, <1>1, <1>2, <1>3, <1>4, <1>5, ClientOfStep DEF Next, Step

OutcomeMap == [o \in Ops |-> Outcome(o)]
EffectMap  == [o \in Ops |-> Effect(o)]

ContractStep == Contract!Next \/ UNCHANGED <<OutcomeMap, EffectMap>>

LEMMA InitRefines == Init => Contract!Init
  BY DEF Init, Contract!Init, Outcome, Effect

\* An operation at work has nothing recorded of it but a failure.
LEMMA AtWorkIsOpen ==
    ASSUME Inv, NEW o \in Ops, child[o] \in Alive PROVE Outcome(o) \in {"running", "failed", "lost"}
  BY DEF Inv, Shape, Good, Fresh, ResultIsTrue, Outcome, Alive, Ended, Active

\* A step changes the outcome or the effect of its own operation only.
LEMMA OwnChange ==
    ASSUME Inv, NEW o \in Ops, Step(o)
    PROVE  /\ Outcome(o)' = Outcome(o) => OutcomeMap' = OutcomeMap
           /\ Effect(o)' = Effect(o) => EffectMap' = EffectMap
           /\ OutcomeMap' = [OutcomeMap EXCEPT ![o] = Outcome(o)']
           /\ EffectMap' = [EffectMap EXCEPT ![o] = Effect(o)']
<1>1. \A p \in Ops : p # o => Outcome(p)' = Outcome(p) /\ Effect(p)' = Effect(p)
  BY OthersSame DEF Inv, Same, Outcome, Effect
<1> QED
  BY <1>1 DEF OutcomeMap, EffectMap

\* How a step of one operation looks to the contract.
LEMMA ConcludeStep ==
    ASSUME Inv, NEW o \in Ops, Step(o), Outcome(o) = "running", Effect(o)' = Effect(o),
           NEW how \in {"succeeded", "answered", "failed", "locked"}, Outcome(o)' = how,
           how = "succeeded" => Effect(o) = "applied",
           how = "answered" => Effect(o) # "working",
           how = "locked" => Effect(o) = "none"
    PROVE  ContractStep
<1>1. Contract!Conclude(o, how)
  BY OwnChange DEF Contract!Conclude, OutcomeMap, EffectMap
<1> QED
  BY <1>1 DEF ContractStep, Contract!Next

LEMMA QuietStep ==
    ASSUME Inv, NEW o \in Ops, Step(o), Outcome(o)' = Outcome(o), Effect(o)' = Effect(o)
    PROVE  ContractStep
  BY OwnChange DEF ContractStep

LEMMA ExecutorRefines ==
    ASSUME Inv, Sequential, NEW o \in Ops, Executor(o) PROVE ContractStep
<1>0. Shape /\ Good(o) /\ Step(o)
  BY DEF Inv, Step
<1>1. ASSUME Start(o) PROVE ContractStep
  <2>1. Outcome(o) = "idle" /\ Outcome(o)' = "running" /\ Effect(o)' = Effect(o)
    BY <1>0, <1>1 DEF Start, Shape, Outcome, Effect, agent, Active
  <2>2. ASSUME NEW p \in Ops PROVE client[p] \notin Active
    <3>1. CASE p < o
      BY <1>1, <3>1, ConstantsAssumption DEF Start, Ops, Active
    <3>2. CASE p = o
      BY <1>1, <3>2 DEF Start, Active
    <3>3. CASE o < p
      BY <1>1, <3>3 DEF Start, Active, Sequential
    <3> QED
      BY <3>1, <3>2, <3>3, ConstantsAssumption DEF Ops
  <2>3. \A p \in Ops : Outcome(p) # "running"
    BY <1>0, <2>2 DEF Outcome, Shape
  <2>4. Contract!Begin(o)
    BY <1>0, <2>1, <2>3, OwnChange DEF Contract!Begin, OutcomeMap, EffectMap
  <2> QED
    BY <2>4 DEF ContractStep, Contract!Next
<1>2. ASSUME CallSucceeds(o) PROVE ContractStep
  BY <1>0, <1>2, QuietStep DEF CallSucceeds, Shape, Outcome, Effect, agent, Active
<1>3. ASSUME Request(o) PROVE ContractStep
  BY <1>0, <1>3, QuietStep DEF Request, Shape, Outcome, Effect, Active
<1>4. ASSUME NEW how \in {"failed", "locked"}, Record(o, how), client[o] \in Active,
             UNCHANGED <<kind, agent>>, how = "locked" => Effect(o) = "none"
      PROVE  ContractStep
  <2>1. Outcome(o) = "running" /\ Outcome(o)' = how /\ Effect(o)' = Effect(o)
    BY <1>0, <1>4 DEF Record, Shape, Outcome, Effect, agent, Active
  <2> QED
    BY <1>0, <1>4, <2>1, ConcludeStep
<1>5. ASSUME CallMeetsLock(o) PROVE ContractStep
  <2>1. CASE tries[o] + 1 < MaxAttempts
    BY <1>0, <1>5, <2>1, QuietStep DEF CallMeetsLock, Outcome, Effect, agent
  <2>2. CASE ~(tries[o] + 1 < MaxAttempts)
    <3>1. child[o] = "none"
      BY <1>0, <1>5 DEF CallMeetsLock, Good, Fresh
    <3> QED
      BY <1>4, <1>5, <2>2, <3>1 DEF CallMeetsLock, Effect, Active
  <2> QED
    BY <2>1, <2>2
<1>6. ASSUME CallFails(o) \/ GiveUp(o) PROVE ContractStep
  BY <1>4, <1>6 DEF CallFails, GiveUp, Active
<1>7. ASSUME Receive(o) PROVE ContractStep
  <2>1. Outcome(o) = "running" /\ Effect(o)' = Effect(o)
    BY <1>0, <1>7 DEF Receive, Outcome, Effect, Active
  <2>2. client'[o] = "recorded" /\ kind' = kind
    BY <1>0, <1>7 DEF Receive, Record, Shape
  <2>3. result'[o] = (IF wire[o] = "result" THEN "succeeded" ELSE wire[o])
    BY <1>0, <1>7 DEF Receive, Record, Shape
  <2>4. CASE wire[o] = "result" /\ kind[o] \in Checked
    <3>1. Outcome(o)' = "succeeded" /\ Effect(o) = "applied"
      BY <1>0, <2>2, <2>3, <2>4 DEF Outcome, Effect, Good, WireIsTrue, Active
    <3> QED
      BY <1>0, <2>1, <3>1, ConcludeStep
  <2>5. CASE wire[o] = "result" /\ kind[o] \notin Checked
    <3>1. Outcome(o)' = "answered" /\ Effect(o) # "working"
      BY <1>0, <2>2, <2>3, <2>5 DEF Outcome, Effect, Good, WireIsTrue, Ended, Active
    <3> QED
      BY <1>0, <2>1, <3>1, ConcludeStep
  <2>6. CASE wire[o] = "locked"
    <3>1. Outcome(o)' = "locked" /\ Effect(o) = "none"
      BY <1>0, <2>2, <2>3, <2>6 DEF Outcome, Effect, Good, WireIsTrue, Active
    <3> QED
      BY <1>0, <2>1, <3>1, ConcludeStep
  <2>7. CASE wire[o] = "failed"
    <3>1. Outcome(o)' = "failed"
      BY <2>2, <2>3, <2>7 DEF Outcome, Active
    <3> QED
      BY <1>0, <2>1, <3>1, ConcludeStep
  <2> QED
    BY <1>0, <1>7, <2>4, <2>5, <2>6, <2>7 DEF Receive, Shape
<1>8. ASSUME Panic(o) PROVE ContractStep
  <2>1. Outcome(o) = "running" /\ Outcome(o)' = "lost" /\ Effect(o)' = Effect(o)
    BY <1>0, <1>8 DEF Panic, Shape, Outcome, Effect, Active
  <2>2. OutcomeMap' = [p \in Ops |-> IF p \in {o} THEN "lost" ELSE OutcomeMap[p]]
    BY <1>0, <2>1, OwnChange DEF OutcomeMap
  <2>3. Contract!Lose({o})
    BY <1>0, <2>1, <2>2, OwnChange DEF Contract!Lose, OutcomeMap, EffectMap
  <2> QED
    BY <2>3 DEF ContractStep, Contract!Next
<1> QED
  BY <1>1, <1>2, <1>3, <1>5, <1>6, <1>7, <1>8 DEF Executor

LEMMA AgentRefines ==
    ASSUME Inv, NEW o \in Ops, AgentTask(o) PROVE ContractStep
<1>0. Shape /\ Good(o) /\ Step(o)
  BY DEF Inv, Step
<1>1. Outcome(o)' = Outcome(o)
  BY DEF AgentTask, NoticeDrop, Spawn, ReadStdout, ReadStderr, Read, StopReading, Wait, Kill, Reply,
     request, Outcome
<1>2. ASSUME NoticeDrop(o) \/ ReadStdout(o) \/ ReadStderr(o) \/ Wait(o) \/ Reply(o)
      PROVE  ContractStep
  <2>1. child' = child
    BY <1>2 DEF NoticeDrop, ReadStdout, ReadStderr, Read, StopReading, Wait, Reply
  <2> QED
    BY <1>0, <1>1, <2>1, QuietStep DEF Effect
<1>3. ASSUME Spawn(o) PROVE ContractStep
  <2>1. Effect(o)' = Effect(o)
    BY <1>0, <1>3 DEF Spawn, Shape, Good, Fresh, Effect
  <2> QED
    BY <1>0, <1>1, <2>1, QuietStep
<1>4. ASSUME Kill(o) PROVE ContractStep
  <2>1. CASE child[o] \notin Alive
    BY <1>0, <1>1, <1>4, <2>1, QuietStep DEF Kill, Shape, Effect
  <2>2. CASE child[o] \in Alive
    <3>1. Effect(o) \in {"none", "working"} /\ Effect(o)' = "interrupted"
      BY <1>0, <1>4, <2>2 DEF Kill, Shape, Effect, Alive
    <3>2. EffectMap' = [p \in Ops |-> IF p \in {o} THEN "interrupted" ELSE EffectMap[p]]
      BY <1>0, <3>1, OwnChange DEF EffectMap
    <3>3. Contract!Interrupt({o})
      BY <1>0, <1>1, <2>2, <3>1, <3>2, OwnChange, AtWorkIsOpen
      DEF Contract!Interrupt, Contract!Open, OutcomeMap, EffectMap
    <3> QED
      BY <3>3 DEF ContractStep, Contract!Next
  <2> QED
    BY <2>1, <2>2
<1> QED
  BY <1>2, <1>3, <1>4 DEF AgentTask

LEMMA PulumiRefines ==
    ASSUME Inv, NEW o \in Ops, Pulumi(o) PROVE ContractStep
<1>0. Shape /\ Good(o) /\ Step(o)
  BY DEF Inv, Step
<1>1. Outcome(o)' = Outcome(o)
  BY DEF Pulumi, TakeLock, Write, Exit, request, Outcome
<1>2. ASSUME TakeLock(o) PROVE ContractStep
  <2>1. CASE lock = NoOne
    <3>1. Effect(o) = "none" /\ Effect(o)' = "working"
      BY <1>0, <1>2, <2>1 DEF TakeLock, Shape, Effect
    <3>2. \/ \A p \in Ops : EffectMap[p] # "working"
          \/ \E p \in Ops : OutcomeMap[p] = "locked"
      <4>1. CASE Conflict
        BY <4>1 DEF Inv, Shape, Good, Fresh, Conflict, OutcomeMap, Outcome, Active
      <4>2. CASE \A p \in Ops : child[p] = "working" => lock = p
        BY <2>1, <4>2, Numbers DEF EffectMap, Effect
      <4> QED
        BY <4>1, <4>2 DEF Inv, Exclusive
    <3>3. Outcome(o) \in {"running", "failed", "lost"}
      BY <1>2, AtWorkIsOpen DEF TakeLock, Alive
    <3>4. Contract!Work(o)
      BY <1>0, <1>1, <3>1, <3>2, <3>3, OwnChange
      DEF Contract!Work, Contract!Open, OutcomeMap, EffectMap
    <3> QED
      BY <3>4 DEF ContractStep, Contract!Next
  <2>2. CASE lock # NoOne
    <3>1. Effect(o)' = Effect(o)
      BY <1>0, <1>2, <2>2 DEF TakeLock, Shape, Effect
    <3> QED
      BY <1>0, <1>1, <3>1, QuietStep
  <2> QED
    BY <2>1, <2>2
<1>3. ASSUME NEW s \in Streams, Write(o, s) PROVE ContractStep
  <2>1. CASE UNCHANGED child
    BY <1>0, <1>1, <2>1, QuietStep DEF Effect
  <2>2. CASE child' = [child EXCEPT ![o] = "killed"]
    <3>1. Effect(o) = "working" /\ Effect(o)' = "interrupted"
      BY <1>0, <1>3, <2>2 DEF Write, Shape, Effect
    <3>2. Contract!Finish(o, "interrupted")
      BY <1>0, <1>1, <3>1, OwnChange DEF Contract!Finish, OutcomeMap, EffectMap
    <3> QED
      BY <3>2 DEF ContractStep, Contract!Next
  <2> QED
    BY <1>3, <2>1, <2>2 DEF Write
<1>4. ASSUME Exit(o) PROVE ContractStep
  <2>1. Effect(o) = "working" /\ Effect(o)' \in {"applied", "interrupted"}
    BY <1>0, <1>4 DEF Exit, Shape, Effect
  <2>2. Contract!Finish(o, Effect(o)')
    BY <1>0, <1>1, <2>1, OwnChange DEF Contract!Finish, OutcomeMap, EffectMap
  <2> QED
    BY <2>1, <2>2 DEF ContractStep, Contract!Next
<1> QED
  BY <1>2, <1>3, <1>4 DEF Pulumi

LEMMA RestartsRefine ==
    ASSUME Inv, OperatorRestarts \/ PodRestarts \/ CancelUpdate \/ Others PROVE ContractStep
<1>0. Shape
  BY DEF Inv
<1>1. ASSUME OperatorRestarts PROVE ContractStep
  <2> DEFINE S == {o \in Ops : client[o] \in Active}
  <2>1. EffectMap' = EffectMap
    BY <1>1 DEF OperatorRestarts, agent, EffectMap, Effect
  <2>2. \A o \in Ops : Outcome(o)' = IF o \in S THEN "lost" ELSE Outcome(o)
    BY <1>0, <1>1 DEF OperatorRestarts, Shape, Outcome, Active
  <2>3. CASE S = {}
    BY <2>1, <2>2, <2>3 DEF ContractStep, OutcomeMap
  <2>4. CASE S # {}
    <3>1. \A o \in S : Outcome(o) = "running"
      BY DEF Outcome, Active
    <3>2. Contract!Lose(S)
      BY <2>1, <2>2, <2>4, <3>1 DEF Contract!Lose, OutcomeMap, EffectMap
    <3> QED
      BY <3>2 DEF ContractStep, Contract!Next
  <2> QED
    BY <2>3, <2>4
<1>2. ASSUME PodRestarts PROVE ContractStep
  <2> DEFINE S == {o \in Ops : child[o] \in Alive}
  <2>1. OutcomeMap' = OutcomeMap
    BY <1>2 DEF PodRestarts, OutcomeMap, Outcome
  <2>2. \A o \in Ops : Effect(o)' = IF o \in S THEN "interrupted" ELSE Effect(o)
    BY <1>0, <1>2 DEF PodRestarts, Shape, Effect, Alive
  <2>3. CASE S = {}
    BY <2>1, <2>2, <2>3 DEF ContractStep, EffectMap
  <2>4. CASE S # {}
    <3>1. \A o \in S : Effect(o) \in {"none", "working"}
      BY DEF Effect, Alive
    <3>2. \A o \in S : Outcome(o) \in {"running", "failed", "lost"}
      BY AtWorkIsOpen
    <3>3. Contract!Interrupt(S)
      BY <2>1, <2>2, <2>4, <3>1, <3>2
      DEF Contract!Interrupt, Contract!Open, OutcomeMap, EffectMap
    <3> QED
      BY <3>3 DEF ContractStep, Contract!Next
  <2> QED
    BY <2>3, <2>4
<1>3. ASSUME CancelUpdate \/ Others PROVE ContractStep
  BY <1>3 DEF CancelUpdate, Others, request, ContractStep, OutcomeMap, EffectMap, Outcome, Effect
<1> QED
  BY <1>1, <1>2, <1>3

LEMMA StepRefines == Inv /\ Sequential /\ [Next]_vars => [Contract!Next]_(Contract!vars)
<1> SUFFICES ASSUME Inv, Sequential, [Next]_vars PROVE ContractStep
  BY DEF ContractStep, Contract!vars, OutcomeMap, EffectMap
<1>1. ASSUME UNCHANGED vars PROVE ContractStep
  BY <1>1 DEF vars, ContractStep, OutcomeMap, EffectMap, Outcome, Effect
<1> QED
  BY <1>1, ExecutorRefines, AgentRefines, PulumiRefines, RestartsRefine DEF Next

\* Executor, agent and process together keep OperationContract (stream_update, execute_update,
\* run_pulumi_streaming, cancel_update), for any number of operations: one outcome each, nothing
\* after a success or a conflict, and one at work at a time until a conflict is recorded.
THEOREM Implements == Spec => RefinesOperation
<1>1. Init => Sequential
  BY DEF Init, Sequential
<1>2. Inv /\ Sequential /\ [Next]_vars => Sequential'
  BY SequentialStep
<1> QED
  BY <1>1, <1>2, InitRefines, StepRefines, Invariance, PTL DEF Spec, RefinesOperation, Contract!Spec

---------------------------------------------------------------------------
(* What the actor builds on between two operations: the outcome it reads is final, and   *)
(* behind a success or a conflict nothing is left that could still change the backend.   *)

\* Nothing more comes of an operation that has succeeded, or that met the lock.
Final(o) ==
    result[o] # "none" =>
       /\ result'[o] = result[o]
       /\ result[o] \in {"succeeded", "locked"} => child'[o] = child[o]

OutcomesAreFinal == [][\A o \in Ops : Final(o)]_vars

\* The executor is done with what has an outcome.
LEMMA ExecutorIsDone ==
    ASSUME Inv, NEW o \in Ops, result[o] # "none"
    PROVE  ~ Executor(o)
<1>1. client[o] \in {"recorded", "lost"}
  BY DEF Inv, Shape, Good, Fresh
<1> QED
  BY <1>1 DEF Executor, Start, CallSucceeds, CallMeetsLock, CallFails, Request, Receive, Panic, GiveUp,
     Active

\* A process behind a success or a conflict is over, or was never asked for.
LEMMA ProcessIsDone ==
    ASSUME Inv, NEW o \in Ops, result[o] \in {"succeeded", "locked"}
    PROVE  child[o] \notin Alive /\ (task[o] = "spawn" => child[o] # "none")
<1>1. child[o] \in Ended \/ (child[o] = "none" /\ task[o] = "none")
  BY DEF Inv, Good, ResultIsTrue, Ended
<1> QED
  BY <1>1 DEF Alive, Ended

\* A step of the agent or of pulumi leaves it alone.
LEMMA OwnStepIsFinal ==
    ASSUME Inv, NEW o \in Ops, AgentTask(o) \/ Pulumi(o)
    PROVE  Final(o)
<1>1. result' = result
  BY DEF AgentTask, NoticeDrop, Spawn, ReadStdout, ReadStderr, Read, StopReading, Wait, Kill, Reply,
     Pulumi, TakeLock, Write, Exit, request
<1>2. ASSUME result[o] \in {"succeeded", "locked"} PROVE child'[o] = child[o]
  <2>0. /\ child \in [Ops -> {"none"} \cup Alive \cup Ended]
        /\ child[o] \notin Alive
        /\ task[o] = "spawn" => child[o] = "none"
        /\ task[o] # "spawn"
    BY <1>2, ProcessIsDone DEF Inv, Shape, Good, Fresh
  <2>1. CASE AgentTask(o)
    <3>1. ~ Spawn(o)
      BY <2>0 DEF Spawn
    <3>2. Kill(o) => child'[o] = child[o]
      BY <2>0 DEF Kill
    <3>3. NoticeDrop(o) \/ ReadStdout(o) \/ ReadStderr(o) \/ Wait(o) \/ Reply(o) => child' = child
      BY DEF NoticeDrop, ReadStdout, ReadStderr, Read, StopReading, Wait, Reply
    <3> QED
      BY <2>1, <3>1, <3>2, <3>3 DEF AgentTask
  <2>2. CASE Pulumi(o)
    BY <2>0, <2>2 DEF Pulumi, TakeLock, Write, Exit, Alive
  <2> QED
    BY <2>1, <2>2
<1> QED
  BY <1>1, <1>2 DEF Final

\* Nor does any other.
LEMMA StepIsFinal == Inv /\ [Next]_vars => [\A o \in Ops : Final(o)]_vars
<1> SUFFICES ASSUME Inv, Next, NEW o \in Ops, result[o] # "none" PROVE Final(o)
  BY DEF Final
<1>1. ASSUME NEW p \in Ops, Executor(p) \/ AgentTask(p) \/ Pulumi(p) PROVE Final(o)
  <2>1. CASE p = o
    BY <1>1, <2>1, ExecutorIsDone, OwnStepIsFinal
  <2>2. CASE p # o
    <3>1. Same(o)
      BY <1>1, <2>2, OthersSame DEF Inv, Step
    <3> QED
      BY <3>1 DEF Same, Final
  <2> QED
    BY <2>1, <2>2
<1>2. CASE OperatorRestarts
  BY <1>2 DEF OperatorRestarts, agent, Final
<1>3. CASE PodRestarts
  <2>1. result' = result /\ (child[o] \notin Alive => child'[o] = child[o])
    BY <1>3 DEF PodRestarts
  <2> QED
    BY <2>1, ProcessIsDone DEF Final
<1>4. CASE Others \/ CancelUpdate
  BY <1>4 DEF Others, CancelUpdate, request, Final
<1> QED
  BY <1>1, <1>2, <1>3, <1>4 DEF Next

\* However the operator and the pod restart, streams break and timeouts fire: what is
\* recorded of an operation stays, and behind a success or a conflict nothing moves any more
\* (stream_update, which records those only from the task's reply; run_pulumi_streaming, which
\* replies only once the process has ended).
THEOREM OutcomeIsFinal == Spec => OutcomesAreFinal
  BY Invariance, StepIsFinal, PTL DEF Spec, OutcomesAreFinal
================================================================================
