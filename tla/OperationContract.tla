--------------------------- MODULE OperationContract ---------------------------
(***************************************************************************)
(* What an Update may rely on when its Pulumi operation runs: operations   *)
(* are executed one after the other and work on the backend one at a time, *)
(* though one may still be at work when the next is executed, until the    *)
(* lock is the outcome of one of them and may be cleared; each gets at     *)
(* most one outcome; a success is one of an operation that has been        *)
(* applied and does nothing any more; one that the lock stopped never does *)
(* anything.  After a failure, or without an outcome, everything may still *)
(* happen.                                                                 *)
(***************************************************************************)
CONSTANT Operations

VARIABLES outcome,      \* of each operation, "idle" or "running" before it has one
          effect        \* of its pulumi on the backend

vars == <<outcome, effect>>

\* "answered" is the success of a preview or refresh, which says only that it is over.
Outcomes == {"idle", "running", "lost", "succeeded", "answered", "failed", "locked"}
Effects  == {"none", "working", "applied", "interrupted"}

TypeOK == outcome \in [Operations -> Outcomes] /\ effect \in [Operations -> Effects]

Init ==
    /\ outcome = [o \in Operations |-> "idle"]
    /\ effect = [o \in Operations |-> "none"]

\* An operation that may take effect: it is executed, or nothing is known of it.
Open(o) == outcome[o] \in {"running", "failed", "lost"}

Begin(o) ==
    /\ outcome[o] = "idle" /\ \A p \in Operations : outcome[p] # "running"
    /\ outcome' = [outcome EXCEPT ![o] = "running"]
    /\ UNCHANGED effect

Conclude(o, how) ==
    /\ outcome[o] = "running"
    /\ how = "succeeded" => effect[o] = "applied"
    /\ how = "answered" => effect[o] # "working"
    /\ how = "locked" => effect[o] = "none"
    /\ outcome' = [outcome EXCEPT ![o] = how]
    /\ UNCHANGED effect

\* The operator forgets what it executes.
Lose(S) ==
    /\ S # {} /\ \A o \in S : outcome[o] = "running"
    /\ outcome' = [o \in Operations |-> IF o \in S THEN "lost" ELSE outcome[o]]
    /\ UNCHANGED effect

\* Alone, unless a conflict was the reason to clear the lock.
Work(o) ==
    /\ Open(o) /\ effect[o] = "none"
    /\ \/ \A p \in Operations : effect[p] # "working"
       \/ \E p \in Operations : outcome[p] = "locked"
    /\ effect' = [effect EXCEPT ![o] = "working"]
    /\ UNCHANGED outcome

Finish(o, how) ==
    /\ effect[o] = "working"
    /\ effect' = [effect EXCEPT ![o] = how]
    /\ UNCHANGED outcome

Interrupt(S) ==
    /\ S # {} /\ \A o \in S : Open(o) /\ effect[o] \in {"none", "working"}
    /\ effect' = [o \in Operations |-> IF o \in S THEN "interrupted" ELSE effect[o]]
    /\ UNCHANGED outcome

Next ==
    \/ \E o \in Operations :
          \/ Begin(o) \/ Work(o)
          \/ \E how \in {"succeeded", "answered", "failed", "locked"} : Conclude(o, how)
          \/ \E how \in {"applied", "interrupted"} : Finish(o, how)
    \/ \E S \in SUBSET Operations : Lose(S) \/ Interrupt(S)

Spec == Init /\ [][Next]_vars
================================================================================
