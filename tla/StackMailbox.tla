----------------------------- MODULE StackMailbox -----------------------------
(***************************************************************************)
(* How a change reaches the actor of a Stack: watchers that drop what does *)
(* not fit into its mailbox, tasks that sleep and then send a Retry, the   *)
(* debounce window that drops what comes early, and the batch of messages  *)
(* that the actor takes and works off by priority.                         *)
(*                                                                         *)
(* A revision counts the changes of the objects a reconcile reads; seen is *)
(* the one the actor read last.  The lengths of delays are left out: a     *)
(* sleep that was started later may end earlier, as delays range from two  *)
(* seconds to a day.  The pipeline is StackLifecycle's; here it is only    *)
(* what it asks for at its end.                                            *)
(***************************************************************************)
EXTENDS Naturals

CONSTANTS
    Capacity,     \* of the channel
    Timers,       \* bound: sleeping tasks at one time
    MaxRevision,  \* bound on changes
    MaxFaults,    \* bound on reads that fail
    None          \* the absent value

ASSUME ConstantsAssumption ==
    /\ Capacity \in Nat \ {0}
    /\ MaxRevision \in Nat /\ MaxFaults \in Nat
    /\ None \notin Timers

VARIABLES
    revision, seen, faults,
    unsent,    \* watch events not yet dispatched
    mailbox,   \* messages in the channel, by kind
    heap,      \* the batch, by kind
    timers,    \* what each requeue task is doing
    window,    \* the task whose delay is next_reconcile_at, or None
    pc         \* of the actor

vars == <<revision, seen, faults, unsent, mailbox, heap, timers, window, pc>>

\* A watcher's message; a Retry of WaitForUpdate or WaitForWorkspace; one after a
\* failure; a LockRetry.
Kinds    == {"event", "check", "retry", "lockRetry"}
Requeues == Kinds \ {"event"}
Rank     == [event |-> 3, check |-> 3, retry |-> 2, lockRetry |-> 1]

Batch    == [Kinds -> Nat]
Nothing  == [kind \in Kinds |-> 0]
Total(b) == b["event"] + b["check"] + b["retry"] + b["lockRetry"]
Full     == Total(mailbox) >= Capacity

\* A task sleeps, then sends, which may have to wait for room.
Timer == [state : {"free", "sleeping", "sending"}, kind : Requeues]

\* The type invariant.
TypeOK ==
    /\ revision \in Nat /\ seen \in Nat /\ faults \in Nat /\ unsent \in Nat
    /\ mailbox \in Batch /\ Total(mailbox) <= Capacity
    /\ heap \in Batch
    /\ timers \in [Timers -> Timer]
    /\ window \in Timers \cup {None}
    /\ pc \in {"receiving", "processing", "reading", "handling"}

-------------------------------------------------------------------------------
(* The senders *)

Change ==
    /\ revision < MaxRevision
    /\ revision' = revision + 1
    /\ unsent' = unsent + 1
    /\ UNCHANGED <<seen, faults, mailbox, heap, timers, window, pc>>

\* dispatch_with_priority: try_send, always at Normal priority; a full mailbox drops it.
Dispatch ==
    /\ unsent > 0
    /\ unsent' = unsent - 1
    /\ mailbox' = IF Full THEN mailbox ELSE [mailbox EXCEPT !["event"] = @ + 1]
    /\ UNCHANGED <<revision, seen, faults, heap, timers, window, pc>>

DelayElapses(t) ==
    /\ timers[t].state = "sleeping"
    /\ timers' = [timers EXCEPT ![t].state = "sending"]
    /\ UNCHANGED <<revision, seen, faults, unsent, mailbox, heap, window, pc>>

SendRetryUnbounded(t) ==
    /\ timers[t].state = "sending"
    /\ mailbox' = [mailbox EXCEPT ![timers[t].kind] = @ + 1]
    /\ timers' = [timers EXCEPT ![t].state = "free"]
    /\ UNCHANGED <<revision, seen, faults, unsent, heap, window, pc>>

\* send, unlike try_send, waits for room.
SendRetry(t) ==
    /\ timers[t].state = "sending"
    /\ ~Full
    /\ mailbox' = [mailbox EXCEPT ![timers[t].kind] = @ + 1]
    /\ timers' = [timers EXCEPT ![t].state = "free"]
    /\ UNCHANGED <<revision, seen, faults, unsent, heap, window, pc>>

-------------------------------------------------------------------------------
(* The actor *)

\* recv, and try_recv until the channel is empty: everything moves into the heap (what
\* is sent while this goes on is taken as sent before or after).
Drain ==
    /\ pc = "receiving" /\ mailbox # Nothing
    /\ heap' = [kind \in Kinds |-> heap[kind] + mailbox[kind]]
    /\ mailbox' = Nothing
    /\ pc' = "processing"
    /\ UNCHANGED <<revision, seen, faults, unsent, timers, window>>

\* Nothing is left of the batch: back to recv.
BatchDone ==
    /\ pc = "processing" /\ heap = Nothing
    /\ pc' = "receiving"
    /\ UNCHANGED <<revision, seen, faults, unsent, mailbox, heap, timers, window>>

\* One of the highest priority; the heap does not order equals.
Popped(kind) ==
    /\ pc = "processing" /\ heap[kind] > 0
    /\ \A other \in Kinds : heap[other] > 0 => Rank[kind] <= Rank[other]
    /\ heap' = [heap EXCEPT ![kind] = @ - 1]

\* now < next_reconcile_at: the task that was spawned with it still sleeps.
InWindow == window # None /\ timers[window].state = "sleeping"

Debounce ==
    /\ Popped("event") /\ InWindow
    /\ UNCHANGED <<revision, seen, faults, unsent, mailbox, timers, window, pc>>

Proceed(kind) ==
    /\ Popped(kind)
    /\ kind = "event" => ~InWindow
    /\ window' = None
    /\ pc' = "reading"
    /\ UNCHANGED <<revision, seen, faults, unsent, mailbox, timers>>

ReadFromCache ==
    /\ pc = "reading"
    /\ seen' \in seen .. revision
    /\ pc' = "handling"
    /\ UNCHANGED <<revision, faults, unsent, mailbox, heap, timers, window>>

\* The Stack is read from the API server, not from a watcher's cache.
Read ==
    /\ pc = "reading"
    /\ seen' = revision
    /\ pc' = "handling"
    /\ UNCHANGED <<revision, faults, unsent, mailbox, heap, timers, window>>

WindowOnly(kind) ==
    \E t \in Timers :
        /\ timers[t].state = "free"
        /\ window' = t
        /\ timers' = [timers EXCEPT ![t] = [state |-> "free", kind |-> kind]]

\* schedule_requeue: the window and the task that ends it.
ScheduleRequeue(kind) ==
    \E t \in Timers :
        /\ timers[t].state = "free"
        /\ window' = t
        /\ timers' = [timers EXCEPT ![t] = [state |-> "sleeping", kind |-> kind]]

\* The Stack could not be read: a Retry in 5 s.
ReadFails ==
    /\ pc = "reading" /\ faults < MaxFaults
    /\ faults' = faults + 1
    /\ ScheduleRequeue("retry")
    /\ pc' = "processing"
    /\ UNCHANGED <<revision, seen, unsent, mailbox, heap>>

\* The handler ends with a requeue (waiting, or after a failure) or with none (the Stack
\* is synced, stalled or gone, or the next event is what it waits for).
Handled ==
    /\ pc = "handling"
    /\ \/ \E kind \in Requeues : ScheduleRequeue(kind)
       \/ UNCHANGED <<timers, window>>
    /\ pc' = "processing"
    /\ UNCHANGED <<revision, seen, faults, unsent, mailbox, heap>>

Actor ==
    \/ Drain \/ BatchDone \/ Debounce \/ Read \/ ReadFails \/ Handled
    \/ \E kind \in Kinds : Proceed(kind)

\* The Stack exists; its first event is on its way.
Init ==
    /\ revision = 1 /\ seen = 0 /\ faults = 0 /\ unsent = 1
    /\ mailbox = Nothing /\ heap = Nothing
    /\ timers = [t \in Timers |-> [state |-> "free", kind |-> "check"]]
    /\ window = None
    /\ pc = "receiving"

Next ==
    \/ Change \/ Dispatch \/ Actor
    \/ \E t \in Timers : DelayElapses(t) \/ SendRetry(t)

Spec == Init /\ [][Next]_vars

\* Watchers, the actor and the tasks of the runtime keep going, and those waiting for
\* room in the channel are served in turn.  Changes and failures need not happen.
FairSpec ==
    /\ Spec
    /\ WF_vars(Dispatch) /\ WF_vars(Actor)
    /\ \A t \in Timers : WF_vars(DelayElapses(t)) /\ SF_vars(SendRetry(t))

-------------------------------------------------------------------------------
(* Properties *)

\* Whatever was dropped, by the full mailbox or by the debounce window, the actor that
\* has not seen the latest change has a reason to look again: an event on its way, a
\* message, a task that will send one, or a read it is about to make ("If full, the
\* actor already has work queued and will reconcile", dispatcher.rs:65).
NothingForgotten ==
    seen # revision =>
        \/ unsent > 0 \/ mailbox # Nothing \/ heap # Nothing \/ pc = "reading"
        \/ \E t \in Timers : timers[t].state # "free"

\* The actor sees every change in the end, or a later one.
ChangesAreSeen == (seen # revision) ~> (seen = revision)
===============================================================================
