------------------------- MODULE StackMailbox_proofs -------------------------
(***************************************************************************)
(* Proofs about StackMailbox.  NothingForgotten is inductive together with *)
(* the types: a watcher's message is only dropped by a full mailbox, which *)
(* holds others, or in a debounce window, whose task still sleeps.         *)
(***************************************************************************)
EXTENDS StackMailbox, TLAPS

Inv == TypeOK /\ NothingForgotten

LEMMA InitInv == Init => Inv
BY ConstantsAssumption
DEF Init, Inv, TypeOK, NothingForgotten, Batch, Nothing, Total, Kinds, Requeues, Timer

\* A mailbox that is full, and so holds what it has room for, is not empty.
LEMMA FullHolds == ASSUME TypeOK, Full PROVE mailbox # Nothing
BY ConstantsAssumption DEF TypeOK, Full, Total, Nothing, Kinds, Batch

\* What a batch has gained or lost one message of.
LEMMA OneMore ==
    ASSUME NEW b \in Batch, NEW kind \in Kinds
    PROVE  LET c == [b EXCEPT ![kind] = @ + 1] IN
           c \in Batch /\ c # Nothing /\ Total(c) = Total(b) + 1
<1> DEFINE c == [b EXCEPT ![kind] = @ + 1]
<1>1. c \in Batch /\ c[kind] = b[kind] + 1 /\ \A other \in Kinds : other # kind => c[other] = b[other]
  BY DEF Batch
<1>2. c # Nothing
  BY <1>1 DEF Nothing, Batch
<1>3. Total(c) = Total(b) + 1
  BY <1>1 DEF Total, Batch, Kinds
<1> QED
  BY <1>1, <1>2, <1>3

LEMMA SendersPreserveInv ==
    ASSUME Inv, Change \/ Dispatch \/ \E t \in Timers : DelayElapses(t) \/ SendRetry(t)
    PROVE  Inv'
<1> USE DEF Inv
<1>1. CASE Change
  BY <1>1 DEF Change, TypeOK, NothingForgotten
<1>2. CASE Dispatch
  <2>1. mailbox' \in Batch /\ Total(mailbox') <= Capacity /\ mailbox' # Nothing
    <3>1. CASE Full
      BY <1>2, <3>1, FullHolds DEF Dispatch, TypeOK
    <3>2. CASE ~Full
      BY <1>2, <3>2, OneMore, ConstantsAssumption DEF Dispatch, TypeOK, Full, Kinds, Total, Batch
    <3> QED
      BY <3>1, <3>2
  <2> QED
    BY <1>2, <2>1 DEF Dispatch, TypeOK, NothingForgotten
<1>3. ASSUME NEW t \in Timers, DelayElapses(t) PROVE Inv'
  BY <1>3 DEF DelayElapses, TypeOK, NothingForgotten, Timer
<1>4. ASSUME NEW t \in Timers, SendRetry(t) PROVE Inv'
  <2>1. timers[t].kind \in Kinds
    BY DEF TypeOK, Timer, Requeues
  <2>2. mailbox' \in Batch /\ mailbox' # Nothing /\ Total(mailbox') = Total(mailbox) + 1
    BY <1>4, <2>1, OneMore DEF SendRetry, TypeOK
  <2>3. Total(mailbox) \in Nat /\ Total(mailbox) < Capacity
    BY <1>4, ConstantsAssumption DEF SendRetry, Full, TypeOK, Total, Batch, Kinds
  <2>4. Total(mailbox') <= Capacity
    BY <2>2, <2>3, ConstantsAssumption
  <2> QED
    BY <1>4, <2>2, <2>4 DEF SendRetry, TypeOK, NothingForgotten, Timer
<1> QED
  BY <1>1, <1>2, <1>3, <1>4

\* schedule_requeue leaves a task behind.
LEMMA RequeueLeavesTask ==
    ASSUME TypeOK, NEW kind \in Requeues, ScheduleRequeue(kind)
    PROVE  /\ timers' \in [Timers -> Timer] /\ window' \in Timers \cup {None}
           /\ \E t \in Timers : timers'[t].state # "free"
BY DEF ScheduleRequeue, TypeOK, Timer

LEMMA ActorPreservesInv == ASSUME Inv, Actor PROVE Inv'
<1> USE DEF Inv
<1>1. CASE Drain
  <2>1. heap' \in Batch /\ heap' # Nothing
    <3>1. \A kind \in Kinds : heap[kind] \in Nat /\ mailbox[kind] \in Nat
      BY DEF TypeOK, Batch
    <3>2. PICK kind \in Kinds : mailbox[kind] # 0
      BY <1>1 DEF Drain, TypeOK, Batch, Nothing
    <3>3. heap'[kind] # 0
      BY <1>1, <3>1, <3>2 DEF Drain
    <3>4. heap' # Nothing
      BY <3>2, <3>3 DEF Nothing
    <3> QED
      BY <1>1, <3>1, <3>4 DEF Drain, Batch
  <2>2. Nothing \in Batch /\ Total(Nothing) <= Capacity
    BY ConstantsAssumption DEF Nothing, Batch, Total, Kinds
  <2> QED
    BY <1>1, <2>1, <2>2 DEF Drain, TypeOK, NothingForgotten
<1>2. CASE BatchDone
  BY <1>2 DEF BatchDone, TypeOK, NothingForgotten
<1>3. CASE Debounce
  <2>1. heap' \in Batch
    BY <1>3 DEF Debounce, Popped, TypeOK, Batch, Kinds
  <2>2. \E t \in Timers : timers[t].state # "free"
    BY <1>3 DEF Debounce, InWindow, TypeOK
  <2> QED
    BY <1>3, <2>1, <2>2 DEF Debounce, TypeOK, NothingForgotten
<1>4. CASE Read
  BY <1>4 DEF Read, TypeOK, NothingForgotten
<1>5. CASE ReadFails
  <2>1. "retry" \in Requeues
    BY DEF Requeues, Kinds
  <2>2. /\ timers' \in [Timers -> Timer] /\ window' \in Timers \cup {None}
        /\ \E t \in Timers : timers'[t].state # "free"
    BY <1>5, <2>1, RequeueLeavesTask DEF ReadFails
  <2> QED
    BY <1>5, <2>2 DEF ReadFails, TypeOK, NothingForgotten
<1>6. CASE Handled
  <2>1. CASE UNCHANGED <<timers, window>>
    BY <1>6, <2>1 DEF Handled, TypeOK, NothingForgotten
  <2>2. ASSUME NEW kind \in Requeues, ScheduleRequeue(kind) PROVE Inv'
    <3>1. /\ timers' \in [Timers -> Timer] /\ window' \in Timers \cup {None}
          /\ \E t \in Timers : timers'[t].state # "free"
      BY <2>2, RequeueLeavesTask
    <3> QED
      BY <1>6, <3>1 DEF Handled, TypeOK, NothingForgotten
  <2> QED
    BY <1>6, <2>1, <2>2 DEF Handled
<1>7. ASSUME NEW kind \in Kinds, Proceed(kind) PROVE Inv'
  <2>1. heap' \in Batch
    BY <1>7 DEF Proceed, Popped, TypeOK, Batch
  <2> QED
    BY <1>7, <2>1 DEF Proceed, TypeOK, NothingForgotten
<1> QED
  BY <1>1, <1>2, <1>3, <1>4, <1>5, <1>6, <1>7 DEF Actor

LEMMA StepInv == Inv /\ [Next]_vars => Inv'
<1> SUFFICES ASSUME Inv, [Next]_vars PROVE Inv'
  OBVIOUS
<1>1. CASE Actor
  BY <1>1, ActorPreservesInv
<1>2. CASE Change \/ Dispatch \/ \E t \in Timers : DelayElapses(t) \/ SendRetry(t)
  BY <1>2, SendersPreserveInv
<1>3. CASE UNCHANGED vars
  BY <1>3 DEF vars, Inv, TypeOK, NothingForgotten
<1> QED
  BY <1>1, <1>2, <1>3 DEF Next

\* For every capacity of the mailbox and any number of sleeping tasks: no change is
\* forgotten, though a full mailbox and the debounce window drop messages
\* (dispatch_with_priority, handle_reconcile, schedule_requeue).
THEOREM NeverForgotten == Spec => []NothingForgotten
BY InitInv, StepInv, PTL DEF Spec, Inv

\* The types hold, among them that the channel never holds more than its capacity.
THEOREM TypeCorrect == Spec => []TypeOK
BY InitInv, StepInv, PTL DEF Spec, Inv
===============================================================================
