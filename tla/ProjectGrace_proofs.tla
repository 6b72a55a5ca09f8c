------------------------- MODULE ProjectGrace_proofs -------------------------
(***************************************************************************)
(* That a cleanup is due and current, and that a pending deletion is       *)
(* looked at again, for any grace period, lateness and bounds.             *)
(***************************************************************************)
EXTENDS ProjectGrace, TLAPS

(* Why the invariant is inductive.  The time of the grace period and the stamp of the  *)
(* answer are written and wiped together (Stamped), the former at the first check that *)
(* missed the project (Evidence).  While no two tasks are alive, the window that the   *)
(* last reconcile opened lasts until the stamped answer is old (WindowCovers), so that *)
(* a reconcile asks the cloud; and what lets an event be dropped is a window, which    *)
(* has a task that outlives it (WindowHasTask).  A pending deletion wiped lastUpdate,  *)
(* so that its Stack is never taken for synced (Forgotten).                            *)

Stamped == check.result = "not_found" => pending # Unset

Evidence == absent >= pending \/ "unrecorded" \in mishaps

Forgotten == pending # Unset => ~settled

WindowHasTask == window > 0 => tasks # {}

Calm == "overlap" \notin mishaps /\ "restart" \notin mishaps

WindowCovers ==
    Calm => /\ \A left \in tasks : left >= window
            /\ check.result = "not_found" => check.age + window >= Recheck

IInv == /\ TypeOK /\ Stamped /\ Evidence /\ Forgotten
        /\ WindowHasTask /\ WindowCovers /\ RecheckComes

Checks == [result : {"none", "active", "not_found"}, age : 0 .. Recheck]

\* What a reconcile finds: its tasks, and no answer of a missing project that is still
\* cached, if nothing disturbed the rhythm.
Ready(rest) ==
    /\ rest \subseteq tasks
    /\ Calm /\ check.result = "not_found" => check.age >= Recheck

\* What a reconcile restores of the invariant.
Restored ==
    /\ finalizer' \in BOOLEAN /\ kustomization' \in {"none", "present", "deleted"}
    /\ current' \in BOOLEAN /\ settled' \in BOOLEAN /\ wake' \in BOOLEAN
    /\ pending' \in Unset .. Grace /\ absent' \in Unset .. Grace
    /\ check' \in Checks /\ update' \in {"none", "running", "ended"}
    /\ tasks' \subseteq 0 .. Recheck + Late /\ window' \in 0 .. Recheck
    /\ faults' \in 0 .. MaxFaults /\ mishaps' \subseteq Mishap
    /\ Stamped' /\ Evidence' /\ Forgotten' /\ WindowHasTask' /\ WindowCovers'
    /\ pending' # Unset => tasks' # {} \/ wake' \/ stalled' \/ "abandoned" \in mishaps'

LEMMA Constants ==
    /\ Recheck \in Nat /\ Recheck > 0 /\ Grace \in Nat /\ Late \in Nat /\ MaxFaults \in Nat
    /\ Short \in 0 .. Recheck /\ Unset = -1 /\ Unset \in Unset .. Grace /\ 0 \in Unset .. Grace
  BY ConstantsAssumption DEF Short, Unset

\* The stamps that are written.
LEMMA StampTypes ==
    ASSUME NEW r \in {"none", "active", "not_found"}
    PROVE  /\ [result |-> r, age |-> 0] \in Checks
           /\ [result |-> r, age |-> 0].result = r /\ [result |-> r, age |-> 0].age = 0
  BY Constants DEF Checks

\* Calls that fail are counted within the bound.
LEMMA SpendTypes ==
    ASSUME TypeOK, NEW n \in Nat, Spend(n)
    PROVE  faults' \in 0 .. MaxFaults
  BY Constants DEF TypeOK, Spend

\* A task scheduled outlives the window it opens; alone it covers the stamp.
LEMMA ScheduleCovers ==
    ASSUME IInv, NEW rest, Ready(rest), NEW delay \in 0 .. Recheck, Schedule(rest, delay),
           check' \in Checks,
           check' = check \/ (check'.result = "not_found" => check'.age + delay >= Recheck),
           mishaps \cap {"overlap", "restart"} \subseteq mishaps',
           Overlapping(rest) \subseteq mishaps'
    PROVE  /\ tasks' \subseteq 0 .. Recheck + Late /\ window' \in 0 .. Recheck
           /\ tasks' # {} /\ WindowHasTask' /\ WindowCovers'
  <1>1. PICK left \in delay .. delay + Late : tasks' = rest \cup {left}
    BY DEF Schedule
  <1>2. window' = delay
    BY DEF Schedule
  <1>3. left \in 0 .. Recheck + Late /\ left >= delay
    BY Constants
  <1>4. tasks' \subseteq 0 .. Recheck + Late /\ tasks' # {}
    BY <1>1, <1>3 DEF Ready, IInv, TypeOK
  <1>5. WindowCovers'
    <2> SUFFICES ASSUME Calm'
                 PROVE  /\ \A l \in tasks' : l >= delay
                        /\ check'.result = "not_found" => check'.age + delay >= Recheck
      BY <1>2 DEF WindowCovers
    <2>1. Calm /\ rest = {}
      BY DEF Calm, Overlapping
    <2>2. \A l \in tasks' : l >= delay
      BY <1>1, <1>3, <2>1
    <2>3. check'.result = "not_found" => check'.age + delay >= Recheck
      <3>1. CASE check' = check
        <4>1. check.result = "not_found" => check.age >= Recheck
          BY <2>1 DEF Ready
        <4>2. check.age \in 0 .. Recheck
          BY DEF IInv, TypeOK
        <4> QED
          BY <3>1, <4>1, <4>2, Constants
      <3> QED
        BY <3>1
    <2> QED
      BY <2>2, <2>3
  <1> QED
    BY <1>2, <1>4, <1>5 DEF WindowHasTask

\* Without a task the window closes.
LEMMA NoRequeueCovers ==
    ASSUME IInv, NEW rest, Ready(rest), NoRequeue(rest),
           check' = check \/ check'.result # "not_found",
           mishaps \cap {"overlap", "restart"} \subseteq mishaps'
    PROVE  /\ tasks' \subseteq 0 .. Recheck + Late /\ window' \in 0 .. Recheck
           /\ WindowHasTask' /\ WindowCovers'
  <1>1. tasks' = rest /\ window' = 0
    BY DEF NoRequeue
  <1>2. tasks' \subseteq 0 .. Recheck + Late
    BY <1>1 DEF Ready, IInv, TypeOK
  <1>3. WindowCovers'
    <2> SUFFICES ASSUME Calm'
                 PROVE  /\ \A l \in tasks' : l >= 0
                        /\ check'.result = "not_found" => check'.age >= Recheck
      <3>1. check' = check => check.age \in 0 .. Recheck
        BY DEF IInv, TypeOK
      <3> QED
        BY <1>1, <3>1, Constants DEF WindowCovers
    <2>1. Calm
      BY DEF Calm
    <2>2. \A l \in tasks' : l >= 0
      BY <1>2, Constants
    <2> QED
      BY <2>1, <2>2 DEF Ready
  <1> QED
    BY <1>1, <1>2, <1>3, Constants DEF WindowHasTask

\* What a check shows: that an answer was given is evidence, and it remains so.
LEMMA WitnessTypes ==
    ASSUME IInv, NEW answer \in Answers, Witness(answer)
    PROVE  /\ absent' \in Unset .. Grace
           /\ answer = "not_found" =>
                 /\ absent' >= absent
                 /\ pending = Unset => absent' >= 0
           /\ answer = "unknown" => absent' = absent
  <1>1. absent \in Unset .. Grace
    BY DEF IInv, TypeOK
  <1>2. ASSUME answer = "not_found", pending = Unset PROVE ~Cached
    BY <1>2 DEF IInv, Stamped, Answers, Cached
  <1> QED
    BY <1>1, <1>2, Constants DEF Witness

\* The answer of a missing project: the grace period begins or goes on.
LEMMA NotFoundRestores ==
    ASSUME IInv, finalizer, NEW rest, Ready(rest), ProjectNotFound(rest)
    PROVE  Restored
  <1>1. "not_found" \in Answers /\ Witness("not_found") /\ Schedule(rest, Recheck)
    BY DEF ProjectNotFound, RequeueRecheck
  <1>2. /\ absent' \in Unset .. Grace /\ absent' >= absent
        /\ pending = Unset => absent' >= 0
    BY <1>1, WitnessTypes
  <1>3. /\ mishaps' = mishaps \cup Overlapping(rest) /\ mishaps' \subseteq Mishap
        /\ UNCHANGED <<finalizer, kustomization, update>>
    BY DEF ProjectNotFound, Overlapping, Mishap, IInv, TypeOK
  <1>4. CASE Spend(0) /\ RecordNotFound /\ wake' = TRUE
    <2>1. /\ check' = [result |-> "not_found", age |-> 0]
          /\ settled' = FALSE /\ current' = FALSE
          /\ pending' = IF pending = Unset THEN 0 ELSE pending
      BY <1>4 DEF RecordNotFound
    <2>2. check' \in Checks /\ check'.result = "not_found" /\ check'.age = 0
      BY <2>1, StampTypes
    <2>3. pending' \in Unset .. Grace /\ pending' # Unset
      BY <2>1, Constants DEF IInv, TypeOK
    <2>4. /\ tasks' \subseteq 0 .. Recheck + Late /\ window' \in 0 .. Recheck
          /\ tasks' # {} /\ WindowHasTask' /\ WindowCovers'
      <3>1. Recheck \in 0 .. Recheck /\ check'.age + Recheck >= Recheck
        BY <2>2, Constants
      <3> QED
        BY <1>1, <1>3, <2>2, <3>1, ScheduleCovers
    <2>5. Evidence'
      <3>1. absent >= pending \/ "unrecorded" \in mishaps'
        BY <1>3 DEF IInv, Evidence
      <3> QED
        BY <1>2, <2>1, <3>1, Constants DEF Evidence, IInv, TypeOK
    <2>6. Stamped' /\ Forgotten'
      BY <2>1, <2>3 DEF Stamped, Forgotten
    <2>7. faults' \in 0 .. MaxFaults
      BY <1>4, SpendTypes DEF IInv
    <2>8. /\ finalizer' \in BOOLEAN /\ kustomization' \in {"none", "present", "deleted"}
          /\ current' \in BOOLEAN /\ settled' \in BOOLEAN /\ wake' \in BOOLEAN
          /\ update' \in {"none", "running", "ended"}
      BY <1>3, <1>4, <2>1 DEF IInv, TypeOK
    <2> QED
      BY <1>2, <1>3, <2>2, <2>3, <2>4, <2>5, <2>6, <2>7, <2>8 DEF Restored
  <1>5. CASE Spend(1) /\ UNCHANGED <<pending, check, current, settled>> /\ wake' = FALSE
    <2>1. check' \in Checks
      BY <1>5 DEF IInv, TypeOK, Checks
    <2>2. /\ tasks' \subseteq 0 .. Recheck + Late /\ window' \in 0 .. Recheck
          /\ tasks' # {} /\ WindowHasTask' /\ WindowCovers'
      <3>1. Recheck \in 0 .. Recheck
        BY Constants
      <3> QED
        BY <1>1, <1>3, <1>5, <2>1, <3>1, ScheduleCovers
    <2>3. Evidence'
      BY <1>2, <1>3, <1>5, Constants DEF IInv, Evidence, TypeOK
    <2>4. Stamped' /\ Forgotten'
      BY <1>5 DEF IInv, Stamped, Forgotten
    <2>5. faults' \in 0 .. MaxFaults
      BY <1>5, SpendTypes DEF IInv
    <2>6. /\ finalizer' \in BOOLEAN /\ kustomization' \in {"none", "present", "deleted"}
          /\ current' \in BOOLEAN /\ settled' \in BOOLEAN /\ wake' \in BOOLEAN
          /\ update' \in {"none", "running", "ended"} /\ pending' \in Unset .. Grace
      BY <1>3, <1>5 DEF IInv, TypeOK
    <2> QED
      BY <1>2, <1>3, <2>1, <2>2, <2>3, <2>4, <2>5, <2>6 DEF Restored
  <1> QED
    BY <1>4, <1>5 DEF ProjectNotFound

\* A reinstatement withdraws the evidence together with what it counted for, or is noted
\* as unrecorded.
LEMMA ReinstatedRestores ==
    ASSUME IInv, finalizer, NEW rest, Ready(rest), ProjectReinstated(rest)
    PROVE  Restored
  <1>1. "active" \in Answers /\ Witness("active") /\ Schedule(rest, Short)
    BY DEF ProjectReinstated
  <1>2. absent' \in Unset .. Grace
    BY <1>1, WitnessTypes
  <1>3. UNCHANGED <<finalizer, kustomization, update>> /\ Overlapping(rest) \subseteq Mishap
    BY DEF ProjectReinstated, Overlapping, Mishap
  <1>4. /\ finalizer' \in BOOLEAN /\ kustomization' \in {"none", "present", "deleted"}
        /\ update' \in {"none", "running", "ended"}
    BY <1>3 DEF IInv, TypeOK
  <1> DEFINE cost == Cost("active")
  <1>5. cost \in Nat /\ cost + 1 \in Nat
    BY DEF Cost
  <1> HIDE DEF cost
  <1>6. CASE /\ Spend(cost) /\ RecordReinstated /\ wake' = TRUE
             /\ mishaps' = (mishaps \ {"unrecorded"}) \cup Overlapping(rest)
    <2>1. /\ check' = [result |-> "active", age |-> 0] /\ ~settled' /\ ~current'
          /\ current' \in BOOLEAN /\ settled' \in BOOLEAN /\ pending' = Unset
      BY <1>6 DEF RecordReinstated
    <2>2. check' \in Checks /\ check'.result = "active"
      BY <2>1, StampTypes
    <2>3. /\ tasks' \subseteq 0 .. Recheck + Late /\ window' \in 0 .. Recheck
          /\ WindowHasTask' /\ WindowCovers'
      <3>1. /\ mishaps \cap {"overlap", "restart"} \subseteq mishaps'
            /\ Overlapping(rest) \subseteq mishaps'
        BY <1>6
      <3>2. check'.result = "not_found" => check'.age + Short >= Recheck
        BY <2>2
      <3> QED
        BY <1>1, <2>2, <3>1, <3>2, ScheduleCovers, Constants
    <2>4. Stamped' /\ Forgotten' /\ Evidence' /\ pending' \in Unset .. Grace
      BY <1>2, <2>1, <2>2, Constants DEF Stamped, Forgotten, Evidence
    <2>5. faults' \in 0 .. MaxFaults /\ mishaps' \subseteq Mishap /\ wake' \in BOOLEAN
      BY <1>3, <1>6, <1>5, SpendTypes DEF IInv, TypeOK
    <2> QED
      BY <1>2, <1>4, <2>1, <2>2, <2>3, <2>4, <2>5 DEF Restored
  <1>7. CASE /\ Spend(cost + 1) /\ UNCHANGED <<pending, check, current, settled>>
             /\ wake' = FALSE
             /\ mishaps' = mishaps \cup Overlapping(rest) \cup {"unrecorded"}
    <2>1. check' \in Checks
      BY <1>7 DEF IInv, TypeOK, Checks
    <2>2. /\ tasks' \subseteq 0 .. Recheck + Late /\ window' \in 0 .. Recheck
          /\ tasks' # {} /\ WindowHasTask' /\ WindowCovers'
      <3>1. /\ mishaps \cap {"overlap", "restart"} \subseteq mishaps'
            /\ Overlapping(rest) \subseteq mishaps'
        BY <1>7
      <3> QED
        BY <1>1, <1>7, <2>1, <3>1, ScheduleCovers, Constants
    <2>3. Stamped' /\ Forgotten' /\ Evidence'
      BY <1>7 DEF IInv, Stamped, Forgotten, Evidence
    <2>4. faults' \in 0 .. MaxFaults /\ mishaps' \subseteq Mishap
      BY <1>3, <1>7, <1>5, SpendTypes DEF IInv, TypeOK, Mishap
    <2>5. /\ current' \in BOOLEAN /\ settled' \in BOOLEAN /\ wake' \in BOOLEAN
          /\ pending' \in Unset .. Grace
      BY <1>7 DEF IInv, TypeOK
    <2> QED
      BY <1>2, <1>4, <2>1, <2>2, <2>3, <2>4, <2>5 DEF Restored
  <1> QED
    BY <1>6, <1>7 DEF ProjectReinstated, cost

\* An expiry wipes the grace period, or leaves it as it is and is noted as abandoned.
LEMMA ExpiredRestores ==
    ASSUME IInv, finalizer, NEW rest, Ready(rest), ProjectTtlExpired(rest)
    PROVE  Restored
  <1>1. "not_found" \in Answers /\ Witness("not_found") /\ NoRequeue(rest)
    BY DEF ProjectTtlExpired
  <1>2. absent' \in Unset .. Grace /\ absent' >= absent
    BY <1>1, WitnessTypes
  <1>3. PICK recorded \in BOOLEAN, cleaned \in BOOLEAN :
         /\ Spend((IF recorded THEN 0 ELSE 1) + (IF cleaned THEN 0 ELSE 1))
         /\ IF recorded
              THEN /\ pending' = Unset /\ check' = NoCheck
                   /\ current' = FALSE /\ settled' = FALSE
              ELSE UNCHANGED <<pending, check, current, settled>>
         /\ IF cleaned
              THEN DeleteKustomization \/ RemoveFinalizer \/ NothingToDelete
              ELSE UNCHANGED <<finalizer, kustomization>>
         /\ wake' = (recorded \/ finalizer' # finalizer)
         /\ mishaps' = IF wake' THEN mishaps ELSE mishaps \cup {"abandoned"}
    BY DEF ProjectTtlExpired
  <1>4. /\ finalizer' \in BOOLEAN /\ kustomization' \in {"none", "present", "deleted"}
        /\ update' \in {"none", "running", "ended"}
    BY <1>3 DEF DeleteKustomization, RemoveFinalizer, NothingToDelete, ProjectTtlExpired,
                IInv, TypeOK
  <1>5. faults' \in 0 .. MaxFaults
    <2>1. (IF recorded THEN 0 ELSE 1) + (IF cleaned THEN 0 ELSE 1) \in Nat
      OBVIOUS
    <2> QED
      BY <1>3, <2>1, SpendTypes DEF IInv
  <1>6. /\ mishaps' \subseteq Mishap /\ mishaps \subseteq mishaps' /\ wake' \in BOOLEAN
        /\ wake' \/ "abandoned" \in mishaps'
    BY <1>3 DEF IInv, TypeOK, Mishap
  <1>7. CASE recorded
    <2>1. check' \in Checks /\ check'.result = "none"
      BY <1>3, <1>7, StampTypes DEF NoCheck
    <2>2. /\ tasks' \subseteq 0 .. Recheck + Late /\ window' \in 0 .. Recheck
          /\ WindowHasTask' /\ WindowCovers'
      BY <1>1, <1>6, <2>1, NoRequeueCovers
    <2>3. Stamped' /\ Forgotten' /\ Evidence' /\ pending' \in Unset .. Grace
      BY <1>2, <1>3, <1>7, <2>1, Constants DEF Stamped, Forgotten, Evidence
    <2> QED
      BY <1>2, <1>3, <1>4, <1>5, <1>6, <1>7, <2>1, <2>2, <2>3 DEF Restored
  <1>8. CASE ~recorded
    <2>1. UNCHANGED <<pending, check, current, settled>>
      BY <1>3, <1>8
    <2>2. check' \in Checks /\ pending' \in Unset .. Grace
          /\ current' \in BOOLEAN /\ settled' \in BOOLEAN
      BY <2>1 DEF IInv, TypeOK, Checks
    <2>3. /\ tasks' \subseteq 0 .. Recheck + Late /\ window' \in 0 .. Recheck
          /\ WindowHasTask' /\ WindowCovers'
      BY <1>1, <1>6, <2>1, NoRequeueCovers
    <2>4. Stamped' /\ Forgotten'
      BY <2>1 DEF IInv, Stamped, Forgotten
    <2>5. Evidence'
      BY <1>2, <1>6, <2>1, Constants DEF IInv, TypeOK, Evidence
    <2> QED
      BY <1>2, <1>4, <1>5, <1>6, <2>2, <2>3, <2>4, <2>5 DEF Restored
  <1> QED
    BY <1>7, <1>8

\* The normal flow keeps the grace period, with a task or an event to come, or wipes it.
LEMMA FlowRestores ==
    ASSUME IInv, finalizer, NEW rest, Ready(rest), NormalFlow(rest)
    PROVE  Restored
  <1>1. PICK answer \in Answers :
          /\ answer # "not_found" /\ (answer = "active" => pending = Unset)
          /\ Witness(answer)
          /\ \/ WaitForUpdate(rest, Cost(answer)) \/ UpdateFinished(rest, Cost(answer))
             \/ Synced(rest, Cost(answer)) \/ UpdateCreated(rest, Cost(answer))
             \/ FlowFails(rest, Cost(answer))
             \/ stalled' = TRUE /\ Stalls(rest, Cost(answer))
    BY DEF NormalFlow
  <1> DEFINE cost == Cost(answer)
  <1>2. cost \in Nat /\ cost + 1 \in Nat
    BY DEF Cost
  <1>3. absent' \in Unset .. Grace
    BY <1>1, WitnessTypes
  <1>4. pending # Unset => absent' = absent
    <2>1. ASSUME pending # Unset PROVE answer = "unknown" \/ (Cached /\ answer = check.result)
      BY <1>1, <2>1 DEF Answers, Found
    <2> QED
      BY <1>1, <2>1 DEF Witness
  <1>5. UNCHANGED <<finalizer, kustomization>>
    BY DEF NormalFlow
  <1>6. finalizer' \in BOOLEAN /\ kustomization' \in {"none", "present", "deleted"}
    BY <1>5 DEF IInv, TypeOK
  <1> HIDE DEF cost
  <1>7. ASSUME pending' = pending, check' = check, mishaps \subseteq mishaps'
        PROVE  /\ Stamped' /\ Evidence' /\ check' \in Checks
               /\ pending' \in Unset .. Grace
    <2>1. Stamped' /\ check' \in Checks /\ pending' \in Unset .. Grace
      BY <1>7 DEF IInv, TypeOK, Checks, Stamped
    <2>2. Evidence'
      BY <1>3, <1>4, <1>7, Constants DEF IInv, TypeOK, Evidence
    <2> QED
      BY <2>1, <2>2
  <1>8. ASSUME pending' = Unset, check' = NoCheck
        PROVE  /\ Stamped' /\ Evidence' /\ Forgotten' /\ check' \in Checks
               /\ check'.result # "not_found" /\ pending' \in Unset .. Grace
    <2>1. check' \in Checks /\ check'.result = "none"
      BY <1>8, StampTypes DEF NoCheck
    <2> QED
      BY <1>3, <1>8, <2>1, Constants DEF Stamped, Evidence, Forgotten
  <1>9. Overlapping(rest) \subseteq Mishap /\ mishaps \subseteq Mishap
    BY DEF Overlapping, Mishap, IInv, TypeOK
  <1>10. ASSUME WaitForUpdate(rest, cost) \/ FlowFails(rest, cost) PROVE Restored
    <2>1. /\ Schedule(rest, Short) /\ mishaps' = mishaps \cup Overlapping(rest)
          /\ wake' = FALSE /\ UNCHANGED <<pending, check, current, settled, update>>
      BY <1>10 DEF WaitForUpdate, FlowFails, progress
    <2>2. faults' \in 0 .. MaxFaults
      BY <1>2, <1>10, SpendTypes DEF WaitForUpdate, FlowFails, IInv
    <2>3. Stamped' /\ Evidence' /\ check' \in Checks /\ pending' \in Unset .. Grace
      BY <1>7, <2>1
    <2>4. /\ tasks' \subseteq 0 .. Recheck + Late /\ window' \in 0 .. Recheck
          /\ tasks' # {} /\ WindowHasTask' /\ WindowCovers'
      BY <2>1, <2>3, ScheduleCovers, Constants
    <2>5. Forgotten' /\ mishaps' \subseteq Mishap
      BY <1>9, <2>1 DEF IInv, Forgotten
    <2>6. /\ current' \in BOOLEAN /\ settled' \in BOOLEAN /\ wake' \in BOOLEAN
          /\ update' \in {"none", "running", "ended"}
      BY <2>1 DEF IInv, TypeOK
    <2> QED
      BY <1>3, <1>6, <2>2, <2>3, <2>4, <2>5, <2>6 DEF Restored
  <1>11. ASSUME UpdateFinished(rest, cost) PROVE Restored
    <2>1. faults' \in 0 .. MaxFaults
      BY <1>2, <1>11, SpendTypes DEF UpdateFinished, IInv
    <2>2. wake' = TRUE /\ mishaps \subseteq mishaps' /\ mishaps' \subseteq Mishap
      BY <1>9, <1>11 DEF UpdateFinished
    <2>3. \/ /\ current' = FALSE /\ settled' \in BOOLEAN /\ update' = "none"
             /\ pending' = Unset /\ check' = NoCheck
          \/ UNCHANGED <<pending, check, current, settled, update>>
      BY <1>11 DEF UpdateFinished, progress
    <2>4. /\ current' \in BOOLEAN /\ settled' \in BOOLEAN
          /\ update' \in {"none", "running", "ended"}
      BY <2>3 DEF IInv, TypeOK
    <2>5. /\ Stamped' /\ Evidence' /\ Forgotten' /\ check' \in Checks
          /\ pending' \in Unset .. Grace
      <3>1. UNCHANGED <<pending, settled>> => Forgotten'
        BY DEF IInv, Forgotten
      <3> QED
        BY <1>7, <1>8, <2>2, <2>3, <3>1
    <2>6. check' = check \/ check'.result # "not_found"
      BY <1>8, <2>3
    <2>7. /\ tasks' \subseteq 0 .. Recheck + Late /\ window' \in 0 .. Recheck
          /\ WindowHasTask' /\ WindowCovers'
      <3>1. CASE NoRequeue(rest)
        BY <2>2, <2>6, <3>1, NoRequeueCovers
      <3>2. CASE Schedule(rest, Short) /\ mishaps' = mishaps \cup Overlapping(rest)
        BY <2>2, <2>5, <2>6, <3>2, ScheduleCovers, Constants
      <3> QED
        BY <1>11, <3>1, <3>2 DEF UpdateFinished
    <2> QED
      BY <1>3, <1>6, <2>1, <2>2, <2>4, <2>5, <2>7 DEF Restored
  <1>12. ASSUME Synced(rest, cost) PROVE Restored
    <2>1. /\ NoRequeue(rest) /\ settled /\ wake' = FALSE
          /\ UNCHANGED <<pending, check, current, settled, update, mishaps>>
      BY <1>12 DEF Synced, progress
    <2>2. faults' \in 0 .. MaxFaults
      BY <1>2, <1>12, SpendTypes DEF Synced, IInv
    <2>3. pending' = Unset /\ Forgotten'
      BY <2>1 DEF IInv, Forgotten
    <2>4. Stamped' /\ Evidence' /\ check' \in Checks /\ pending' \in Unset .. Grace
      BY <1>7, <2>1
    <2>5. /\ tasks' \subseteq 0 .. Recheck + Late /\ window' \in 0 .. Recheck
          /\ WindowHasTask' /\ WindowCovers'
      BY <2>1, NoRequeueCovers
    <2>6. /\ current' \in BOOLEAN /\ settled' \in BOOLEAN /\ wake' \in BOOLEAN
          /\ update' \in {"none", "running", "ended"} /\ mishaps' \subseteq Mishap
      BY <2>1 DEF IInv, TypeOK
    <2> QED
      BY <1>3, <1>6, <2>2, <2>3, <2>4, <2>5, <2>6 DEF Restored
  <1>13. ASSUME UpdateCreated(rest, cost) PROVE Restored
    <2>1. /\ NoRequeue(rest) /\ ~settled /\ wake' = TRUE /\ update' = "running"
          /\ UNCHANGED <<settled, mishaps>>
      BY <1>13 DEF UpdateCreated
    <2>2. faults' \in 0 .. MaxFaults
      BY <1>2, <1>13, SpendTypes DEF UpdateCreated, IInv
    <2>3. \/ current' = TRUE /\ pending' = Unset /\ check' = NoCheck
          \/ UNCHANGED <<current, pending, check>>
      BY <1>13 DEF UpdateCreated
    <2>4. /\ Stamped' /\ Evidence' /\ check' \in Checks
          /\ pending' \in Unset .. Grace
      BY <1>7, <1>8, <2>1, <2>3
    <2>5. check' = check \/ check'.result # "not_found"
      BY <1>8, <2>3
    <2>6. /\ tasks' \subseteq 0 .. Recheck + Late /\ window' \in 0 .. Recheck
          /\ WindowHasTask' /\ WindowCovers'
      BY <2>1, <2>5, NoRequeueCovers
    <2>7. /\ current' \in BOOLEAN /\ settled' \in BOOLEAN /\ wake' \in BOOLEAN
          /\ update' \in {"none", "running", "ended"} /\ mishaps' \subseteq Mishap
      BY <2>1, <2>3 DEF IInv, TypeOK
    <2>8. Forgotten'
      BY <2>1 DEF Forgotten
    <2> QED
      BY <1>3, <1>6, <2>1, <2>2, <2>4, <2>6, <2>7, <2>8 DEF Restored
  <1>14. ASSUME stalled' = TRUE, Stalls(rest, cost) PROVE Restored
    <2>1. /\ NoRequeue(rest) /\ wake' = FALSE
          /\ UNCHANGED <<pending, check, current, settled, update, mishaps>>
      BY <1>14 DEF Stalls, progress
    <2>2. faults' \in 0 .. MaxFaults
      BY <1>2, <1>14, SpendTypes DEF Stalls, IInv
    <2>3. Stamped' /\ Evidence' /\ check' \in Checks /\ pending' \in Unset .. Grace
      BY <1>7, <2>1
    <2>4. /\ tasks' \subseteq 0 .. Recheck + Late /\ window' \in 0 .. Recheck
          /\ WindowHasTask' /\ WindowCovers'
      BY <2>1, NoRequeueCovers
    <2>5. Forgotten' /\ mishaps' \subseteq Mishap
      BY <1>9, <2>1 DEF IInv, Forgotten
    <2>6. /\ current' \in BOOLEAN /\ settled' \in BOOLEAN /\ wake' \in BOOLEAN
          /\ update' \in {"none", "running", "ended"}
      BY <2>1 DEF IInv, TypeOK
    <2> QED
      BY <1>3, <1>6, <1>14, <2>2, <2>3, <2>4, <2>5, <2>6 DEF Restored
  <1> QED
    BY <1>1, <1>10, <1>11, <1>12, <1>13, <1>14 DEF cost

\* The outcomes before the check leave the grace period as it is.
LEMMA OtherRestores ==
    ASSUME IInv, NEW rest, Ready(rest), GetFails(rest) \/ AddFinalizer(rest)
    PROVE  Restored
  <1>1. /\ UNCHANGED <<pending, check, current, settled, update, kustomization, absent>>
        /\ mishaps \subseteq mishaps'
    BY DEF GetFails, AddFinalizer, progress
  <1>2. Stamped' /\ Evidence' /\ Forgotten'
    BY <1>1 DEF IInv, Stamped, Evidence, Forgotten
  <1>3. /\ pending' \in Unset .. Grace /\ absent' \in Unset .. Grace
        /\ check' \in Checks /\ update' \in {"none", "running", "ended"}
        /\ kustomization' \in {"none", "present", "deleted"}
        /\ current' \in BOOLEAN /\ settled' \in BOOLEAN
    BY <1>1 DEF IInv, TypeOK, Checks
  <1>4. /\ finalizer' \in BOOLEAN /\ wake' \in BOOLEAN /\ mishaps' \subseteq Mishap
        /\ faults' \in 0 .. MaxFaults
    BY SpendTypes DEF GetFails, AddFinalizer, Overlapping, Mishap, IInv, TypeOK
  <1>5. CASE GetFails(rest)
    <2>1. /\ tasks' \subseteq 0 .. Recheck + Late /\ window' \in 0 .. Recheck
          /\ tasks' # {} /\ WindowHasTask' /\ WindowCovers'
      <3>1. /\ Schedule(rest, Short) /\ mishaps' = mishaps \cup Overlapping(rest)
        BY <1>5 DEF GetFails
      <3> QED
        BY <1>1, <1>3, <3>1, ScheduleCovers, Constants
    <2> QED
      BY <1>2, <1>3, <1>4, <2>1 DEF Restored
  <1>6. CASE AddFinalizer(rest)
    <2>1. /\ tasks' \subseteq 0 .. Recheck + Late /\ window' \in 0 .. Recheck
          /\ WindowHasTask' /\ WindowCovers'
      BY <1>1, <1>6, NoRequeueCovers DEF AddFinalizer
    <2>2. wake' \/ "abandoned" \in mishaps'
      BY <1>6 DEF AddFinalizer
    <2> QED
      BY <1>2, <1>3, <1>4, <2>1, <2>2 DEF Restored
  <1> QED
    BY <1>5, <1>6

\* A reconcile restores the invariant.
LEMMA ReconcileRestores ==
    ASSUME IInv, NEW rest, Ready(rest), Reconcile(rest), UNCHANGED world
    PROVE  IInv'
  <1>1. /\ project' \in {"active", "missing"} /\ stack' \in {"live", "deleting"}
        /\ onExpired' \in {"DeleteKustomization", "RemoveFinalizer"}
        /\ flips' \in 0 .. MaxFlips /\ restarts' \in 0 .. MaxRestarts
        /\ stalled' \in BOOLEAN
    BY DEF IInv, TypeOK, world, Reconcile, NormalFlow
  <1>2. ASSUME Restored PROVE IInv'
    <2>1. TypeOK'
      BY <1>1, <1>2 DEF Restored, TypeOK, Checks
    <2>2. RecheckComes'
      BY <1>2 DEF Restored, RecheckComes
    <2> QED
      BY <1>2, <2>1, <2>2 DEF Restored, IInv
  <1>3. ASSUME Deletion(rest) PROVE IInv'
    <2>1. /\ stack' = "deleting" /\ NoRequeue(rest) /\ wake' = FALSE
          /\ UNCHANGED <<finalizer, kustomization, pending, check, current, settled, update,
                         faults, absent, mishaps>>
      BY <1>3 DEF Deletion, progress, world
    <2>2. /\ tasks' \subseteq 0 .. Recheck + Late /\ window' \in 0 .. Recheck
          /\ WindowHasTask' /\ WindowCovers'
      BY <2>1, NoRequeueCovers
    <2>3. TypeOK'
      BY <1>1, <2>1, <2>2 DEF IInv, TypeOK
    <2>4. Stamped' /\ Evidence' /\ Forgotten' /\ RecheckComes'
      BY <2>1 DEF IInv, Stamped, Evidence, Forgotten, RecheckComes
    <2> QED
      BY <2>2, <2>3, <2>4 DEF IInv
  <1> QED
    BY <1>2, <1>3, OtherRestores, NotFoundRestores, ReinstatedRestores, ExpiredRestores,
       FlowRestores DEF Reconcile

\* A reconcile begins when its window is over.
LEMMA HandlersReady ==
    ASSUME IInv
    PROVE  /\ window = 0 => Ready(tasks)
           /\ 0 \in tasks => Ready(tasks \ {0})
  <1>1. window \in 0 .. Recheck /\ check.age \in 0 .. Recheck /\ tasks \subseteq 0 .. Recheck + Late
    BY DEF IInv, TypeOK
  <1>2. ASSUME Calm, check.result = "not_found", window = 0 \/ 0 \in tasks
        PROVE  check.age >= Recheck
    <2>1. window = 0
      BY <1>1, <1>2, Constants DEF IInv, WindowCovers
    <2> QED
      BY <1>1, <1>2, <2>1, Constants DEF IInv, WindowCovers
  <1> QED
    BY <1>2 DEF Ready

LEMMA HandlerSteps ==
    ASSUME IInv, HandleEvent \/ HandleRetry
    PROVE  IInv'
  <1>1. ASSUME window > 0, wake' = FALSE, UNCHANGED world,
               UNCHANGED <<finalizer, kustomization, pending, check, progress, tasks, window,
                           stalled, faults, absent, mishaps>>
        PROVE  IInv'
    <2>1. tasks # {}
      BY <1>1 DEF IInv, WindowHasTask
    <2>2. TypeOK'
      <3>1. TypeOK /\ wake' \in BOOLEAN
        BY <1>1 DEF IInv
      <3>2. UNCHANGED <<project, onExpired, stack, finalizer, kustomization, pending, check,
                        current, settled, update, tasks, window, stalled, faults, flips,
                        restarts, mishaps, absent>>
        BY <1>1 DEF world, progress
      <3> QED
        BY <3>1, <3>2 DEF TypeOK
    <2>3. Stamped' /\ Evidence' /\ Forgotten' /\ WindowHasTask' /\ WindowCovers'
      BY <1>1 DEF IInv, Stamped, Evidence, Forgotten, WindowHasTask, WindowCovers, Calm,
                  progress
    <2> QED
      BY <1>1, <2>1, <2>2, <2>3 DEF IInv, RecheckComes
  <1>2. ASSUME window = 0, Reconcile(tasks), UNCHANGED world PROVE IInv'
    BY <1>2, HandlersReady, ReconcileRestores
  <1>3. ASSUME HandleRetry PROVE IInv'
    BY <1>3, HandlersReady, ReconcileRestores DEF HandleRetry
  <1> QED
    BY <1>1, <1>2, <1>3 DEF HandleEvent

\* Time ages the stamp as it shortens the window.
LEMMA TickStep ==
    ASSUME IInv, Tick
    PROVE  IInv'
  <1>1. /\ UNCHANGED <<project, onExpired, stack, flips, restarts, finalizer, kustomization,
                       current, settled, update, wake, stalled, faults, mishaps>>
        /\ 0 \notin tasks /\ tasks' = {left - 1 : left \in tasks}
        /\ window' = IF window = 0 THEN 0 ELSE window - 1
        /\ pending' = IF pending = Unset THEN Unset ELSE Least(pending + 1, Grace)
        /\ absent' = IF absent = Unset THEN Unset ELSE Least(absent + 1, Grace)
    BY DEF Tick, world, progress
  <1>2. /\ window \in 0 .. Recheck /\ tasks \subseteq 0 .. Recheck + Late
        /\ pending \in Unset .. Grace /\ absent \in Unset .. Grace
        /\ check \in Checks
    BY DEF IInv, TypeOK, Checks
  <1>3. tasks' \subseteq 0 .. Recheck + Late /\ (tasks # {} => tasks' # {})
    <2>1. ASSUME NEW left \in tasks PROVE left - 1 \in 0 .. Recheck + Late
      BY <1>1, <1>2, <2>1, Constants
    <2>2. tasks # {} => tasks' # {}
      BY <1>1
    <2> QED
      BY <1>1, <2>1, <2>2
  <1>4. window' \in 0 .. Recheck /\ (window' > 0 => window > 0)
    BY <1>1, <1>2, Constants
  <1>5. pending' \in Unset .. Grace /\ absent' \in Unset .. Grace
    BY <1>1, <1>2, Constants DEF Least
  <1>6. /\ check' \in Checks /\ check'.result = check.result
        /\ check.result # "none" => check'.age = Least(check.age + 1, Recheck)
        /\ check.age \in 0 .. Recheck
    BY <1>2, Constants DEF Tick, Checks, Least
  <1>7. TypeOK'
    BY <1>1, <1>3, <1>4, <1>5, <1>6 DEF IInv, TypeOK, Checks
  <1>8. Stamped' /\ Forgotten' /\ Evidence'
    BY <1>1, <1>2, <1>6, Constants DEF IInv, Stamped, Forgotten, Evidence, Least
  <1>9. WindowHasTask' /\ RecheckComes'
    BY <1>1, <1>2, <1>3, <1>4, Constants DEF IInv, WindowHasTask, RecheckComes, Least
  <1>10. WindowCovers'
    <2> SUFFICES ASSUME Calm
                 PROVE  /\ \A l \in tasks' : l >= window'
                        /\ check'.result = "not_found" => check'.age + window' >= Recheck
      BY <1>1 DEF WindowCovers, Calm
    <2>1. /\ \A l \in tasks : l >= window
          /\ check.result = "not_found" => check.age + window >= Recheck
      BY DEF IInv, WindowCovers
    <2>2. \A l \in tasks' : l >= window'
      BY <1>1, <1>2, <2>1, Constants
    <2>3. check'.result = "not_found" => check'.age + window' >= Recheck
      BY <1>1, <1>2, <1>6, <2>1, Constants DEF Least
    <2> QED
      BY <2>2, <2>3
  <1> QED
    BY <1>7, <1>8, <1>9, <1>10 DEF IInv

LEMMA WorldSteps ==
    ASSUME IInv, ProjectFlips \/ UpdateEnds \/ EditSpec \/ DeleteStack \/ Restart
    PROVE  IInv'
  <1>1. /\ UNCHANGED <<finalizer, kustomization, pending, check, current, stalled, faults,
                       absent>>
        /\ onExpired' = onExpired /\ (settled' = settled \/ settled' = FALSE)
        /\ wake' = TRUE \/ (wake' = wake /\ tasks' = tasks /\ stack' = stack)
        /\ mishaps \subseteq mishaps'
        /\ \/ tasks' = tasks /\ window' = window /\ mishaps' = mishaps
           \/ tasks' = {} /\ window' = 0 /\ mishaps' = mishaps \cup {"restart"}
    BY DEF ProjectFlips, UpdateEnds, EditSpec, DeleteStack, Restart, world, progress
  <1>2. TypeOK'
    <2>1. /\ project' \in {"active", "missing"} /\ stack' \in {"live", "deleting"}
          /\ update' \in {"none", "running", "ended"}
          /\ flips' \in 0 .. MaxFlips /\ restarts' \in 0 .. MaxRestarts
      BY ConstantsAssumption
      DEF ProjectFlips, UpdateEnds, EditSpec, DeleteStack, Restart, IInv, TypeOK, world, progress
    <2>2. mishaps' \subseteq Mishap
      BY <1>1 DEF IInv, TypeOK, Mishap
    <2>3. settled' \in BOOLEAN /\ wake' \in BOOLEAN
      BY <1>1 DEF IInv, TypeOK
    <2>4. tasks' \subseteq 0 .. Recheck + Late /\ window' \in 0 .. Recheck
      <3>1. /\ tasks \subseteq 0 .. Recheck + Late /\ window \in 0 .. Recheck
            /\ 0 \in 0 .. Recheck
        BY Constants DEF IInv, TypeOK
      <3>2. CASE tasks' = tasks /\ window' = window
        BY <3>1, <3>2
      <3>3. CASE tasks' = {} /\ window' = 0
        BY <3>1, <3>3
      <3> QED
        BY <1>1, <3>2, <3>3
    <2> QED
      BY <1>1, <2>1, <2>2, <2>3, <2>4 DEF IInv, TypeOK
  <1>3. Stamped' /\ Evidence' /\ Forgotten'
    BY <1>1 DEF IInv, Stamped, Evidence, Forgotten
  <1>4. WindowHasTask' /\ WindowCovers'
    BY <1>1 DEF IInv, WindowHasTask, WindowCovers, Calm
  <1>5. RecheckComes'
    <2>1. stack' = "live" => stack = "live"
      BY DEF ProjectFlips, UpdateEnds, EditSpec, DeleteStack, Restart, world
    <2> QED
      BY <1>1, <2>1 DEF IInv, RecheckComes
  <1> QED
    BY <1>2, <1>3, <1>4, <1>5 DEF IInv

LEMMA InitIInv == Init => IInv
  <1> SUFFICES ASSUME Init PROVE IInv
    OBVIOUS
  <1>1. NoCheck \in Checks /\ NoCheck.result = "none"
    BY StampTypes DEF NoCheck
  <1>2. TypeOK
    <2>1. /\ 0 \in 0 .. MaxFaults /\ 0 \in 0 .. MaxFlips /\ 0 \in 0 .. MaxRestarts
          /\ 0 \in 0 .. Recheck /\ Unset \in Unset .. Grace
      BY Constants, ConstantsAssumption
    <2>2. check \in Checks
      BY <1>1 DEF Init
    <2>3. /\ pending \in Unset .. Grace /\ absent \in Unset .. Grace /\ window \in 0 .. Recheck
          /\ faults \in 0 .. MaxFaults /\ flips \in 0 .. MaxFlips
          /\ restarts \in 0 .. MaxRestarts
      BY <2>1 DEF Init
    <2>4. /\ project \in {"active", "missing"} /\ stack \in {"live", "deleting"}
          /\ onExpired \in {"DeleteKustomization", "RemoveFinalizer"}
          /\ kustomization \in {"none", "present", "deleted"}
          /\ finalizer \in BOOLEAN /\ current \in BOOLEAN /\ settled \in BOOLEAN
          /\ wake \in BOOLEAN /\ stalled \in BOOLEAN
          /\ update \in {"none", "running", "ended"}
          /\ tasks = {} /\ mishaps = {}
      BY DEF Init
    <2> QED
      BY <2>2, <2>3, <2>4 DEF TypeOK, Checks
  <1> QED
    BY <1>1, <1>2, Constants
    DEF Init, IInv, Stamped, Evidence, Forgotten, WindowHasTask, WindowCovers, RecheckComes

LEMMA IInvStep == IInv /\ [Next]_vars => IInv'
  <1> SUFFICES ASSUME IInv, [Next]_vars PROVE IInv'
    OBVIOUS
  <1>1. CASE UNCHANGED vars
    BY <1>1 DEF vars, IInv, TypeOK, Stamped, Evidence, Forgotten, WindowHasTask, WindowCovers,
                Calm, RecheckComes
  <1> QED
    BY <1>1, HandlerSteps, TickStep, WorldSteps DEF Next

LEMMA Invariance == Spec => []IInv
  <1> QED
    BY InitIInv, IInvStep, PTL DEF Spec

\* The type invariant holds.
THEOREM TypeCorrect == Spec => []TypeOK
  <1>1. IInv => TypeOK
    BY DEF IInv
  <1> QED
    BY <1>1, Invariance, PTL

\* A pending deletion is looked at again, unless a reconcile stalled on a permanent error, or
\* its expiry or its finalizer came to nothing.
THEOREM PendingIsRechecked == Spec => []RecheckComes
  <1>1. IInv => RecheckComes
    BY DEF IInv
  <1> QED
    BY <1>1, Invariance, PTL

\* Only an expiry cleans up.
LEMMA CleanupExpires ==
    ASSUME IInv, [Next]_vars, Cleanup
    PROVE  /\ pending >= Grace /\ "not_found" \in Answers
           /\ window = 0 \/ 0 \in tasks
  <1>1. ~UNCHANGED <<finalizer, kustomization>>
    BY DEF Cleanup, IInv, TypeOK
  <1>2. ASSUME NEW rest, Reconcile(rest) PROVE ProjectTtlExpired(rest)
    <2>1. ~GetFails(rest) /\ ~Deletion(rest) /\ ~NormalFlow(rest)
          /\ ~ProjectNotFound(rest) /\ ~ProjectReinstated(rest)
      BY <1>1 DEF GetFails, Deletion, NormalFlow, ProjectNotFound, ProjectReinstated
    <2>2. ~AddFinalizer(rest)
      BY DEF Cleanup, AddFinalizer
    <2> QED
      BY <1>2, <2>1, <2>2 DEF Reconcile
  <1>3. \E rest : Reconcile(rest) /\ (window = 0 \/ 0 \in tasks)
    <2>1. HandleEvent \/ HandleRetry
      BY <1>1 DEF Next, vars, ProjectFlips, UpdateEnds, EditSpec, DeleteStack, Restart, Tick
    <2> QED
      BY <1>1, <2>1 DEF HandleEvent, HandleRetry
  <1> QED
    BY <1>2, <1>3 DEF ProjectTtlExpired, GraceOver

\* No cleanup before the project was missed for the whole grace period.
THEOREM CleanupAfterGrace == Spec => CleanupIsDue
  <1>1. IInv /\ [Next]_vars => [Cleanup => absent >= Grace \/ "unrecorded" \in mishaps]_vars
    <2> SUFFICES ASSUME IInv, [Next]_vars, Cleanup
                 PROVE  absent >= Grace \/ "unrecorded" \in mishaps
      OBVIOUS
    <2>1. pending >= Grace
      BY CleanupExpires
    <2>2. absent \in Unset .. Grace /\ pending \in Unset .. Grace
      BY DEF IInv, TypeOK
    <2> QED
      BY <2>1, <2>2, Constants DEF IInv, Evidence
  <1> QED
    BY <1>1, Invariance, PTL DEF Spec, CleanupIsDue

\* The project of a Stack that is cleaned up is missing, unless its rhythm was disturbed.
THEOREM CleanupOfMissing == Spec => CleanupIsCurrent
  <1>1. IInv /\ [Next]_vars =>
          [Cleanup => project = "missing" \/ "overlap" \in mishaps \/ "restart" \in mishaps]_vars
    <2> SUFFICES ASSUME IInv, [Next]_vars, Cleanup, Calm
                 PROVE  project = "missing"
      BY DEF Calm
    <2>1. "not_found" \in Answers /\ (window = 0 \/ 0 \in tasks)
      BY CleanupExpires
    <2>2. ~Cached
      <3> SUFFICES ASSUME Cached PROVE FALSE
        OBVIOUS
      <3>1. check.result = "not_found" /\ check.age < Recheck
        BY <2>1 DEF Cached, Answers
      <3>2. check.age >= Recheck
        BY <2>1, <3>1, HandlersReady DEF Ready
      <3> QED
        BY <3>1, <3>2, Constants DEF IInv, TypeOK
    <2> QED
      BY <2>1, <2>2 DEF Answers, Found, IInv, TypeOK
  <1> QED
    BY <1>1, Invariance, PTL DEF Spec, CleanupIsCurrent

=============================================================================
