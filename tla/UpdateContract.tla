---------------------------- MODULE UpdateContract ----------------------------
(***************************************************************************)
(* What the operator promises about the Update objects of a Stack: an      *)
(* Update is started at most once between its creation and its removal,    *)
(* a completed one stays completed, and one object of a name is never      *)
(* worked on while another is created under that name.  A task may be      *)
(* lost (a restart, a patch that fails); its Update then stays running.    *)
(***************************************************************************)
CONSTANT Updates        \* names

VARIABLES state,        \* of the object of each name
          working       \* the names a task works on

vars == <<state, working>>

States == {"none", "created", "running", "completed"}

TypeOK == state \in [Updates -> States] /\ working \in SUBSET Updates

Init == state = [n \in Updates |-> "none"] /\ working = {}

Create(n) ==
    /\ state[n] \in {"none", "completed"} /\ n \notin working
    /\ state' = [state EXCEPT ![n] = "created"]
    /\ UNCHANGED working

Start(n) ==
    /\ state[n] = "created"
    /\ state' = [state EXCEPT ![n] = "running"]
    /\ working' = working \cup {n}

Complete(n) ==
    /\ n \in working /\ state[n] = "running"
    /\ state' = [state EXCEPT ![n] = "completed"]
    /\ working' = working \ {n}

\* A task ends without a word.
Lose(S) ==
    /\ S # {} /\ S \subseteq working
    /\ working' = working \ S
    /\ UNCHANGED state

Remove(S) ==
    /\ S # {}
    /\ state' = [n \in Updates |-> IF n \in S THEN "none" ELSE state[n]]
    /\ UNCHANGED working

Next == \/ \E n \in Updates : Create(n) \/ Start(n) \/ Complete(n)
        \/ \E S \in SUBSET Updates : Lose(S) \/ Remove(S)

Spec == Init /\ [][Next]_vars
================================================================================
