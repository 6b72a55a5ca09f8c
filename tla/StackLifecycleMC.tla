--------------------------- MODULE StackLifecycleMC ---------------------------
(***************************************************************************)
(* StackLifecycle for TLC: the Stack specs that the runs explore.          *)
(***************************************************************************)
EXTENDS StackLifecycle

Keep    == [destroyOnFinalize |-> FALSE, preview |-> FALSE,
            reclaimDelete |-> FALSE, programSource |-> FALSE]
Destroy == [Keep EXCEPT !.destroyOnFinalize = TRUE]
Reclaim == [Destroy EXCEPT !.reclaimDelete = TRUE]
Program == [Destroy EXCEPT !.programSource = TRUE]
Preview == [Destroy EXCEPT !.preview = TRUE]

MCKeep       == {Keep}
MCDestroy    == {Destroy}
MCReclaim    == {Reclaim}
MCProgram    == {Program}
MCEvery      == {Keep, Destroy, Reclaim, Program, Preview}
MCSources    == {Reclaim, Program}
MCDisturbed == {Preview, Reclaim}
===============================================================================
