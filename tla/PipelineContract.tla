------------------------- MODULE PipelineContract -------------------------
(***************************************************************************)
(* What the fetch pipeline promises its caller (spec 4.5): the tasks are  *)
(* completed one at a time, each exactly once and in any order, and the   *)
(* run finishes only after every task is complete, returning the list of  *)
(* completed tasks.                                                       *)
(***************************************************************************)
EXTENDS Sequences, Functions

CONSTANT Tasks   \* the occurrences of the input list

VARIABLES
    completed,   \* the result list, in completion order
    finished     \* the run has returned

vars == <<completed, finished>>

Init ==
    /\ completed = <<>>
    /\ finished = FALSE

\* A task not yet complete is completed.
Complete(t) ==
    /\ ~finished
    /\ t \in Tasks \ Range(completed)
    /\ completed' = Append(completed, t)
    /\ UNCHANGED finished

\* The run returns once every task is complete.
Finish ==
    /\ ~finished
    /\ Tasks \subseteq Range(completed)
    /\ finished' = TRUE
    /\ UNCHANGED completed

Next == (\E t \in Tasks : Complete(t)) \/ Finish

SafeSpec == Init /\ [][Next]_vars

Spec == SafeSpec /\ WF_vars(Next)

=============================================================================
