-------------------------- MODULE MCAgenticTasks --------------------------
(* An instance of AgenticTasks for TLC.                                    *)
EXTENDS AgenticTasks, TLC

CONSTANTS r1, r2

TwoRuns == {r1, r2}

Polled == {"interval", "checker"}

AllTriggers == Polled \cup {"script", "webhook"}

\* the names of the runs are interchangeable
RunSymmetry == Permutations(TwoRuns)

=============================================================================
