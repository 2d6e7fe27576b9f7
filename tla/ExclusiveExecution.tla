------------------------- MODULE ExclusiveExecution -------------------------
(***************************************************************************)
(* What the mutex promises of a method: at any time at most one background *)
(* job is let in to perform it.                                            *)
(***************************************************************************)
CONSTANT Jobs

VARIABLE running   \* the jobs that are let in

Init == running = {}

Start(j) ==
    /\ running = {}
    /\ running' = {j}

Stop(j) ==
    /\ running = {j}
    /\ running' = {}

Next == \E j \in Jobs : Start(j) \/ Stop(j)

Spec == Init /\ [][Next]_running
=============================================================================
