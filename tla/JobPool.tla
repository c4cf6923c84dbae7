------------------------------- MODULE JobPool -------------------------------
(***************************************************************************)
(* What runStatHiTas promises (src/sources/api/mbk/mbk_API.c): a number of *)
(* jobs, each launched once and ended once, never more than so many at a   *)
(* time.  Module JobFarm is shown to implement it (MCJobFarm).             *)
(***************************************************************************)
EXTENDS Integers, FiniteSets

CONSTANTS Jobs,        \* how many jobs are asked for
          Parallel     \* how many may be active at a time

VARIABLES launch,      \* jobs are numbered by their launch
          active,      \* the jobs launched and not ended
          ended        \* the jobs that completed or aborted

vars == <<launch, active, ended>>

Init == /\ launch = 0
        /\ active = {}
        /\ ended = {}

Launch == /\ launch < Jobs
          /\ Cardinality(active) < Parallel
          /\ launch' = launch + 1
          /\ active' = active \cup {launch + 1}
          /\ UNCHANGED ended

End(job) == /\ job \in active
            /\ active' = active \ {job}
            /\ ended' = ended \cup {job}
            /\ UNCHANGED launch

Next == Launch \/ \E job \in active : End(job)

Spec == Init /\ [][Next]_vars
=============================================================================
