------------------------------- MODULE MCSsta -------------------------------
(***************************************************************************)
(* A Monte-Carlo run that stores its delays and the report made from them: *)
(* the properties of SstaStore on a small instance.  Those of the stored   *)
(* files themselves are in FarmFiles.                                      *)
(***************************************************************************)
EXTENDS SstaStore

ReportMade == at = "ready"

Readable == {r \in Run : ~ore[r].error}

(***************************************************************************)
(* The mean and the variance leave out no run that can be read, and count  *)
(* it once when all can: their loops go round the runs in opposite         *)
(* directions from the run that is selected, evict and read runs on the    *)
(* way, and find out during the first which cannot be read.                *)
(***************************************************************************)
StatsCover == ReportMade =>
    /\ \A r \in Readable : mean[r] >= 1 /\ var[r] >= 1
    /\ Readable = Run => /\ \A r \in Run : mean[r] = 1 /\ var[r] = 1
                        /\ realnum = Cardinality(Run)

(***************************************************************************)
(* The statistics of "pass 1 compute mean" and "pass 2 compute variance":  *)
(* each run that can be read counts once and the sums are divided by the   *)
(* number of these runs.                                                   *)
(***************************************************************************)
StatsExact == ReportMade /\ Readable # {} =>
    /\ \A r \in Readable : mean[r] = 1 /\ var[r] = 1
    /\ realnum = Cardinality(Readable)

(***************************************************************************)
(* A search of paths sees the delays of the run that is selected, as its   *)
(* slave drew them, and no run's in their place: also after evictions, a   *)
(* failed read and a second report.  The delays of the figure are seen     *)
(* only when the run cannot be read.                                       *)
(***************************************************************************)
ValuesOfRun == used.by = "search" =>
    \/ used.value = posted[used.run + 1] /\ WrittenBy(used.value, used.value)
    \/ used.value = Nominal /\ ore[used.run].error

(***************************************************************************)
(* No more delays are in memory than there is room for, or one run's when  *)
(* there is room for none, whatever reads have failed; and a victim is     *)
(* missed only when there is none.                                         *)
(***************************************************************************)
WithinLimit == /\ Cardinality(InMemory(ore)) <= Max({Limit, 1})
               /\ totalloaded <= Limit
               /\ Cardinality(InMemory(ore)) <= Max({totalloaded, 1})
=============================================================================
