------------------------------ MODULE SstaStore ------------------------------
(***************************************************************************)
(* The report of a Monte-Carlo analysis (ssta_SlackReport -display of      *)
(* tcl/ssta_ToolBox.tcl), another process that starts when the farm is     *)
(* done: it loads the stored delays of each result of the data file        *)
(* (src/sources/tas/ttv/ttv_ssta.c), computes statistics over the runs and *)
(* then analyses the figure with the delays of one run after the other.    *)
(* Only so many runs are kept in memory (avtSSTACacheSize).                *)
(*                                                                         *)
(* A definition named Mutant... is a bug the next definition might have    *)
(* had; no behaviour uses it.                                              *)
(***************************************************************************)
EXTENDS FarmFiles, FiniteSetsExt

CONSTANTS Limit,      \* how many runs avtSSTACacheSize has room for
          MaxLoads,   \* bound of the model: reports made by one process
          MaxCached   \* bound of the model: no search of paths beyond this cachenum

ASSUME StoreAssumption == Limit \in Nat /\ MaxLoads \in Nat /\ MaxCached \in Nat

VARIABLES at,            \* "farm", "mean", "var", "ready" or "crashed"
          ore,           \* the runs, numbered from 0
          cur_run, cachenum, totalloaded,
          num,           \* the loop of ttv_ssta_buildlinestat
          realnum,       \* the number the sums are divided by
          mean, var,     \* how often each run is in the sums
          used,          \* the delays the last analysis saw, and for which run
          loads          \* reports made

storeVars == <<ore, cur_run, cachenum, totalloaded>>
statVars == <<num, realnum, mean, var>>
vars == <<filesVars, at, storeVars, statVars, used, loads>>

Run == DOMAIN ore
Nominal == NoJob                       \* the delays of the figure itself
Nothing == [by |-> "none", run |-> 0, value |-> Nominal]
NoRuns == [i \in {} |-> 0]

Init == /\ FarmInit
        /\ at = "farm"
        /\ ore = NoRuns
        /\ cur_run = 0 /\ cachenum = 0 /\ totalloaded = 0
        /\ num = 0 /\ realnum = 0
        /\ mean = NoRuns /\ var = NoRuns
        /\ used = Nothing
        /\ loads = 0

Farm == at = "farm" /\ FarmNext /\ UNCHANGED <<at, storeVars, statVars, used, loads>>

-----------------------------------------------------------------------------
(***************************************************************************)
(* ttv_ssta_loadresults.  The runs are those of the data file, each with   *)
(* the stored file whose header has its seeds; a run without one is in     *)
(* error from the start.  sev and sevsig are not assigned there, nor       *)
(* sevsig by a read of the header alone.                                   *)
(***************************************************************************)
Stored(j) == disk[j][1] = j

Loaded(i) == LET j == posted[i + 1]
             IN  [file |-> IF Stored(j) THEN j ELSE NoJob,
                  error |-> ~Stored(j),
                  cachenum |-> 0,
                  sev |-> IF Stored(j) THEN "null" ELSE "undefined",
                  sevsig |-> "undefined"]

LoadResults ==
    /\ posted # <<>> /\ \E j \in Job : disk[j] # Missing
    /\ loads < MaxLoads
    /\ loads' = loads + 1
    /\ ore' = [i \in 0..Len(posted) - 1 |-> Loaded(i)]
    /\ cur_run' = 0 /\ cachenum' = 1 /\ totalloaded' = 0
    /\ num' = 0 /\ realnum' = 0
    /\ mean' = [i \in 0..Len(posted) - 1 |-> 0] /\ var' = mean'
    /\ used' = Nothing

(***************************************************************************)
(* The first report.  What the master had in memory is gone.               *)
(***************************************************************************)
Report == /\ at = "farm" /\ Finished
          /\ LoadResults
          /\ at' = "mean"
          /\ mutex' = {} /\ opened' = {} /\ myfile' = [e \in Exec |-> NoFile]
          /\ UNCHANGED <<exec, launch, slave, torn, pvt, disk, posted>>

(***************************************************************************)
(* A later report frees the arrays of the one before, those that were      *)
(* never assigned included: what free does then is undefined.              *)
(***************************************************************************)
Reload == /\ at = "ready"
          /\ \/ LoadResults /\ at' = "mean"
             \/ /\ \E r \in Run : "undefined" \in {ore[r].sev, ore[r].sevsig}
                /\ loads < MaxLoads
                /\ at' = "crashed"
                /\ UNCHANGED <<storeVars, statVars, used, loads>>
          /\ UNCHANGED filesVars

-----------------------------------------------------------------------------
(***************************************************************************)
(* ttv_ssta_set_run_number: the answer 1, run in error, leaves the run     *)
(* that was selected before.                                               *)
(***************************************************************************)
Selected(n) == IF ore[n].error THEN cur_run ELSE n

(***************************************************************************)
(* ttv_ssta_set_checkloadedstore loads the selected run.  The victim is    *)
(* searched with an index where its cache number is meant.                 *)
(***************************************************************************)
InMemory(runs) == {r \in DOMAIN runs : ~runs[r].error /\ runs[r].sev = "read"}

Victim == LET least[r \in 0..Cardinality(Run)] ==
                IF r = 0 THEN -1
                ELSE LET min == least[r - 1]
                     IN  IF r - 1 \in InMemory(ore) /\ (min = -1 \/ min > ore[r - 1].cachenum)
                         THEN r - 1 ELSE min
          IN  least[Cardinality(Run)]

Read(run) == IF run.error \/ run.sev = "read" THEN run
             ELSE IF WrittenBy(run.file, run.file)
                  THEN [run EXCEPT !.sev = "read", !.sevsig = "read"]
                  ELSE [run EXCEPT !.error = TRUE]

MutantNoEviction(r) ==
    LET needed == ~ore[r].error /\ ore[r].sev # "read"
    IN  /\ ore' = [ore EXCEPT ![r] = Read(@)]
        /\ cachenum' = cachenum
        /\ totalloaded' = IF needed /\ totalloaded < Limit THEN totalloaded + 1 ELSE totalloaded

MutantEvictsItself(r) ==
    LET needed == ~ore[r].error /\ ore[r].sev # "read"
        full == totalloaded + 1 > Limit
    IN  /\ ore' = IF needed /\ full
                  THEN [ore EXCEPT ![r] = [Read(@) EXCEPT !.sev = "null"]]
                  ELSE [ore EXCEPT ![r] = Read(@)]
        /\ cachenum' = IF needed /\ full THEN cachenum + 1 ELSE cachenum
        /\ totalloaded' = IF needed /\ ~full THEN totalloaded + 1 ELSE totalloaded

CheckLoaded(r) ==
    LET needed == ~ore[r].error /\ ore[r].sev # "read"
        full == totalloaded + 1 > Limit
        evicted == IF needed /\ full /\ Victim # -1
                   THEN [ore EXCEPT ![Victim].sev = "null"] ELSE ore
        numbered == IF needed /\ full
                    THEN [evicted EXCEPT ![r].cachenum = cachenum + 1] ELSE evicted
    IN  /\ ore' = [numbered EXCEPT ![r] = Read(@)]
        /\ cachenum' = IF needed /\ full THEN cachenum + 1 ELSE cachenum
        /\ totalloaded' = IF needed /\ ~full THEN totalloaded + 1 ELSE totalloaded

Failed(r) == ~ore[r].error /\ ore'[r].error

(***************************************************************************)
(* ttv_ssta_getvalues: the delays of the selected run when they are in     *)
(* memory.                                                                 *)
(***************************************************************************)
Values(runs, r) == IF r \in InMemory(runs) THEN runs[r].file ELSE Nominal

-----------------------------------------------------------------------------
(***************************************************************************)
(* ttv_ssta_buildlinestat: one step per turn of its two loops.  The answer *)
(* of ttv_ssta_set_run_number is not looked at.                            *)
(***************************************************************************)
start == 0       \* cur_run, as ttv_ssta_loadresults left it

Counts(sums, r) == IF r \in InMemory(ore') THEN [sums EXCEPT ![r] = @ + 1] ELSE sums

MutantMean == /\ at = "mean"
              /\ cur_run' = Selected(num)
              /\ CheckLoaded(cur_run')
              /\ IF Failed(cur_run') THEN UNCHANGED <<mean, realnum>>
                 ELSE mean' = Counts(mean, cur_run') /\ realnum' = realnum + 1
              /\ num' = IF num + 1 < Cardinality(Run) THEN num + 1 ELSE start
              /\ at' = IF num + 2 >= Cardinality(Run) THEN "var" ELSE "mean"
              /\ UNCHANGED <<var, used, loads, filesVars>>

Mean == /\ at = "mean"
        /\ cur_run' = Selected(num)
        /\ CheckLoaded(cur_run')
        /\ IF Failed(cur_run') THEN UNCHANGED <<mean, realnum>>
           ELSE mean' = Counts(mean, cur_run') /\ realnum' = realnum + 1
        /\ num' = (num + 1) % Cardinality(Run)
        /\ at' = IF num' = start THEN "var" ELSE "mean"
        /\ UNCHANGED <<var, used, loads, filesVars>>

Before == IF num = 0 THEN Cardinality(Run) - 1 ELSE num - 1

Variance == /\ at = "var"
            /\ num' = Before
            /\ cur_run' = Selected(num')
            /\ CheckLoaded(cur_run')
            /\ var' = IF Failed(cur_run') THEN var ELSE Counts(var, cur_run')
            /\ at' = IF num' = start THEN "ready" ELSE "var"
            /\ UNCHANGED <<realnum, mean, used, loads, filesVars>>

(***************************************************************************)
(* The report selects a run and analyses the figure.  A search of paths    *)
(* loads the run first; the stability analysis takes the delays as they    *)
(* are.                                                                    *)
(***************************************************************************)
SetRunNumber == /\ at = "ready"
                /\ \E n \in Run : cur_run' = Selected(n)
                /\ UNCHANGED <<at, ore, cachenum, totalloaded, statVars, used, loads, filesVars>>

Sees(who) == used' = [by |-> who, run |-> cur_run, value |-> Values(ore', cur_run)]

FindPath == /\ at = "ready" /\ cachenum < MaxCached
            /\ CheckLoaded(cur_run)
            /\ Sees("search")
            /\ UNCHANGED <<at, cur_run, statVars, loads, filesVars>>

Stability == /\ at = "ready"
             /\ ore' = ore
             /\ Sees("stability")
             /\ UNCHANGED <<at, cur_run, cachenum, totalloaded, statVars, loads, filesVars>>

Next == \/ Farm \/ Report \/ Reload
        \/ Mean \/ Variance \/ SetRunNumber \/ FindPath \/ Stability

Spec == Init /\ [][Next]_vars
=============================================================================
