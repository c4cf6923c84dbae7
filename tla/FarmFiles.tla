------------------------------ MODULE FarmFiles ------------------------------
(***************************************************************************)
(* What the slaves of a Monte-Carlo run leave on the master's disk, and    *)
(* the services they do it with: handle_slave_data of                      *)
(* src/sources/api/mbk/mbk_API.c, which keeps a set of flags and one FILE  *)
(* per exec, for mbk_comm_send_text_file (src/sources/mbk/mbk_comm.c) and  *)
(* ttv_sendttvdelays (src/sources/tas/ttv/ttv_ssta.c).                     *)
(*                                                                         *)
(* A request and its answer are one step: the slave waits for the answer   *)
(* and the master handles one request at a time.  Module JobFarm has the   *)
(* messages, and which deaths the master survives.                         *)
(*                                                                         *)
(* Each slave sends the timing figure, a text file of one name for all,    *)
(* then the delays it drew, in a file named after its seeds.               *)
(*                                                                         *)
(* A definition named Mutant... is a bug the next definition might have    *)
(* had; no behaviour uses it.                                              *)
(***************************************************************************)
EXTENDS Integers, Sequences, FiniteSets, SequencesExt

CONSTANTS Jobs,       \* how many runs are asked for
          Exec,       \* the execs of the master
          Pieces,     \* in how many requests a file is written
          DiskFull    \* fclose may fail to write what fwrite has buffered

ASSUME FilesAssumption == /\ Jobs \in Nat /\ Pieces \in Nat \ {0} /\ Exec \subseteq Nat
                          /\ DiskFull \in BOOLEAN

Job == 1..Jobs
NoJob == 0

Figure == 0                   \* the file of the timing figure, "<figure>.dtx"
Name == {Figure} \cup Job     \* the others: the delays of job j, "<figure>-<seeds>.ssta.stored"

VARIABLES exec,      \* the job of each exec, NoJob when it is free
          launch,    \* jobs started
          mutex,     \* the flags the master holds
          myfile,    \* the FILE in each exec
          opened,    \* the FILEs opened and not closed
          disk,      \* who wrote each piece of each file, NoJob if it is not written
          slave,     \* what each slave does and on which file
          torn,      \* the files whose last piece fclose has lost
          pvt,       \* the jobs whose figure has PVT errors
          posted     \* the results in the data file

farmVars == <<exec, launch, mutex, myfile, opened, slave, torn, pvt>>
filesVars == <<farmVars, disk, posted>>

NoFile == [name |-> Figure, owner |-> NoJob]
File == [name : Name, owner : Job]
Missing == [k \in 1..Pieces |-> -1]
Empty == [k \in 1..Pieces |-> NoJob]

At(step, name, piece) == [step |-> step, name |-> name, piece |-> piece]
Nowhere == At("none", Figure, 0)

FarmInit == /\ exec = [e \in Exec |-> NoJob]
            /\ launch = 0
            /\ mutex = {}
            /\ myfile = [e \in Exec |-> NoFile]
            /\ opened = {}
            /\ disk = [n \in Name |-> Missing]
            /\ slave = [j \in Job |-> Nowhere]
            /\ torn = {}
            /\ pvt = {}
            /\ posted = <<>>

ExecOf(j) == CHOOSE e \in Exec : exec[e] = j

Moves(j, to) == slave' = [slave EXCEPT ![j] = to]

-----------------------------------------------------------------------------
(***************************************************************************)
(* The master gives the first free exec to the next job; the FILE in it is *)
(* that of the job before.  A job whose figure has PVT errors sends no     *)
(* file.                                                                   *)
(***************************************************************************)
Launch ==
    LET free == {e \in Exec : exec[e] = NoJob}
    IN  /\ launch < Jobs /\ free # {}
        /\ launch' = launch + 1
        /\ exec' = [exec EXCEPT ![CHOOSE e \in free : \A f \in free : e <= f] = launch + 1]
        /\ \/ /\ Moves(launch + 1, At("flag", Figure, 0))
              /\ UNCHANGED pvt
           \/ /\ Moves(launch + 1, At("post", Figure, 0))
              /\ pvt' = pvt \cup {launch + 1}
        /\ UNCHANGED <<mutex, myfile, opened, disk, torn, posted>>

(***************************************************************************)
(* Where a slave goes when it is done with a file.  The flag of the figure *)
(* is never given back: the first slave to ask sends it, for all.          *)
(***************************************************************************)
MutantSkip(j, name) == IF name = Figure THEN At("post", Figure, 0) ELSE At("unset", j, 0)

Skip(j, name) == IF name = Figure THEN At("flag", j, 0) ELSE At("unset", j, 0)

MutantNoFlag(j) ==
    LET name == slave[j].name
    IN  /\ slave[j].step = "flag"
        /\ mutex' = mutex \cup {name}
        /\ Moves(j, At("create", name, 0))
        /\ UNCHANGED <<exec, launch, myfile, opened, disk, torn, pvt, posted>>

GetSetFlag(j) ==
    LET name == slave[j].name
    IN  /\ slave[j].step = "flag"
        /\ IF name \in mutex
           THEN Moves(j, Skip(j, name)) /\ UNCHANGED mutex
           ELSE Moves(j, At("create", name, 0)) /\ mutex' = mutex \cup {name}
        /\ UNCHANGED <<exec, launch, myfile, opened, disk, torn, pvt, posted>>

(***************************************************************************)
(* An answer "ko" is FATAL for the slave (MBK-068).                        *)
(***************************************************************************)
Gone == At("gone", Figure, 0)

MutantKeepsFile(j) ==
    LET name == slave[j].name
        e == ExecOf(j)
    IN  /\ slave[j].step = "create"
        /\ IF myfile[e] = NoFile
           THEN /\ myfile' = [myfile EXCEPT ![e] = [name |-> name, owner |-> j]]
                /\ opened' = opened \cup {[name |-> name, owner |-> j]}
                /\ disk' = [disk EXCEPT ![name] = Empty]
           ELSE UNCHANGED <<myfile, opened, disk>>
        /\ Moves(j, At("write", name, 1))
        /\ UNCHANGED <<exec, launch, mutex, torn, pvt, posted>>

CreateFile(j) ==
    LET name == slave[j].name
        file == [name |-> name, owner |-> j]
        e == ExecOf(j)
    IN  /\ slave[j].step = "create"
        /\ \/ /\ myfile' = [myfile EXCEPT ![e] = file]
              /\ opened' = opened \cup {file}
              /\ disk' = [disk EXCEPT ![name] = Empty]
              /\ Moves(j, At("write", name, 1))
              /\ UNCHANGED exec
           \/ /\ myfile' = [myfile EXCEPT ![e] = NoFile]
              /\ Moves(j, Gone)
              /\ exec' = [exec EXCEPT ![e] = NoJob]
              /\ UNCHANGED <<opened, disk>>
        /\ UNCHANGED <<launch, mutex, torn, pvt, posted>>

(***************************************************************************)
(* fwrite through the FILE of the exec, whatever file that is: the piece   *)
(* goes where that FILE stands.                                            *)
(***************************************************************************)
WriteFile(j) ==
    LET piece == slave[j].piece
        file == myfile[ExecOf(j)]
    IN  /\ slave[j].step = "write"
        /\ disk' = [disk EXCEPT ![file.name][piece] = j]
        /\ Moves(j, IF piece = Pieces THEN At("close", slave[j].name, 0)
                    ELSE [slave[j] EXCEPT !.piece = piece + 1])
        /\ UNCHANGED <<exec, launch, mutex, myfile, opened, torn, pvt, posted>>

(***************************************************************************)
(* The answer to closefile is freed unread: a slave never learns that the  *)
(* end of its file was not written.                                        *)
(***************************************************************************)
CloseFile(j) ==
    LET file == myfile[ExecOf(j)]
    IN  /\ slave[j].step = "close"
        /\ opened' = opened \ {file}
        /\ \/ UNCHANGED <<disk, torn>>
           \/ /\ DiskFull
              /\ disk' = [disk EXCEPT ![file.name][Pieces] = NoJob]
              /\ torn' = torn \cup {file.name}
        /\ Moves(j, Skip(j, slave[j].name))
        /\ UNCHANGED <<exec, launch, mutex, myfile, pvt, posted>>

UnsetFlag(j) ==
    /\ slave[j].step = "unset"
    /\ mutex' = mutex \ {slave[j].name}
    /\ Moves(j, At("post", Figure, 0))
    /\ UNCHANGED <<exec, launch, myfile, opened, disk, torn, pvt, posted>>

-----------------------------------------------------------------------------
(***************************************************************************)
(* avt_McPostData sends the result, then the end of the run.               *)
(***************************************************************************)
PostData(j) == /\ slave[j].step = "post"
               /\ posted' = Append(posted, j)
               /\ Moves(j, At("end", Figure, 0))
               /\ UNCHANGED <<exec, launch, mutex, myfile, opened, disk, torn, pvt>>

(***************************************************************************)
(* The end of a run and the death of a slave free the exec and nothing     *)
(* else: not the flag, and not the FILE.                                   *)
(***************************************************************************)
Leave(j) == /\ exec' = [exec EXCEPT ![ExecOf(j)] = NoJob]
            /\ Moves(j, Gone)
            /\ UNCHANGED <<launch, mutex, myfile, opened, disk, torn, pvt, posted>>

End(j) == slave[j].step = "end" /\ Leave(j)

Running(j) == slave[j].step \notin {"none", "gone"}

Crash(j) == Running(j) /\ slave[j].step # "end" /\ Leave(j)

Serve(j) == \/ GetSetFlag(j) \/ CreateFile(j) \/ WriteFile(j) \/ CloseFile(j) \/ UnsetFlag(j)

FarmNext == Launch \/ \E j \in Job : Serve(j) \/ PostData(j) \/ End(j) \/ Crash(j)

Finished == launch = Jobs /\ \A j \in Job : ~Running(j)

-----------------------------------------------------------------------------
(***************************************************************************)
(* The file handle_slave_data writes or closes for a job is open, and was  *)
(* opened for that job under the name it gave: never the FILE left in the  *)
(* exec by the job before, by the file before or by a failure.             *)
(***************************************************************************)
WritesOwnFile ==
    \A j \in Job : slave[j].step \in {"write", "close"} =>
        /\ myfile[ExecOf(j)] = [name |-> slave[j].name, owner |-> j]
        /\ myfile[ExecOf(j)] \in opened

WrittenBy(name, j) == \A k \in 1..Pieces : disk[name][k] = j

(***************************************************************************)
(* A result in the data file has its delays in the store, all of them, but *)
(* for a run with PVT errors and a file torn by its close.                 *)
(***************************************************************************)
ResultsStored == \A j \in ToSet(posted) \ (pvt \cup torn) : WrittenBy(j, j)

(***************************************************************************)
(* The figure is sent by one slave.  If it is not there whole when a run   *)
(* that could have sent it has posted its result, that slave is still at   *)
(* it, or has died and no other will send it, or its close has failed.     *)
(***************************************************************************)
FigureSentOnce ==
    /\ Cardinality({disk[Figure][k] : k \in 1..Pieces} \ {NoJob, -1}) <= 1
    /\ ToSet(posted) \ pvt # {} /\ Figure \notin torn =>
         \E j \in Job : \/ WrittenBy(Figure, j)
                        \/ slave[j].step \in {"create", "write", "close"} /\ slave[j].name = Figure
                        \/ slave[j].step = "gone" /\ j \notin ToSet(posted)
=============================================================================
