------------------------------ MODULE SstaProofs ------------------------------
(***************************************************************************)
(* The files of a Monte-Carlo run and the report read from them, for any   *)
(* number of runs, execs and pieces: handle_slave_data writes each file    *)
(* for its owner, a result in the data file has its delays in the store,   *)
(* one slave sends the figure, and a search of paths sees the delays of    *)
(* the run selected.                                                       *)
(***************************************************************************)
EXTENDS MCSsta, FiniteSetTheorems, WellFoundedInduction, TLAPS

(***************************************************************************)
(* Who runs where: a running job has one exec, a busy exec one running     *)
(* job, and jobs start in order.                                           *)
(***************************************************************************)
Placed ==
    /\ launch \in 0..Jobs
    /\ exec \in [Exec -> Job \cup {NoJob}]
    /\ \A e, f \in Exec : exec[e] = exec[f] /\ exec[e] # NoJob => e = f
    /\ \A j \in Job : Running(j) <=> \E e \in Exec : exec[e] = j
    /\ \A j \in Job : slave[j].step = "none" <=> j > launch

Where == [step : {"none", "flag", "create", "write", "close", "unset", "post", "end", "gone"},
          name : Name, piece : 0..Pieces]

Tables ==
    /\ slave \in [Job -> Where]
    /\ \A j \in Job : /\ slave[j].name \in {Figure, j}
                      /\ slave[j].step = "write" => slave[j].piece \in 1..Pieces
                      /\ slave[j].step = "unset" => slave[j].name = j
    /\ DOMAIN myfile = Exec
    /\ disk \in [Name -> [1..Pieces -> Int]]
    /\ posted \in Seq(Job)

(***************************************************************************)
(* What a slave has written by the time it is where it is; its flag is not *)
(* held before it asks for it.                                             *)
(***************************************************************************)
Posted == ToSet(posted)

Has(j, name) == slave[j].step \in {"create", "write", "close"} /\ slave[j].name = name

Sending(j) == Has(j, Figure)

Early(j) == slave[j].step \in {"none", "flag"} \/ Sending(j)

HasWritten(j) ==
    /\ slave[j].step = "write" =>
           \A k \in 1..(slave[j].piece - 1) : disk[slave[j].name][k] = j
    /\ slave[j].step = "close" => WrittenBy(slave[j].name, j)

HasStored(j) ==
    slave[j].step \in {"unset", "post", "end"} \/ j \in Posted =>
        j \in pvt \cup torn \/ WrittenBy(j, j)

Stores ==
    \A j \in Job :
        /\ j \in Posted => slave[j].step \in {"end", "gone"}
        /\ Early(j) => j \notin mutex
        /\ HasWritten(j)
        /\ HasStored(j)

(***************************************************************************)
(* The flag of the figure is taken by one slave, before any passes on.     *)
(***************************************************************************)
Past(j) == \/ slave[j].step \in {"unset", "post", "end"}
           \/ j \in Posted
           \/ slave[j].step = "flag" /\ slave[j].name = j
           \/ Has(j, j)
           \/ Sending(j)

Over(s) == slave[s].step = "gone" /\ s \notin Posted

SentBy(s) ==
    /\ \A k \in 1..Pieces : disk[Figure][k] \in {s, NoJob, -1}
    /\ \A j \in Job \ {s} : ~Sending(j)
    /\ \/ Sending(s)
       \/ Over(s)
       \/ WrittenBy(Figure, s)
       \/ Figure \in torn

Sent == /\ \A j \in Job \ pvt : Past(j) => Figure \in mutex
        /\ \A j \in Job : Sending(j) => Figure \in mutex
        /\ Figure \in mutex => \E s \in Job : SentBy(s)
        /\ Figure \notin mutex => \A k \in 1..Pieces : disk[Figure][k] = -1

FarmInvariant == Placed /\ Tables /\ WritesOwnFile /\ Stores /\ Sent

-----------------------------------------------------------------------------
LEMMA Least ==
  ASSUME NEW S, S \subseteq Nat, S # {}
  PROVE  \E x \in S : \A y \in S : x <= y
<1> DEFINE R == OpToRel(<, Nat)
<1>1. \A x, y \in Nat : y < x => <<y, x>> \in R
  BY DEF OpToRel
<1>2. IsWellFoundedOn(R, Nat)
  BY NatLessThanWellFounded
<1> HIDE DEF R
<1>3. \E x \in S : \A y \in S : <<y, x>> \notin R
  BY <1>2, WFMin
<1>4. PICK x \in S : \A y \in S : <<y, x>> \notin R
  BY <1>3
<1>5. \A y \in S : ~(y < x)
  BY <1>1, <1>4
<1> QED
  BY <1>5

LEMMA Jobs0 == NoJob \notin Job /\ Figure \notin Job /\ Job \subseteq Nat /\ Name = {Figure} \cup Job
BY FilesAssumption DEF Job, NoJob, Figure, Name

(***************************************************************************)
(* The exec of a running job is its own.                                   *)
(***************************************************************************)
LEMMA Seat ==
  ASSUME Placed, NEW j \in Job, Running(j)
  PROVE  /\ ExecOf(j) \in Exec /\ exec[ExecOf(j)] = j
         /\ \A e \in Exec : exec[e] = j => e = ExecOf(j)
         /\ \A k \in Job : Running(k) /\ k # j => ExecOf(k) # ExecOf(j)
<1>1. ASSUME NEW k \in Job, Running(k) PROVE ExecOf(k) \in Exec /\ exec[ExecOf(k)] = k
  BY <1>1 DEF Placed, ExecOf
<1>2. \A e \in Exec : exec[e] = j => e = ExecOf(j)
  BY <1>1, Jobs0 DEF Placed
<1> QED
  BY <1>1, <1>2

LEMMA Moved ==
  ASSUME Tables, NEW j \in Job, NEW to, Moves(j, to)
  PROVE  /\ slave'[j] = to /\ \A k \in Job : k # j => slave'[k] = slave[k]
         /\ to \in Where => slave' \in [Job -> Where]
BY DEF Moves, Tables

(***************************************************************************)
(* A step of a job that stays where it is changes no exec.                 *)
(***************************************************************************)
LEMMA Stays ==
  ASSUME Placed, Tables, NEW j \in Job, NEW to, Moves(j, to), Running(j),
         to.step \notin {"none", "gone"}, UNCHANGED <<exec, launch>>
  PROVE  Placed' /\ \A k \in Job : ExecOf(k)' = ExecOf(k) /\ (Running(k)' = Running(k))
<1>1. slave'[j] = to /\ \A k \in Job : k # j => slave'[k] = slave[k]
  BY Moved
<1>2. \A k \in Job : Running(k)' = Running(k)
  BY <1>1 DEF Running
<1>3. \A k \in Job : slave'[k].step = "none" <=> slave[k].step = "none"
  BY <1>1 DEF Running
<1>4. Placed'
  BY <1>2, <1>3, Jobs0 DEF Placed
<1>5. \A k \in Job : ExecOf(k)' = ExecOf(k)
  BY DEF ExecOf
<1> QED
  BY <1>2, <1>4, <1>5

(***************************************************************************)
(* A job that goes frees its exec; the others keep theirs.                 *)
(***************************************************************************)
LEMMA Goes ==
  ASSUME Placed, Tables, NEW j \in Job, Running(j), Moves(j, Gone),
         exec' = [exec EXCEPT ![ExecOf(j)] = NoJob], UNCHANGED launch
  PROVE  /\ Placed'
         /\ \A k \in Job : Running(k)' <=> Running(k) /\ k # j
         /\ \A k \in Job : Running(k)' => ExecOf(k)' = ExecOf(k)
<1>1. slave'[j] = Gone /\ \A k \in Job : k # j => slave'[k] = slave[k]
  BY Moved
<1>2. Gone.step = "gone"
  BY DEF Gone, At
<1>3. \A k \in Job : Running(k)' <=> Running(k) /\ k # j
  BY <1>1, <1>2 DEF Running
<1>4. /\ ExecOf(j) \in Exec /\ exec[ExecOf(j)] = j
      /\ \A e \in Exec : exec[e] = j => e = ExecOf(j)
  BY Seat
<1>5. \A e \in Exec : exec'[e] = IF e = ExecOf(j) THEN NoJob ELSE exec[e]
  BY DEF Placed
<1>6. \A k \in Job : slave'[k].step = "none" <=> slave[k].step = "none"
  BY <1>1, <1>2 DEF Running
<1>7. exec' \in [Exec -> Job \cup {NoJob}]
  BY DEF Placed
<1>8. Placed'
  <2>1. \A k \in Job : Running(k)' => \E e \in Exec : exec'[e] = k
    BY <1>3, <1>4, <1>5 DEF Placed
  <2>2. \A k \in Job : (\E e \in Exec : exec'[e] = k) => Running(k)'
    BY <1>3, <1>4, <1>5, Jobs0 DEF Placed
  <2>3. \A e, f \in Exec : exec'[e] = exec'[f] /\ exec'[e] # NoJob => e = f
    BY <1>5 DEF Placed
  <2> QED
    BY <1>6, <1>7, <2>1, <2>2, <2>3 DEF Placed
<1>9. ASSUME NEW k \in Job, Running(k)' PROVE ExecOf(k)' = ExecOf(k)
  <2>1. k # j /\ Running(k) /\ ExecOf(k) \in Exec /\ exec[ExecOf(k)] = k
    BY <1>3, <1>9, Seat
  <2>2. exec'[ExecOf(k)] = k
    BY <1>4, <1>5, <2>1
  <2>3. \A e \in Exec : exec'[e] = k => e = ExecOf(k)
    BY <1>8, <2>1, <2>2, Jobs0 DEF Placed
  <2> QED
    BY <2>1, <2>2, <2>3 DEF ExecOf
<1> QED
  BY <1>3, <1>8, <1>9

LEMMA Words ==
  ASSUME NEW a, NEW b, NEW c
  PROVE  At(a, b, c).step = a /\ At(a, b, c).name = b /\ At(a, b, c).piece = c
BY DEF At

(***************************************************************************)
(* One slave at most sends the figure.                                     *)
(***************************************************************************)
LEMMA OneSender ==
  ASSUME Sent, NEW j \in Job, Sending(j)
  PROVE  Figure \in mutex /\ SentBy(j) /\ \A k \in Job : Sending(k) => k = j
<1>1. PICK s \in Job : SentBy(s)
  BY DEF Sent
<1>2. s = j
  BY <1>1 DEF SentBy
<1> QED
  BY <1>1, <1>2 DEF Sent, SentBy

(***************************************************************************)
(* A job that does not move, when its files and the data file stay.        *)
(***************************************************************************)
LEMMA OthersStored ==
  ASSUME Stores, NEW k \in Job, slave'[k] = slave[k], UNCHANGED posted,
         disk'[k] = disk[k], Has(k, slave[k].name) => disk'[slave[k].name] = disk[slave[k].name],
         pvt \subseteq pvt', torn \subseteq torn', k \in mutex' => k \in mutex
  PROVE  /\ k \in Posted' => slave'[k].step \in {"end", "gone"}
         /\ Early(k)' => k \notin mutex'
         /\ HasWritten(k)'
         /\ HasStored(k)'
<1>1. Posted' = Posted
  BY DEF Posted
<1>2. Early(k)' = Early(k)
  BY DEF Early, Sending, Has
<1>3. /\ k \in Posted => slave[k].step \in {"end", "gone"}
      /\ Early(k) => k \notin mutex
      /\ HasWritten(k) /\ HasStored(k)
  BY DEF Stores
<1>4. WrittenBy(k, k)' = WrittenBy(k, k)
  BY DEF WrittenBy
<1>5. HasWritten(k)'
  BY <1>3 DEF HasWritten, WrittenBy, Has
<1>6. HasStored(k)'
  BY <1>1, <1>3, <1>4 DEF HasStored
<1> QED
  BY <1>1, <1>2, <1>3, <1>5, <1>6

(***************************************************************************)
(* A step that opens no way to the figure and closes none but by death.    *)
(***************************************************************************)
LEMMA SentStays ==
  ASSUME Sent, disk'[Figure] = disk[Figure], Figure \in mutex' <=> Figure \in mutex,
         pvt \subseteq pvt', torn \subseteq torn',
         \A k \in Job \ pvt' : Past(k)' => Past(k) \/ Figure \in mutex,
         \A k \in Job : Sending(k)' => Sending(k),
         \A k \in Job : Sending(k) \/ Over(k) => Sending(k)' \/ Over(k)'
  PROVE  Sent'
<1>1. ASSUME NEW k \in Job \ pvt', Past(k)' PROVE Figure \in mutex'
  BY <1>1 DEF Sent
<1>2. \A k \in Job : Sending(k)' => Figure \in mutex'
  BY DEF Sent
<1>3. ASSUME NEW s \in Job, SentBy(s) PROVE SentBy(s)'
  <2>1. \A k \in Job \ {s} : ~Sending(k)'
    BY <1>3 DEF SentBy
  <2>2. Sending(s)' \/ Over(s)' \/ WrittenBy(Figure, s)' \/ Figure \in torn'
    BY <1>3 DEF SentBy, WrittenBy
  <2>3. \A k \in 1..Pieces : disk'[Figure][k] \in {s, NoJob, -1}
    BY <1>3 DEF SentBy
  <2> QED
    BY <2>1, <2>2, <2>3 DEF SentBy
<1>4. Figure \in mutex' => \E s \in Job : SentBy(s)'
  BY <1>3 DEF Sent
<1>5. Figure \notin mutex' => \A k \in 1..Pieces : disk'[Figure][k] = -1
  BY DEF Sent
<1> QED
  BY <1>1, <1>2, <1>4, <1>5 DEF Sent

(***************************************************************************)
(* A step on the file j has in hand leaves the others theirs, and the      *)
(* figure to its sender.                                                   *)
(***************************************************************************)
LEMMA OthersKeep ==
  ASSUME FarmInvariant, NEW j \in Job, Has(j, slave[j].name),
         \A k \in Job : k # j => slave'[k] = slave[k],
         \A n \in Name : n # slave[j].name => disk'[n] = disk[n],
         UNCHANGED <<mutex, pvt, posted>>, torn \subseteq torn',
         NEW k \in Job, k # j
  PROVE  /\ k \in Posted' => slave'[k].step \in {"end", "gone"}
         /\ Early(k)' => k \notin mutex'
         /\ HasWritten(k)'
         /\ HasStored(k)'
<1>1. slave[j].name \in {Figure, j} /\ slave[k].name \in {Figure, k}
  BY DEF FarmInvariant, Tables
<1>2. k \in Name /\ Figure \in Name /\ k # Figure /\ j # Figure
  BY Jobs0
<1>3. disk'[k] = disk[k]
  BY <1>1, <1>2
<1>4. ASSUME Has(k, slave[k].name) PROVE slave[k].name # slave[j].name
  BY <1>1, <1>2, <1>4, OneSender DEF FarmInvariant, Sending
<1>5. Has(k, slave[k].name) => disk'[slave[k].name] = disk[slave[k].name]
  BY <1>1, <1>2, <1>4
<1> QED
  BY <1>3, <1>5, OthersStored DEF FarmInvariant

LEMMA FigureKept ==
  ASSUME FarmInvariant, NEW j \in Job, Has(j, slave[j].name),
         \A k \in Job : k # j => slave'[k] = slave[k],
         \A n \in Name : n # slave[j].name => disk'[n] = disk[n],
         UNCHANGED <<mutex, pvt, posted>>, torn \subseteq torn',
         slave[j].name = Figure =>
             /\ \A k \in 1..Pieces : disk'[Figure][k] \in {j, NoJob, -1}
             /\ Sending(j)' \/ Over(j)' \/ WrittenBy(Figure, j)' \/ Figure \in torn',
         slave[j].name = j => ~Sending(j)'
  PROVE  Sent'
<1>1. slave[j].name \in {Figure, j} /\ j # Figure
  BY Jobs0 DEF FarmInvariant, Tables
<1>2. Posted' = Posted /\ \A k \in Job : k # j =>
        Past(k)' = Past(k) /\ Sending(k)' = Sending(k) /\ Over(k)' = Over(k)
  BY DEF Past, Sending, Has, Over, Posted
<1>3. CASE slave[j].name = Figure
  <2>1. Sending(j) /\ Figure \in mutex /\ \A k \in Job : Sending(k) => k = j
    BY <1>3, OneSender DEF FarmInvariant, Sending
  <2>2. SentBy(j)'
    BY <1>2, <1>3, <2>1 DEF SentBy
  <2> QED
    BY <2>1, <2>2 DEF Sent
<1>4. CASE slave[j].name = j
  <2>1. disk'[Figure] = disk[Figure]
    BY <1>1, <1>4, Jobs0
  <2>2. Past(j) /\ ~Sending(j) /\ ~Over(j)
    BY <1>1, <1>4 DEF Past, Sending, Has, Over
  <2> QED
    BY <1>2, <1>4, <2>1, <2>2, SentStays DEF FarmInvariant
<1> QED
  BY <1>1, <1>3, <1>4

-----------------------------------------------------------------------------
(***************************************************************************)
(* The requests of a slave.                                                *)
(***************************************************************************)
LEMMA GetSetFlagKeeps ==
  ASSUME FarmInvariant, NEW j \in Job, GetSetFlag(j)
  PROVE  FarmInvariant'
<1> USE DEF FarmInvariant
<1>1. /\ slave[j].step = "flag" /\ slave[j].name \in {Figure, j} /\ Running(j) /\ j \notin mutex
      /\ UNCHANGED <<exec, launch, myfile, opened, disk, torn, pvt, posted>>
  <2>1. /\ slave[j].step = "flag"
        /\ UNCHANGED <<exec, launch, myfile, opened, disk, torn, pvt, posted>>
    BY DEF GetSetFlag
  <2>2. slave[j].name \in {Figure, j}
    BY DEF Tables
  <2>3. j \notin mutex
    BY <2>1 DEF Stores, Early
  <2> QED
    BY <2>1, <2>2, <2>3 DEF Running
<1>2. PICK to :
        /\ Moves(j, to)
        /\ \/ /\ slave[j].name = Figure /\ Figure \in mutex
              /\ to = At("flag", j, 0) /\ mutex' = mutex
           \/ /\ slave[j].name \notin mutex
              /\ to = At("create", slave[j].name, 0) /\ mutex' = mutex \cup {slave[j].name}
  BY <1>1 DEF GetSetFlag, Skip
<1>3. to \in Where /\ to.step \in {"flag", "create"} /\ to.name \in {Figure, j}
  BY <1>1, <1>2, FilesAssumption DEF At, Where, Name
<1>4. slave'[j] = to /\ (\A k \in Job : k # j => slave'[k] = slave[k]) /\ slave' \in [Job -> Where]
  BY <1>2, <1>3, Moved
<1>5. Placed' /\ \A k \in Job : ExecOf(k)' = ExecOf(k)
  BY <1>1, <1>2, <1>3, Stays
<1>6. Tables'
  BY <1>1, <1>3, <1>4 DEF Tables
<1>7. WritesOwnFile'
  BY <1>1, <1>3, <1>4, <1>5 DEF WritesOwnFile
<1>8. Stores'
  <2>1. ~(j \in Posted') /\ (Early(j)' => j \notin mutex') /\ HasWritten(j)' /\ HasStored(j)'
    <3>1. j \notin Posted /\ Posted' = Posted
      BY <1>1 DEF Stores, Posted
    <3>2. Early(j)' => j \notin mutex'
      BY <1>1, <1>2, <1>4, Words, Jobs0 DEF Early, Sending, Has
    <3> QED
      BY <1>3, <1>4, <3>1, <3>2 DEF HasWritten, HasStored
  <2>2. \A k \in Job \ {j} : k \in mutex' => k \in mutex
    BY <1>1, <1>2, Jobs0
  <2> QED
    BY <1>1, <1>4, <2>1, <2>2, OthersStored DEF Stores
<1>9. Sent'
  <2>1. \A k \in Job \ {j} : Past(k)' = Past(k) /\ Sending(k)' = Sending(k) /\ Over(k)' = Over(k)
    BY <1>1, <1>4 DEF Past, Sending, Has, Over, Posted
  <2>2. ~Sending(j) /\ ~Over(j)
    BY <1>1 DEF Sending, Has, Over
  <2>3. CASE slave[j].name = Figure /\ Figure \notin mutex
    <3>1. slave'[j].step = "create" /\ slave'[j].name = Figure /\ mutex' = mutex \cup {Figure}
      BY <1>2, <1>4, <2>3, Words
    <3>2. SentBy(j)'
      BY <1>1, <2>1, <2>3, <3>1 DEF SentBy, Sent, Sending, Has
    <3> QED
      BY <3>1, <3>2 DEF Sent
  <2>4. CASE ~(slave[j].name = Figure /\ Figure \notin mutex)
    <3>1. Figure \in mutex' <=> Figure \in mutex
      BY <1>1, <1>2, <2>4, Jobs0
    <3>2. ~Sending(j)'
      BY <1>1, <1>2, <1>4, <2>4, Words DEF Sending, Has
    <3>3. j \notin pvt => (Past(j)' => Past(j) \/ Figure \in mutex)
      BY <1>1, <1>2, <1>4, <2>4 DEF Past
    <3> QED
      BY <1>1, <2>1, <2>2, <3>1, <3>2, <3>3, SentStays
  <2> QED
    BY <2>3, <2>4
<1> QED
  BY <1>5, <1>6, <1>7, <1>8, <1>9

LEMMA CreateFileKeeps ==
  ASSUME FarmInvariant, NEW j \in Job, CreateFile(j)
  PROVE  FarmInvariant'
<1> USE DEF FarmInvariant
<1> DEFINE name == slave[j].name
           file == [name |-> name, owner |-> j]
<1>1. /\ slave[j].step = "create" /\ UNCHANGED <<launch, mutex, torn, pvt, posted>>
      /\ Running(j) /\ Has(j, name) /\ name \in {Figure, j} /\ name \in Name
      /\ j \notin mutex \/ name = j
  <2>1. slave[j].step = "create" /\ UNCHANGED <<launch, mutex, torn, pvt, posted>>
    BY DEF CreateFile
  <2>2. name \in {Figure, j} /\ name \in Name
    BY Jobs0 DEF Tables
  <2> QED
    BY <2>1, <2>2 DEF Running, Has, Stores, Early, Sending
<1>2. j \notin Posted /\ Posted' = Posted
  BY <1>1 DEF Stores, Posted
<1>3. /\ ExecOf(j) \in Exec
      /\ \A k \in Job : Running(k) /\ k # j => ExecOf(k) # ExecOf(j) /\ ExecOf(k) \in Exec
  BY <1>1, Seat
<1>4. CASE /\ myfile' = [myfile EXCEPT ![ExecOf(j)] = file]
           /\ opened' = opened \cup {file}
           /\ disk' = [disk EXCEPT ![name] = Empty]
           /\ Moves(j, At("write", name, 1))
           /\ UNCHANGED exec
  <2>1. At("write", name, 1) \in Where /\ 1 \in 1..Pieces
    BY <1>1, FilesAssumption DEF At, Where
  <2>2. /\ slave'[j] = At("write", name, 1) /\ slave' \in [Job -> Where]
        /\ \A k \in Job : k # j => slave'[k] = slave[k]
    BY <1>4, <2>1, Moved
  <2>3. Placed' /\ \A k \in Job : ExecOf(k)' = ExecOf(k)
    BY <1>1, <1>4, Stays, Words
  <2>4. disk'[name] = Empty /\ \A n \in Name : n # name => disk'[n] = disk[n]
    BY <1>1, <1>4 DEF Tables
  <2>5. Empty \in [1..Pieces -> Int]
    BY DEF Empty, NoJob
  <2>6. Tables'
    <3>1. disk' \in [Name -> [1..Pieces -> Int]] /\ DOMAIN myfile' = Exec
      BY <1>4, <2>5 DEF Tables
    <3>2. slave'[j].name = name /\ slave'[j].step = "write" /\ slave'[j].piece = 1
      BY <2>2, Words
    <3> HIDE DEF name
    <3> QED
      BY <1>1, <2>1, <2>2, <3>1, <3>2 DEF Tables
  <2>7. WritesOwnFile'
    <3>1. /\ myfile'[ExecOf(j)] = file /\ file \in opened'
          /\ \A e \in Exec : e # ExecOf(j) => myfile'[e] = myfile[e]
      BY <1>3, <1>4 DEF Tables
    <3>2. ASSUME NEW k \in Job, k # j, slave'[k].step \in {"write", "close"}
          PROVE  /\ myfile'[ExecOf(k)'] = [name |-> slave'[k].name, owner |-> k]
                 /\ myfile'[ExecOf(k)'] \in opened'
      BY <1>3, <1>4, <2>2, <2>3, <3>1, <3>2 DEF WritesOwnFile, Running
    <3>3. ExecOf(j)' = ExecOf(j) /\ slave'[j].name = name
      BY <2>2, <2>3, Words
    <3> HIDE DEF name
    <3> QED
      BY <3>1, <3>2, <3>3 DEF WritesOwnFile
  <2>8. Stores'
    <3>1. HasWritten(j)' /\ HasStored(j)'
      BY <1>2, <2>2, Words DEF HasWritten, HasStored
    <3>2. Early(j)' => j \notin mutex'
      BY <1>1, <2>2, Words, Jobs0 DEF Early, Sending, Has
    <3> QED
      BY <1>1, <1>2, <2>2, <2>4, <3>1, <3>2, OthersKeep DEF Stores
  <2>9. Sent'
    <3>1. \A k \in 1..Pieces : Empty[k] = NoJob
      BY DEF Empty
    <3>2. Sending(j)' <=> name = Figure
      BY <2>2, Words DEF Sending, Has
    <3> QED
      BY <1>1, <2>2, <2>4, <3>1, <3>2, FigureKept, Jobs0
  <2> QED
    BY <2>3, <2>6, <2>7, <2>8, <2>9
<1>5. CASE /\ myfile' = [myfile EXCEPT ![ExecOf(j)] = NoFile]
           /\ Moves(j, Gone)
           /\ exec' = [exec EXCEPT ![ExecOf(j)] = NoJob]
           /\ UNCHANGED <<opened, disk>>
  <2>1. Gone \in Where /\ Gone.step = "gone" /\ Gone.name = Figure
    BY FilesAssumption DEF Gone, At, Where, Name
  <2>2. /\ slave'[j] = Gone /\ slave' \in [Job -> Where]
        /\ \A k \in Job : k # j => slave'[k] = slave[k]
    BY <1>5, <2>1, Moved
  <2>3. /\ Placed'
        /\ \A k \in Job : Running(k)' <=> Running(k) /\ k # j
        /\ \A k \in Job : Running(k)' => ExecOf(k)' = ExecOf(k)
    BY <1>1, <1>5, Goes
  <2>4. Tables'
    BY <1>1, <1>5, <2>1, <2>2 DEF Tables
  <2>5. WritesOwnFile'
    <3> SUFFICES ASSUME NEW k \in Job, slave'[k].step \in {"write", "close"}
                 PROVE  /\ myfile'[ExecOf(k)'] = [name |-> slave'[k].name, owner |-> k]
                        /\ myfile'[ExecOf(k)'] \in opened'
      BY DEF WritesOwnFile
    <3>1. Running(k)'
      BY DEF Running
    <3> QED
      BY <1>3, <1>5, <2>2, <2>3, <3>1 DEF WritesOwnFile, Tables
  <2>6. Stores'
    <3>1. HasWritten(j)' /\ HasStored(j)' /\ ~Early(j)'
      BY <1>2, <2>1, <2>2 DEF HasWritten, HasStored, Early, Sending, Has
    <3> QED
      BY <1>1, <1>2, <1>5, <2>1, <2>2, <3>1, OthersKeep DEF Stores
  <2>7. Sent'
    <3>1. Over(j)' /\ ~Sending(j)'
      BY <1>2, <2>1, <2>2 DEF Over, Sending, Has
    <3>2. ASSUME name = Figure PROVE \A k \in 1..Pieces : disk'[Figure][k] \in {j, NoJob, -1}
      <4>1. Sending(j)
        BY <1>1, <3>2 DEF Sending
      <4> QED
        BY <1>5, <4>1, OneSender DEF SentBy
    <3> QED
      BY <1>1, <1>5, <2>2, <3>1, <3>2, FigureKept
  <2> QED
    BY <2>3, <2>4, <2>5, <2>6, <2>7
<1> QED
  BY <1>4, <1>5 DEF CreateFile

LEMMA WriteFileKeeps ==
  ASSUME FarmInvariant, NEW j \in Job, WriteFile(j)
  PROVE  FarmInvariant'
<1> USE DEF FarmInvariant
<1> DEFINE name == slave[j].name
           piece == slave[j].piece
           to == IF piece = Pieces THEN At("close", name, 0) ELSE [slave[j] EXCEPT !.piece = piece + 1]
<1>1. /\ slave[j].step = "write" /\ Moves(j, to) /\ slave[j] \in Where
      /\ disk' = [disk EXCEPT ![myfile[ExecOf(j)].name][piece] = j]
      /\ UNCHANGED <<exec, launch, mutex, myfile, opened, torn, pvt, posted>>
  BY DEF WriteFile, Tables
<1>2. /\ Running(j) /\ Has(j, name) /\ name \in {Figure, j} /\ name \in Name
      /\ piece \in 1..Pieces /\ (j \notin mutex \/ name = j)
  <2>1. name \in {Figure, j} /\ piece \in 1..Pieces /\ name \in Name
    BY <1>1, Jobs0 DEF Tables
  <2> QED
    BY <1>1, <2>1 DEF Running, Has, Stores, Early, Sending
<1>3. j \notin Posted /\ Posted' = Posted
  BY <1>1 DEF Stores, Posted
<1>4. disk' = [disk EXCEPT ![name][piece] = j]
  <2>1. myfile[ExecOf(j)] = [name |-> name, owner |-> j]
    BY <1>1 DEF WritesOwnFile
  <2>2. myfile[ExecOf(j)].name = name
    BY <2>1
  <2> QED
    BY <1>1, <2>2
<1>5. /\ to \in Where /\ to.name = name
      /\ \/ piece = Pieces /\ to.step = "close"
         \/ piece # Pieces /\ to.step = "write" /\ to.piece = piece + 1
  <2>1. CASE piece = Pieces
    BY <1>2, <2>1, FilesAssumption DEF At, Where
  <2>2. CASE piece # Pieces
    <3>1. piece + 1 \in 0..Pieces
      BY <1>2, <2>2, FilesAssumption
    <3> QED
      BY <1>1, <2>2, <3>1 DEF Where
  <2> QED
    BY <2>1, <2>2
<1> HIDE DEF to
<1>6. /\ slave'[j] = to /\ slave' \in [Job -> Where]
      /\ \A k \in Job : k # j => slave'[k] = slave[k]
  BY <1>1, <1>5, Moved
<1>7. Placed' /\ \A k \in Job : ExecOf(k)' = ExecOf(k)
  BY <1>1, <1>2, <1>5, Stays
<1>8. /\ disk' \in [Name -> [1..Pieces -> Int]]
      /\ \A n \in Name : n # name => disk'[n] = disk[n]
      /\ disk'[name] = [disk[name] EXCEPT ![piece] = j]
  <2>1. j \in Int
    BY Jobs0
  <2> QED
    BY <1>2, <1>4, <2>1 DEF Tables
<1>9. disk'[name][piece] = j /\ \A k \in 1..Pieces : k # piece => disk'[name][k] = disk[name][k]
  BY <1>2, <1>8 DEF Tables
<1>10. Tables'
  <2>1. slave'[j].step = "write" => slave'[j].piece \in 1..Pieces
    BY <1>2, <1>5, <1>6, FilesAssumption
  <2> HIDE DEF name
  <2> QED
    BY <1>1, <1>2, <1>5, <1>6, <1>8, <2>1 DEF Tables
<1>11. WritesOwnFile'
  BY <1>1, <1>5, <1>6, <1>7 DEF WritesOwnFile
<1>12. Stores'
  <2>1. \A k \in 1..(piece - 1) : disk[name][k] = j
    BY <1>1 DEF Stores, HasWritten
  <2>2. \A k \in 1..piece : disk'[name][k] = j
    BY <1>2, <1>9, <2>1, FilesAssumption
  <2>3. HasWritten(j)'
    BY <1>2, <1>5, <1>6, <2>2, FilesAssumption DEF HasWritten, WrittenBy
  <2>4. HasStored(j)' /\ (Early(j)' => j \notin mutex')
    BY <1>1, <1>2, <1>3, <1>5, <1>6, Jobs0 DEF HasStored, Early, Sending, Has
  <2> QED
    BY <1>1, <1>2, <1>3, <1>6, <1>8, <2>3, <2>4, OthersKeep DEF Stores
<1>13. Sent'
  <2>1. Sending(j)' <=> name = Figure
    BY <1>2, <1>5, <1>6 DEF Sending, Has
  <2>2. ASSUME name = Figure PROVE \A k \in 1..Pieces : disk'[Figure][k] \in {j, NoJob, -1}
    <3>1. Sending(j)
      BY <1>2, <2>2 DEF Sending
    <3> QED
      BY <1>9, <2>2, <3>1, OneSender DEF SentBy
  <2> QED
    BY <1>1, <1>2, <1>6, <1>8, <2>1, <2>2, FigureKept, Jobs0
<1> QED
  BY <1>7, <1>10, <1>11, <1>12, <1>13

LEMMA CloseFileKeeps ==
  ASSUME FarmInvariant, NEW j \in Job, CloseFile(j)
  PROVE  FarmInvariant'
<1> USE DEF FarmInvariant
<1> DEFINE name == slave[j].name
           file == [name |-> name, owner |-> j]
<1>1. /\ slave[j].step = "close" /\ Moves(j, Skip(j, name))
      /\ UNCHANGED <<exec, launch, mutex, myfile, pvt, posted>>
      /\ myfile[ExecOf(j)] = file
  BY DEF CloseFile, WritesOwnFile
<1>2. /\ opened' = opened \ {file}
      /\ \/ UNCHANGED <<disk, torn>>
         \/ /\ disk' = [disk EXCEPT ![name][Pieces] = NoJob]
            /\ torn' = torn \cup {name}
  BY <1>1 DEF CloseFile
<1>3. /\ Running(j) /\ Has(j, name) /\ name \in {Figure, j} /\ name \in Name
      /\ (j \notin mutex \/ name = j)
  <2>1. name \in {Figure, j} /\ name \in Name
    BY Jobs0 DEF Tables
  <2> QED
    BY <1>1, <2>1 DEF Running, Has, Stores, Early, Sending
<1>4. j \notin Posted /\ Posted' = Posted
  BY <1>1 DEF Stores, Posted
<1>5. \/ name = Figure /\ Skip(j, name) = At("flag", j, 0)
      \/ name = j /\ Skip(j, name) = At("unset", j, 0)
  BY <1>3, Jobs0 DEF Skip
<1>6. /\ Skip(j, name) \in Where /\ Skip(j, name).name = j
      /\ Skip(j, name).step = IF name = Figure THEN "flag" ELSE "unset"
  BY <1>5, Jobs0, FilesAssumption DEF At, Where, Name
<1>7. /\ slave'[j] = Skip(j, name) /\ slave' \in [Job -> Where]
      /\ \A k \in Job : k # j => slave'[k] = slave[k]
  BY <1>1, <1>6, Moved
<1>8. Placed' /\ \A k \in Job : ExecOf(k)' = ExecOf(k)
  BY <1>1, <1>3, <1>6, Stays
<1>9. /\ disk' \in [Name -> [1..Pieces -> Int]] /\ torn \subseteq torn'
      /\ \A n \in Name : n # name => disk'[n] = disk[n]
      /\ name \in torn' \/ disk'[name] = disk[name]
      /\ \A k \in 1..Pieces : disk'[name][k] \in {disk[name][k], NoJob}
  <2>1. CASE UNCHANGED <<disk, torn>>
    BY <1>3, <2>1 DEF Tables
  <2>2. CASE /\ disk' = [disk EXCEPT ![name][Pieces] = NoJob]
             /\ torn' = torn \cup {name}
    <3>1. /\ Pieces \in 1..Pieces /\ NoJob \in Int /\ name \in Name
          /\ disk \in [Name -> [1..Pieces -> Int]]
      BY <1>3, FilesAssumption DEF Tables, NoJob
    <3>2. disk'[name] = [disk[name] EXCEPT ![Pieces] = NoJob]
      BY <2>2, <3>1
    <3>3. /\ disk' \in [Name -> [1..Pieces -> Int]]
          /\ \A n \in Name : n # name => disk'[n] = disk[n]
      BY <2>2, <3>1
    <3>4. \A k \in 1..Pieces : disk'[name][k] \in {disk[name][k], NoJob}
      BY <3>1, <3>2
    <3> QED
      BY <2>2, <3>3, <3>4
  <2> QED
    BY <1>2, <2>1, <2>2
<1>10. Tables'
  <2> HIDE DEF name
  <2> QED
    BY <1>1, <1>3, <1>6, <1>7, <1>9, Jobs0 DEF Tables
<1>11. WritesOwnFile'
  <2>1. ASSUME NEW k \in Job, k # j, slave[k].step \in {"write", "close"}
        PROVE  myfile[ExecOf(k)] # file
    <3>1. myfile[ExecOf(k)] = [name |-> slave[k].name, owner |-> k]
      BY <2>1 DEF WritesOwnFile
    <3>2. myfile[ExecOf(k)].owner = k /\ file.owner = j
      BY <3>1
    <3> QED
      BY <2>1, <3>2
  <2>2. slave'[j].step \notin {"write", "close"}
    BY <1>6, <1>7
  <2> HIDE DEF file, name
  <2> QED
    BY <1>1, <1>2, <1>7, <1>8, <2>1, <2>2 DEF WritesOwnFile
<1>12. WrittenBy(name, j)
  BY <1>1 DEF Stores, HasWritten
<1>13. Stores'
  <2>1. HasWritten(j)' /\ (Early(j)' => j \notin mutex')
    BY <1>1, <1>3, <1>6, <1>7, Jobs0 DEF HasWritten, Early, Sending, Has
  <2>2. HasStored(j)'
    BY <1>3, <1>4, <1>6, <1>7, <1>9, <1>12 DEF HasStored, WrittenBy
  <2> QED
    BY <1>1, <1>3, <1>4, <1>7, <1>9, <2>1, <2>2, OthersKeep DEF Stores
<1>14. Sent'
  <2>1. ~Sending(j)'
    BY <1>6, <1>7 DEF Sending, Has
  <2>2. ASSUME name = Figure
        PROVE  /\ \A k \in 1..Pieces : disk'[Figure][k] \in {j, NoJob, -1}
               /\ WrittenBy(Figure, j)' \/ Figure \in torn'
    BY <1>9, <1>12, <2>2 DEF WrittenBy
  <2> QED
    BY <1>1, <1>3, <1>7, <1>9, <2>1, <2>2, FigureKept
<1> QED
  BY <1>8, <1>10, <1>11, <1>13, <1>14

LEMMA UnsetFlagKeeps ==
  ASSUME FarmInvariant, NEW j \in Job, UnsetFlag(j)
  PROVE  FarmInvariant'
<1> USE DEF FarmInvariant
<1>1. /\ slave[j].step = "unset" /\ slave[j].name = j /\ Running(j)
      /\ mutex' = mutex \ {j} /\ Moves(j, At("post", Figure, 0))
      /\ UNCHANGED <<exec, launch, myfile, opened, disk, torn, pvt, posted>>
  BY DEF UnsetFlag, Tables, Running
<1>2. At("post", Figure, 0) \in Where
  BY FilesAssumption DEF At, Where, Name
<1>3. /\ slave'[j] = At("post", Figure, 0) /\ slave' \in [Job -> Where]
      /\ \A k \in Job : k # j => slave'[k] = slave[k]
  BY <1>1, <1>2, Moved
<1>4. slave'[j].step = "post" /\ slave'[j].name = Figure
  BY <1>3, Words
<1>5. Placed' /\ \A k \in Job : ExecOf(k)' = ExecOf(k)
  BY <1>1, <1>4, Stays, Words
<1>6. Tables'
  BY <1>1, <1>3, <1>4 DEF Tables
<1>7. WritesOwnFile'
  BY <1>1, <1>3, <1>4, <1>5 DEF WritesOwnFile
<1>8. Posted' = Posted /\ j \notin Posted
  BY <1>1 DEF Posted, Stores
<1>9. Stores'
  <2>1. HasStored(j) /\ WrittenBy(j, j)' = WrittenBy(j, j)
    BY <1>1 DEF Stores, WrittenBy
  <2>2. HasWritten(j)' /\ HasStored(j)' /\ ~Early(j)'
    BY <1>1, <1>4, <1>8, <2>1 DEF HasWritten, HasStored, Early, Sending, Has
  <2> QED
    BY <1>1, <1>3, <1>8, <2>2, OthersStored DEF Stores
<1>10. Sent'
  <2>1. \A k \in Job : k # j => /\ Past(k)' = Past(k) /\ Sending(k)' = Sending(k)
                               /\ Over(k)' = Over(k)
    BY <1>3, <1>8 DEF Past, Sending, Has, Over
  <2>2. Past(j) /\ ~Sending(j)' /\ ~Sending(j) /\ ~Over(j)
    BY <1>1, <1>4 DEF Past, Sending, Has, Over
  <2>3. Figure \in mutex' <=> Figure \in mutex
    BY <1>1, Jobs0
  <2> QED
    BY <1>1, <2>1, <2>2, <2>3, SentStays
<1> QED
  BY <1>5, <1>6, <1>7, <1>9, <1>10

-----------------------------------------------------------------------------
(***************************************************************************)
(* The result, the end of a run, a death, and a job that starts.           *)
(***************************************************************************)
LEMMA PostDataKeeps ==
  ASSUME FarmInvariant, NEW j \in Job, PostData(j)
  PROVE  FarmInvariant'
<1> USE DEF FarmInvariant
<1>1. /\ slave[j].step = "post" /\ Running(j)
      /\ posted' = Append(posted, j) /\ Moves(j, At("end", Figure, 0))
      /\ UNCHANGED <<exec, launch, mutex, myfile, opened, disk, torn, pvt>>
  BY DEF PostData, Running
<1>2. At("end", Figure, 0) \in Where
  BY FilesAssumption DEF At, Where, Name
<1>3. /\ slave'[j] = At("end", Figure, 0) /\ slave' \in [Job -> Where]
      /\ \A k \in Job : k # j => slave'[k] = slave[k]
  BY <1>1, <1>2, Moved
<1>4. slave'[j].step = "end" /\ slave'[j].name = Figure
  BY <1>3, Words
<1>5. Placed' /\ \A k \in Job : ExecOf(k)' = ExecOf(k)
  BY <1>1, <1>4, Stays, Words
<1>6. posted' \in Seq(Job) /\ Posted' = Posted \cup {j}
  <2>1. posted \in Seq(Job)
    BY DEF Tables
  <2>2. /\ posted' \in Seq(Job) /\ DOMAIN posted' = DOMAIN posted \cup {Len(posted) + 1}
        /\ posted'[Len(posted) + 1] = j /\ \A k \in DOMAIN posted : posted'[k] = posted[k]
    BY <1>1, <2>1
  <2> QED
    BY <2>2 DEF Posted, ToSet
<1>7. Tables'
  BY <1>1, <1>3, <1>4, <1>6 DEF Tables
<1>8. WritesOwnFile'
  BY <1>1, <1>3, <1>4, <1>5 DEF WritesOwnFile
<1>9. Stores'
  <2>1. ASSUME NEW k \in Job, k # j
        PROVE  /\ k \in Posted' => slave'[k].step \in {"end", "gone"}
               /\ Early(k)' => k \notin mutex'
               /\ HasWritten(k)' /\ HasStored(k)'
    <3>1. /\ k \in Posted => slave[k].step \in {"end", "gone"}
          /\ Early(k) => k \notin mutex
          /\ HasWritten(k) /\ HasStored(k)
      BY DEF Stores
    <3>2. slave'[k] = slave[k] /\ (k \in Posted' <=> k \in Posted)
      BY <1>3, <1>6, <2>1
    <3> QED
      BY <1>1, <3>1, <3>2 DEF Early, Sending, Has, HasWritten, HasStored, WrittenBy
  <2>2. HasStored(j) /\ WrittenBy(j, j)' = WrittenBy(j, j)
    BY <1>1 DEF Stores, WrittenBy
  <2>3. HasWritten(j)' /\ HasStored(j)' /\ ~Early(j)'
    BY <1>1, <1>4, <2>2 DEF HasWritten, HasStored, Early, Sending, Has
  <2> QED
    BY <1>4, <2>1, <2>3 DEF Stores
<1>10. Sent'
  <2>1. \A k \in Job : k # j => /\ Past(k)' = Past(k) /\ Sending(k)' = Sending(k)
                               /\ Over(k)' = Over(k)
    BY <1>3, <1>6 DEF Past, Sending, Has, Over
  <2>2. Past(j) /\ ~Sending(j)' /\ ~Sending(j) /\ ~Over(j)
    BY <1>1, <1>4 DEF Past, Sending, Has, Over
  <2> QED
    BY <1>1, <2>1, <2>2, SentStays
<1> QED
  BY <1>5, <1>7, <1>8, <1>9, <1>10

(***************************************************************************)
(* A job that ends has posted its result; one that dies before has not.    *)
(***************************************************************************)
LEMMA LeaveKeeps ==
  ASSUME FarmInvariant, NEW j \in Job, Running(j), Leave(j)
  PROVE  FarmInvariant'
<1> USE DEF FarmInvariant
<1>1. /\ exec' = [exec EXCEPT ![ExecOf(j)] = NoJob] /\ Moves(j, Gone)
      /\ UNCHANGED <<launch, mutex, myfile, opened, disk, torn, pvt, posted>>
  BY DEF Leave
<1>2. Gone \in Where /\ Gone.step = "gone" /\ Gone.name = Figure
  BY FilesAssumption DEF Gone, At, Where, Name
<1>3. /\ slave'[j] = Gone /\ slave' \in [Job -> Where]
      /\ \A k \in Job : k # j => slave'[k] = slave[k]
  BY <1>1, <1>2, Moved
<1>4. /\ Placed'
      /\ \A k \in Job : Running(k)' <=> Running(k) /\ k # j
      /\ \A k \in Job : Running(k)' => ExecOf(k)' = ExecOf(k)
  BY <1>1, Goes
<1>5. Posted' = Posted
  BY <1>1 DEF Posted
<1>6. Tables'
  BY <1>1, <1>2, <1>3 DEF Tables
<1>7. WritesOwnFile'
  <2> SUFFICES ASSUME NEW k \in Job, slave'[k].step \in {"write", "close"}
               PROVE  /\ myfile'[ExecOf(k)'] = [name |-> slave'[k].name, owner |-> k]
                      /\ myfile'[ExecOf(k)'] \in opened'
    BY DEF WritesOwnFile
  <2>1. Running(k)'
    BY DEF Running
  <2> QED
    BY <1>1, <1>3, <1>4, <2>1 DEF WritesOwnFile
<1>8. Stores'
  <2>1. HasStored(j) /\ WrittenBy(j, j)' = WrittenBy(j, j)
    BY <1>1 DEF Stores, WrittenBy
  <2>2. HasWritten(j)' /\ HasStored(j)' /\ ~Early(j)'
    BY <1>1, <1>2, <1>3, <1>5, <2>1 DEF HasWritten, HasStored, Early, Sending, Has
  <2> QED
    BY <1>1, <1>2, <1>3, <2>2, OthersStored DEF Stores
<1>9. Sent'
  <2>1. \A k \in Job : k # j => /\ Past(k)' = Past(k) /\ Sending(k)' = Sending(k)
                               /\ Over(k)' = Over(k)
    BY <1>3, <1>5 DEF Past, Sending, Has, Over
  <2>2. /\ Past(j)' => Past(j)
        /\ ~Sending(j)' /\ ~Over(j)
    BY <1>2, <1>3, <1>5 DEF Past, Sending, Has, Over, Running
  <2>3. Sending(j) => Over(j)'
    <3>1. Sending(j) => j \notin Posted
      BY DEF Sending, Has, Stores
    <3> QED
      BY <1>2, <1>3, <1>5, <3>1 DEF Over
  <2> QED
    BY <1>1, <2>1, <2>2, <2>3, SentStays
<1> QED
  BY <1>4, <1>6, <1>7, <1>8, <1>9

LEMMA LaunchKeeps ==
  ASSUME FarmInvariant, Launch
  PROVE  FarmInvariant'
<1> USE DEF FarmInvariant
<1>1. PICK j \in Job : j = launch + 1 /\ launch < Jobs /\ launch \in 0..Jobs
  BY FilesAssumption DEF Launch, Placed, Job
<1> DEFINE free == {e \in Exec : exec[e] = NoJob}
           first == CHOOSE e \in free : \A f \in free : e <= f
<1>2. /\ launch < Jobs /\ free # {} /\ launch' = j
      /\ exec' = [exec EXCEPT ![first] = j]
      /\ UNCHANGED <<mutex, myfile, opened, disk, torn, posted>>
  BY <1>1 DEF Launch
<1>3. PICK to : /\ Moves(j, to)
                /\ \/ to = At("flag", Figure, 0) /\ pvt' = pvt
                   \/ to = At("post", Figure, 0) /\ pvt' = pvt \cup {j}
  BY <1>1 DEF Launch
<1>4. first \in Exec /\ exec[first] = NoJob
  <2>1. free \subseteq Nat
    BY FilesAssumption
  <2>2. \E e \in free : \A f \in free : e <= f
    BY <1>2, <2>1, Least
  <2> QED
    BY <2>2
<1> HIDE DEF first
<1>5. /\ to \in Where /\ to.name = Figure
      /\ \/ to.step = "flag" /\ pvt' = pvt
         \/ to.step = "post" /\ pvt' = pvt \cup {j}
  BY <1>3, FilesAssumption DEF At, Where, Name
<1>6. /\ slave'[j] = to /\ slave' \in [Job -> Where]
      /\ \A k \in Job : k # j => slave'[k] = slave[k]
  BY <1>3, <1>5, Moved
<1>7. slave[j].step = "none" /\ ~Running(j) /\ \A e \in Exec : exec[e] # j
  <2>1. j > launch
    BY <1>1
  <2> QED
    BY <2>1 DEF Placed, Running
<1>8. \A e \in Exec : exec'[e] = IF e = first THEN j ELSE exec[e]
  BY <1>2 DEF Placed
<1>9. Placed'
  <2>1. launch' \in 0..Jobs
    BY <1>1, <1>2, FilesAssumption
  <2>2. exec' \in [Exec -> Job \cup {NoJob}]
    BY <1>2 DEF Placed
  <2>3. \A e, f \in Exec : exec'[e] = exec'[f] /\ exec'[e] # NoJob => e = f
    BY <1>7, <1>8 DEF Placed
  <2>4. ASSUME NEW k \in Job PROVE Running(k)' <=> \E e \in Exec : exec'[e] = k
    <3>1. CASE k = j
      BY <1>4, <1>5, <1>6, <1>8, <3>1 DEF Running
    <3>2. CASE k # j
      <4>1. Running(k)' = Running(k)
        BY <1>6, <3>2 DEF Running
      <4>2. (\E e \in Exec : exec'[e] = k) <=> \E e \in Exec : exec[e] = k
        BY <1>4, <1>8, <3>2, Jobs0
      <4> QED
        BY <4>1, <4>2 DEF Placed
    <3> QED
      BY <3>1, <3>2
  <2>5. ASSUME NEW k \in Job PROVE slave'[k].step = "none" <=> k > launch'
    <3>1. slave[k].step = "none" <=> k > launch
      BY DEF Placed
    <3>2. k \in Int
      BY Jobs0
    <3> QED
      BY <1>1, <1>2, <1>5, <1>6, <3>1, <3>2
  <2> QED
    BY <2>1, <2>2, <2>3, <2>4, <2>5 DEF Placed
<1>10. ASSUME NEW k \in Job, k # j, Running(k) PROVE ExecOf(k)' = ExecOf(k)
  <2>1. /\ ExecOf(k) \in Exec /\ exec[ExecOf(k)] = k
        /\ \A e \in Exec : exec[e] = k => e = ExecOf(k)
    BY <1>10, Seat
  <2>2. exec'[ExecOf(k)] = k /\ \A e \in Exec : exec'[e] = k => e = ExecOf(k)
    BY <1>4, <1>8, <1>10, <2>1, Jobs0
  <2> QED
    BY <2>1, <2>2 DEF ExecOf
<1>11. Tables'
  BY <1>2, <1>5, <1>6 DEF Tables
<1>12. WritesOwnFile'
  <2> SUFFICES ASSUME NEW k \in Job, slave'[k].step \in {"write", "close"}
               PROVE  /\ myfile'[ExecOf(k)'] = [name |-> slave'[k].name, owner |-> k]
                      /\ myfile'[ExecOf(k)'] \in opened'
    BY DEF WritesOwnFile
  <2>1. k # j
    BY <1>5, <1>6
  <2>2. Running(k)
    BY <1>6, <2>1 DEF Running
  <2> QED
    BY <1>2, <1>6, <1>10, <2>1, <2>2 DEF WritesOwnFile
<1>13. Posted' = Posted /\ j \notin Posted /\ j \notin mutex
  BY <1>2, <1>7 DEF Posted, Stores, Early
<1>14. Stores'
  <2>1. HasWritten(j)' /\ HasStored(j)' /\ j \notin mutex'
    BY <1>2, <1>5, <1>6, <1>13 DEF HasWritten, HasStored
  <2>2. pvt \subseteq pvt'
    BY <1>5
  <2> QED
    BY <1>2, <1>6, <1>13, <2>1, <2>2, OthersStored DEF Stores
<1>15. Sent'
  <2>1. \A k \in Job : k # j => /\ Past(k)' = Past(k) /\ Sending(k)' = Sending(k)
                               /\ Over(k)' = Over(k)
    BY <1>6, <1>13 DEF Past, Sending, Has, Over
  <2>2. ~Sending(j)' /\ ~Sending(j) /\ ~Over(j)
    BY <1>5, <1>6, <1>7 DEF Sending, Has, Over
  <2>3. j \notin pvt' => ~Past(j)'
    BY <1>5, <1>6, <1>13, Jobs0 DEF Past, Sending, Has
  <2>4. pvt \subseteq pvt'
    BY <1>5
  <2> QED
    BY <1>2, <2>1, <2>2, <2>3, <2>4, SentStays
<1> QED
  BY <1>9, <1>11, <1>12, <1>14, <1>15

LEMMA FarmKeeps ==
  ASSUME FarmInvariant, FarmNext
  PROVE  FarmInvariant'
<1>1. CASE Launch
  BY <1>1, LaunchKeeps
<1>2. ASSUME NEW j \in Job, Serve(j) PROVE FarmInvariant'
  BY <1>2, GetSetFlagKeeps, CreateFileKeeps, WriteFileKeeps, CloseFileKeeps, UnsetFlagKeeps DEF Serve
<1>3. ASSUME NEW j \in Job, PostData(j) PROVE FarmInvariant'
  BY <1>3, PostDataKeeps
<1>4. ASSUME NEW j \in Job, End(j) \/ Crash(j) PROVE FarmInvariant'
  <2>1. Running(j) /\ Leave(j)
    BY <1>4 DEF End, Crash, Running
  <2> QED
    BY <2>1, LeaveKeeps
<1> QED
  BY <1>1, <1>2, <1>3, <1>4 DEF FarmNext

(***************************************************************************)
(* The flag of the figure makes one slave send it.                         *)
(***************************************************************************)
LEMMA FlagSendsOnce ==
  ASSUME FarmInvariant
  PROVE  FigureSentOnce
<1> USE DEF FarmInvariant
<1> DEFINE writers == {disk[Figure][k] : k \in 1..Pieces} \ {NoJob, -1}
<1>1. Cardinality(writers) <= 1
  <2>1. PICK s : writers \subseteq {s}
    BY DEF Sent, SentBy
  <2>2. writers = {} \/ writers = {s}
    BY <2>1
  <2>3. Cardinality({}) = 0 /\ Cardinality({s}) = 1
    BY FS_EmptySet, FS_Singleton
  <2> HIDE DEF writers
  <2> QED
    BY <2>2, <2>3
<1>2. ASSUME ToSet(posted) \ pvt # {}, Figure \notin torn
      PROVE  \E j \in Job : \/ WrittenBy(Figure, j)
                            \/ /\ slave[j].step \in {"create", "write", "close"}
                               /\ slave[j].name = Figure
                            \/ slave[j].step = "gone" /\ j \notin ToSet(posted)
  <2>1. PICK j \in ToSet(posted) : j \notin pvt
    BY <1>2
  <2>2. j \in Job /\ j \in Posted
    <3>1. posted \in Seq(Job)
      BY DEF Tables
    <3> QED
      BY <2>1, <3>1 DEF ToSet, Posted
  <2>3. PICK s \in Job : SentBy(s)
    BY <2>1, <2>2 DEF Sent, Past
  <2> QED
    BY <1>2, <2>3 DEF SentBy, Sending, Has, Over, Posted
<1> QED
  BY <1>1, <1>2 DEF FigureSentOnce

-----------------------------------------------------------------------------
(***************************************************************************)
(* The runs of a report: one for each result; the file of a run that is    *)
(* not in error is that of its slave, and it is whole when it is in        *)
(* memory.                                                                 *)
(***************************************************************************)
RunRecord == [file : Job \cup {NoJob}, error : BOOLEAN, cachenum : Int,
              sev : {"null", "read", "undefined"}, sevsig : {"read", "undefined"}]

Runs == /\ posted # <<>> /\ Run = 0..Len(posted) - 1
        /\ ore \in [Run -> RunRecord]
        /\ \A r \in Run : /\ ~ore[r].error => ore[r].file = posted[r + 1]
                          /\ ore[r].sev = "read" => WrittenBy(ore[r].file, ore[r].file)

StoreInvariant ==
    /\ at = "farm" => Sent /\ used = Nothing
    /\ at # "farm" => Finished /\ Runs /\ cur_run \in Run /\ num \in Run /\ cachenum \in Int
    /\ used.by = "search" => used.run \in Run /\ ValuesOfRun

Invariant == /\ Placed /\ Tables /\ WritesOwnFile /\ Stores /\ FigureSentOnce
             /\ StoreInvariant

LEMMA Results ==
  ASSUME Tables, posted # <<>>
  PROVE  Len(posted) \in Nat \ {0} /\ \A r \in 0..Len(posted) - 1 : posted[r + 1] \in Job
<1>1. posted \in Seq(Job)
  BY DEF Tables
<1>2. Len(posted) \in Nat \ {0}
  BY <1>1
<1>3. \A r \in 0..Len(posted) - 1 : r + 1 \in 1..Len(posted)
  BY <1>2
<1> QED
  BY <1>1, <1>2, <1>3

LEMMA LoadResultsRuns ==
  ASSUME Tables, LoadResults, UNCHANGED <<posted, disk>>
  PROVE  Runs' /\ cur_run' \in Run' /\ num' \in Run' /\ cachenum' \in Int /\ used' = Nothing
<1>1. /\ posted # <<>> /\ ore' = [i \in 0..Len(posted) - 1 |-> Loaded(i)]
      /\ cur_run' = 0 /\ num' = 0 /\ cachenum' = 1 /\ used' = Nothing
  BY DEF LoadResults
<1>2. Len(posted) \in Nat \ {0} /\ \A r \in 0..Len(posted) - 1 : posted[r + 1] \in Job
  BY <1>1, Results
<1>3. Run' = 0..Len(posted) - 1 /\ 0 \in Run'
  BY <1>1, <1>2 DEF Run
<1>4. ASSUME NEW r \in Run'
      PROVE  /\ ore'[r] = Loaded(r) /\ Loaded(r) \in RunRecord /\ Loaded(r).sev # "read"
             /\ ~Loaded(r).error => Loaded(r).file = posted[r + 1]
  <2>1. ore'[r] = Loaded(r) /\ posted[r + 1] \in Job
    BY <1>1, <1>2, <1>3
  <2>2. CASE Stored(posted[r + 1])
    <3>1. Loaded(r) = [file |-> posted[r + 1], error |-> FALSE, cachenum |-> 0, sev |-> "null",
                       sevsig |-> "undefined"]
      BY <2>2 DEF Loaded
    <3> QED
      BY <2>1, <3>1 DEF RunRecord
  <2>3. CASE ~Stored(posted[r + 1])
    <3>1. Loaded(r) = [file |-> NoJob, error |-> TRUE, cachenum |-> 0, sev |-> "undefined",
                       sevsig |-> "undefined"]
      BY <2>3 DEF Loaded
    <3> QED
      BY <2>1, <3>1 DEF RunRecord
  <2> QED
    BY <2>2, <2>3
<1>5. ore' \in [Run' -> RunRecord]
  BY <1>1, <1>3, <1>4
<1> QED
  BY <1>1, <1>3, <1>4, <1>5 DEF Runs

(***************************************************************************)
(* ttv_ssta_set_checkloadedstore: whatever it evicts, the run asked for is *)
(* in memory, or in error.                                                 *)
(***************************************************************************)
LEMMA CheckLoadedRuns ==
  ASSUME Tables, Runs, cachenum \in Int, NEW r \in Run, CheckLoaded(r), UNCHANGED <<posted, disk>>
  PROVE  /\ Runs' /\ Run' = Run /\ cachenum' \in Int
         /\ \A q \in Run : ore[q].error => ore'[q].error
         /\ ore'[r].error \/ ore'[r].sev = "read"
<1> DEFINE needed == ~ore[r].error /\ ore[r].sev # "read"
           full == totalloaded + 1 > Limit
           evicted == IF needed /\ full /\ Victim # -1
                      THEN [ore EXCEPT ![Victim].sev = "null"] ELSE ore
           numbered == IF needed /\ full
                       THEN [evicted EXCEPT ![r].cachenum = cachenum + 1] ELSE evicted
<1>1. /\ ore' = [numbered EXCEPT ![r] = Read(@)]
      /\ cachenum' \in Int
  BY DEF CheckLoaded
<1>2. /\ evicted \in [Run -> RunRecord]
      /\ \A q \in Run : /\ evicted[q].file = ore[q].file /\ evicted[q].error = ore[q].error
                        /\ evicted[q].sev = "read" => ore[q].sev = "read"
  BY DEF Runs, RunRecord
<1> HIDE DEF evicted
<1>3. /\ numbered \in [Run -> RunRecord]
      /\ \A q \in Run : /\ numbered[q].file = ore[q].file /\ numbered[q].error = ore[q].error
                        /\ numbered[q].sev = "read" => ore[q].sev = "read"
  BY <1>2 DEF RunRecord
<1> HIDE DEF numbered
<1>4. /\ Read(numbered[r]) \in RunRecord
      /\ Read(numbered[r]).file = numbered[r].file
      /\ numbered[r].error => Read(numbered[r]).error
      /\ Read(numbered[r]).error \/ Read(numbered[r]).sev = "read"
      /\ Read(numbered[r]).sev = "read" /\ numbered[r].sev # "read" =>
             WrittenBy(numbered[r].file, numbered[r].file)
  BY <1>3 DEF Read, RunRecord
<1>5. ore' \in [Run -> RunRecord] /\ ore'[r] = Read(numbered[r])
      /\ \A q \in Run : q # r => ore'[q] = numbered[q]
  BY <1>1, <1>3, <1>4
<1>6. Run' = Run
  BY <1>5 DEF Run
<1>7. \A q \in Run : ore[q].error => ore'[q].error
  BY <1>3, <1>4, <1>5
<1>8. \A q \in Run : ore'[q].file = ore[q].file
  BY <1>3, <1>4, <1>5
<1>9. ASSUME NEW q \in Run, ore'[q].sev = "read" PROVE WrittenBy(ore[q].file, ore[q].file)
  BY <1>3, <1>4, <1>5, <1>9 DEF Runs
<1>10. Runs'
  BY <1>5, <1>6, <1>7, <1>8, <1>9 DEF Runs, WrittenBy
<1> QED
  BY <1>1, <1>4, <1>5, <1>6, <1>7, <1>10

LEMMA RunsCount ==
  ASSUME Tables, Runs
  PROVE  Cardinality(Run) \in Nat \ {0} /\ Run = 0..Cardinality(Run) - 1
<1>1. Len(posted) \in Nat \ {0} /\ Run = 0..Len(posted) - 1
  BY Results DEF Runs
<1>2. 0 \in Int /\ Len(posted) - 1 \in Int
  BY <1>1
<1>3. Cardinality(0..Len(posted) - 1) = Len(posted)
  BY <1>1, <1>2, FS_Interval
<1> QED
  BY <1>1, <1>3

(***************************************************************************)
(* A step of the report leaves the files as the farm left them.            *)
(***************************************************************************)
LEMMA FilesStay ==
  ASSUME Invariant, UNCHANGED filesVars
  PROVE  /\ Placed' /\ Tables' /\ WritesOwnFile' /\ Stores' /\ FigureSentOnce'
         /\ (Sent => Sent') /\ (Finished => Finished')
<1>1. UNCHANGED <<exec, launch, mutex, myfile, opened, slave, torn, pvt, disk, posted>>
  BY DEF filesVars, farmVars
<1>2. /\ \A j : Running(j)' = Running(j) /\ ExecOf(j)' = ExecOf(j) /\ Past(j)' = Past(j)
               /\ Sending(j)' = Sending(j) /\ Over(j)' = Over(j) /\ Early(j)' = Early(j)
      /\ Posted' = Posted
  BY <1>1 DEF Running, ExecOf, Past, Sending, Has, Over, Early, Posted
<1>3. \A n, j : WrittenBy(n, j)' = WrittenBy(n, j)
  BY <1>1 DEF WrittenBy
<1>4. Placed'
  BY <1>1, <1>2 DEF Invariant, Placed
<1>5. Tables'
  BY <1>1 DEF Invariant, Tables
<1>6. WritesOwnFile'
  BY <1>1, <1>2 DEF Invariant, WritesOwnFile
<1>7. Stores'
  BY <1>1, <1>2, <1>3 DEF Invariant, Stores, HasWritten, HasStored
<1>8. FigureSentOnce'
  BY <1>1, <1>3 DEF Invariant, FigureSentOnce
<1>9. Sent => Sent'
  BY <1>1, <1>2, <1>3 DEF Sent, SentBy
<1>10. Finished => Finished'
  BY <1>1, <1>2 DEF Finished
<1> QED
  BY <1>4, <1>5, <1>6, <1>7, <1>8, <1>9, <1>10

LEMMA FarmStepKeeps ==
  ASSUME Invariant, Farm
  PROVE  Invariant'
<1>1. /\ at = "farm" /\ FarmNext /\ at' = "farm" /\ used' = used /\ FarmInvariant
      /\ used = Nothing
  BY DEF Farm, Invariant, StoreInvariant, FarmInvariant
<1>2. FarmInvariant'
  BY <1>1, FarmKeeps
<1>3. FigureSentOnce'
  BY <1>2, FlagSendsOnce, PTL
<1> QED
  BY <1>1, <1>2, <1>3 DEF FarmInvariant, Invariant, StoreInvariant, Nothing

LEMMA ReportKeeps ==
  ASSUME Invariant, Report
  PROVE  Invariant'
<1>1. /\ at = "farm" /\ Finished /\ LoadResults /\ at' = "mean"
      /\ mutex' = {} /\ opened' = {} /\ myfile' = [e \in Exec |-> NoFile]
      /\ UNCHANGED <<exec, launch, slave, torn, pvt, disk, posted>>
  BY DEF Report
<1>2. /\ \A j : Running(j)' = Running(j) /\ Posted' = Posted
      /\ \A n, j : WrittenBy(n, j)' = WrittenBy(n, j)
  BY <1>1 DEF Running, Posted, WrittenBy
<1>3. Placed'
  BY <1>1, <1>2 DEF Invariant, Placed
<1>4. Tables'
  BY <1>1 DEF Invariant, Tables
<1>5. WritesOwnFile'
  BY <1>1 DEF WritesOwnFile, Finished, Running
<1>6. Stores'
  BY <1>1, <1>2 DEF Invariant, Stores, HasWritten, HasStored
<1>7. FigureSentOnce'
  BY <1>1, <1>2 DEF Invariant, FigureSentOnce
<1>8. Runs' /\ cur_run' \in Run' /\ num' \in Run' /\ cachenum' \in Int /\ used' = Nothing
  BY <1>1, LoadResultsRuns DEF Invariant
<1>9. Finished'
  BY <1>1, <1>2 DEF Finished
<1> QED
  BY <1>1, <1>3, <1>4, <1>5, <1>6, <1>7, <1>8, <1>9 DEF Invariant, StoreInvariant, Nothing

LEMMA ReloadKeeps ==
  ASSUME Invariant, Reload
  PROVE  Invariant'
<1>1. at = "ready" /\ UNCHANGED filesVars /\ UNCHANGED <<posted, disk>>
  BY DEF Reload, filesVars
<1>2. /\ Placed' /\ Tables' /\ WritesOwnFile' /\ Stores' /\ FigureSentOnce' /\ Finished'
  BY <1>1, FilesStay DEF Invariant, StoreInvariant
<1>3. CASE LoadResults /\ at' = "mean"
  <2>1. Runs' /\ cur_run' \in Run' /\ num' \in Run' /\ cachenum' \in Int /\ used' = Nothing
    BY <1>1, <1>3, LoadResultsRuns DEF Invariant
  <2> QED
    BY <1>2, <1>3, <2>1 DEF Invariant, StoreInvariant, Nothing
<1>4. CASE at' = "crashed" /\ UNCHANGED <<storeVars, statVars, used, loads>>
  <2>1. UNCHANGED <<ore, cur_run, num, cachenum, used, posted, disk>>
    BY <1>1, <1>4 DEF storeVars, statVars
  <2>2. Run' = Run /\ Runs' = Runs /\ ValuesOfRun' = ValuesOfRun
    BY <2>1 DEF Run, Runs, ValuesOfRun, WrittenBy
  <2> QED
    BY <1>1, <1>2, <1>4, <2>1, <2>2 DEF Invariant, StoreInvariant
<1> QED
  BY <1>3, <1>4 DEF Reload

(***************************************************************************)
(* The loops of ttv_ssta_buildlinestat, and the runs selected.             *)
(***************************************************************************)
LEMMA StatisticsKeep ==
  ASSUME Invariant, at # "farm", at' # "farm", UNCHANGED <<used, filesVars>>,
         num' \in Run, cur_run' \in Run,
         CheckLoaded(cur_run') \/ UNCHANGED <<ore, cachenum>>
  PROVE  Invariant'
<1>1. UNCHANGED <<posted, disk>> /\ Tables /\ Runs /\ cachenum \in Int
  BY DEF filesVars, Invariant, StoreInvariant
<1>2. Placed' /\ Tables' /\ WritesOwnFile' /\ Stores' /\ FigureSentOnce' /\ Finished'
  BY FilesStay DEF Invariant, StoreInvariant
<1>3. /\ Runs' /\ Run' = Run /\ cachenum' \in Int
      /\ \A q \in Run : ore[q].error => ore'[q].error
  <2>1. CASE CheckLoaded(cur_run')
    BY <1>1, <2>1, CheckLoadedRuns
  <2>2. CASE UNCHANGED <<ore, cachenum>>
    BY <1>1, <2>2 DEF Runs, Run, WrittenBy
  <2> QED
    BY <2>1, <2>2
<1>4. used.by = "search" => used.run \in Run /\ ValuesOfRun'
  BY <1>1, <1>3 DEF Invariant, StoreInvariant, ValuesOfRun, WrittenBy
<1> QED
  BY <1>2, <1>3, <1>4 DEF Invariant, StoreInvariant

LEMMA SelectedRun ==
  ASSUME StoreInvariant, at # "farm", NEW n \in Run
  PROVE  Selected(n) \in Run
BY DEF StoreInvariant, Selected

LEMMA MeanKeeps ==
  ASSUME Invariant, Mean
  PROVE  Invariant'
<1>1. /\ at = "mean" /\ at' # "farm" /\ UNCHANGED <<used, filesVars>>
      /\ cur_run' = Selected(num) /\ CheckLoaded(cur_run')
      /\ num' = (num + 1) % Cardinality(Run)
  BY DEF Mean
<1>2. num \in Run /\ Cardinality(Run) \in Nat \ {0} /\ Run = 0..Cardinality(Run) - 1
  BY <1>1, RunsCount DEF Invariant, StoreInvariant
<1>3. num' \in Run
  BY <1>1, <1>2
<1>4. cur_run' \in Run
  BY <1>1, <1>2, SelectedRun DEF Invariant
<1> QED
  BY <1>1, <1>3, <1>4, StatisticsKeep

LEMMA VarianceKeeps ==
  ASSUME Invariant, Variance
  PROVE  Invariant'
<1>1. /\ at = "var" /\ at' # "farm" /\ UNCHANGED <<used, filesVars>>
      /\ num' = (IF num = 0 THEN Cardinality(Run) - 1 ELSE num - 1)
      /\ cur_run' = Selected(num') /\ CheckLoaded(cur_run')
  BY DEF Variance, Before
<1>2. num \in Run /\ Cardinality(Run) \in Nat \ {0} /\ Run = 0..Cardinality(Run) - 1
  BY <1>1, RunsCount DEF Invariant, StoreInvariant
<1>3. num' \in Run
  BY <1>1, <1>2
<1>4. cur_run' \in Run
  BY <1>1, <1>3, SelectedRun DEF Invariant
<1> QED
  BY <1>1, <1>3, <1>4, StatisticsKeep

LEMMA SetRunNumberKeeps ==
  ASSUME Invariant, SetRunNumber
  PROVE  Invariant'
<1>1. /\ at = "ready" /\ at' = at /\ UNCHANGED <<used, filesVars>> /\ UNCHANGED <<ore, cachenum>>
      /\ UNCHANGED num /\ \E n \in Run : cur_run' = Selected(n)
  BY DEF SetRunNumber, statVars
<1>2. cur_run' \in Run /\ num' \in Run
  BY <1>1, SelectedRun DEF Invariant, StoreInvariant
<1> QED
  BY <1>1, <1>2, StatisticsKeep

(***************************************************************************)
(* A search of paths sees the run it has just loaded.                      *)
(***************************************************************************)
LEMMA FindPathKeeps ==
  ASSUME Invariant, FindPath
  PROVE  Invariant'
<1>1. /\ at = "ready" /\ CheckLoaded(cur_run) /\ UNCHANGED <<at, cur_run, num>>
      /\ used' = [by |-> "search", run |-> cur_run, value |-> Values(ore', cur_run)]
      /\ UNCHANGED filesVars /\ UNCHANGED <<posted, disk>>
  BY DEF FindPath, Sees, statVars, filesVars
<1>2. Placed' /\ Tables' /\ WritesOwnFile' /\ Stores' /\ FigureSentOnce' /\ Finished'
  BY <1>1, FilesStay DEF Invariant, StoreInvariant
<1>3. Tables /\ Runs /\ cachenum \in Int /\ cur_run \in Run /\ num \in Run
  BY <1>1 DEF Invariant, StoreInvariant
<1>4. /\ Runs' /\ Run' = Run /\ cachenum' \in Int
      /\ ore'[cur_run].error \/ ore'[cur_run].sev = "read"
  BY <1>1, <1>3, CheckLoadedRuns
<1>5. ore' \in [Run -> RunRecord]
  BY <1>4 DEF Runs
<1>6. CASE ore'[cur_run].error
  <2>1. Values(ore', cur_run) = Nominal
    BY <1>6 DEF Values, InMemory
  <2> QED
    BY <1>1, <1>2, <1>3, <1>4, <1>6, <2>1 DEF Invariant, StoreInvariant, ValuesOfRun
<1>7. CASE ~ore'[cur_run].error
  <2>1. ore'[cur_run].sev = "read" /\ cur_run \in DOMAIN ore'
    BY <1>3, <1>4, <1>5, <1>7
  <2>2. Values(ore', cur_run) = ore'[cur_run].file
    BY <1>7, <2>1 DEF Values, InMemory
  <2>3. ore'[cur_run].file = posted'[cur_run + 1]
    BY <1>3, <1>4, <1>7 DEF Runs
  <2>4. \A k \in 1..Pieces : disk'[ore'[cur_run].file][k] = ore'[cur_run].file
    BY <1>3, <1>4, <2>1 DEF Runs, WrittenBy
  <2>5. used'.value = posted'[used'.run + 1] /\ \A k \in 1..Pieces : disk'[used'.value][k] = used'.value
    BY <1>1, <2>2, <2>3, <2>4
  <2>6. ValuesOfRun'
    BY <2>5 DEF ValuesOfRun, WrittenBy
  <2> QED
    BY <1>1, <1>2, <1>3, <1>4, <2>6 DEF Invariant, StoreInvariant
<1> QED
  BY <1>6, <1>7

LEMMA StabilityKeeps ==
  ASSUME Invariant, Stability
  PROVE  Invariant'
<1>1. /\ at = "ready" /\ UNCHANGED <<at, ore, cur_run, cachenum, num>> /\ used'.by = "stability"
      /\ UNCHANGED filesVars /\ UNCHANGED <<posted, disk>>
  BY DEF Stability, Sees, statVars, filesVars
<1>2. Placed' /\ Tables' /\ WritesOwnFile' /\ Stores' /\ FigureSentOnce' /\ Finished'
  BY <1>1, FilesStay DEF Invariant, StoreInvariant
<1>3. Run' = Run /\ Runs' = Runs
  BY <1>1 DEF Run, Runs, WrittenBy
<1> QED
  BY <1>1, <1>2, <1>3 DEF Invariant, StoreInvariant

-----------------------------------------------------------------------------
LEMMA Initially ==
  ASSUME Init
  PROVE  Invariant
<1>1. /\ exec = [e \in Exec |-> NoJob] /\ launch = 0 /\ mutex = {} /\ torn = {} /\ pvt = {}
      /\ myfile = [e \in Exec |-> NoFile] /\ posted = <<>> /\ at = "farm" /\ used = Nothing
  BY DEF Init, FarmInit
<1>2. \A j \in Job : slave[j] = [step |-> "none", name |-> Figure, piece |-> 0]
  BY DEF Init, FarmInit, Nowhere, At
<1>3. \A n \in Name, k \in 1..Pieces : disk[n][k] = -1
  BY DEF Init, FarmInit, Missing
<1>4. Jobs \in Nat /\ Pieces \in Nat \ {0} /\ \A j \in Job : j > 0 /\ j # NoJob /\ j \in Nat
  BY FilesAssumption DEF Job, NoJob
<1>5. Posted = {}
  BY <1>1 DEF Posted, ToSet
<1>6. \A j \in Job : ~Running(j) /\ ~Sending(j) /\ ~Past(j)
  BY <1>2, <1>5 DEF Running, Sending, Past, Has
<1>7. Placed
  BY <1>1, <1>2, <1>4, <1>6 DEF Placed
<1>8. Tables
  <2>1. slave \in [Job -> Where]
    BY <1>4 DEF Init, FarmInit, Nowhere, At, Where, Name
  <2>2. disk \in [Name -> [1..Pieces -> Int]]
    BY DEF Init, FarmInit, Missing
  <2> QED
    BY <1>1, <1>2, <2>1, <2>2 DEF Tables
<1>9. WritesOwnFile
  BY <1>2 DEF WritesOwnFile
<1>10. Stores
  BY <1>1, <1>2, <1>5, <1>6 DEF Stores, HasWritten, HasStored
<1>11. Sent
  BY <1>1, <1>3, <1>6 DEF Sent, Name
<1>12. FigureSentOnce
  BY <1>7, <1>8, <1>9, <1>10, <1>11, FlagSendsOnce DEF FarmInvariant
<1> QED
  BY <1>1, <1>7, <1>8, <1>9, <1>10, <1>11, <1>12 DEF Invariant, StoreInvariant, Nothing

LEMMA NothingMoves ==
  ASSUME Invariant, UNCHANGED vars
  PROVE  Invariant'
<1>1. UNCHANGED filesVars /\ UNCHANGED <<at, ore, cur_run, num, cachenum, used, posted, disk>>
  BY DEF vars, filesVars, storeVars, statVars
<1>2. /\ Placed' /\ Tables' /\ WritesOwnFile' /\ Stores' /\ FigureSentOnce'
      /\ (Sent => Sent') /\ (Finished => Finished')
  BY <1>1, FilesStay
<1>3. Run' = Run /\ Runs' = Runs /\ ValuesOfRun' = ValuesOfRun
  BY <1>1 DEF Run, Runs, ValuesOfRun, WrittenBy
<1> QED
  BY <1>1, <1>2, <1>3 DEF Invariant, StoreInvariant

-----------------------------------------------------------------------------
(***************************************************************************)
(* The theorems, for any number of runs, execs and pieces of a file, and   *)
(* any room for runs.                                                      *)
(***************************************************************************)
THEOREM FilesAndRuns == Spec => []Invariant
<1>1. Init => Invariant
  BY Initially
<1>2. Invariant /\ [Next]_vars => Invariant'
  <2> SUFFICES ASSUME Invariant, [Next]_vars PROVE Invariant'
    OBVIOUS
  <2>1. CASE Farm
    BY <2>1, FarmStepKeeps
  <2>2. CASE Report
    BY <2>2, ReportKeeps
  <2>3. CASE Reload
    BY <2>3, ReloadKeeps
  <2>4. CASE Mean
    BY <2>4, MeanKeeps
  <2>5. CASE Variance
    BY <2>5, VarianceKeeps
  <2>6. CASE SetRunNumber
    BY <2>6, SetRunNumberKeeps
  <2>7. CASE FindPath
    BY <2>7, FindPathKeeps
  <2>8. CASE Stability
    BY <2>8, StabilityKeeps
  <2>9. CASE UNCHANGED vars
    BY <2>9, NothingMoves
  <2> QED
    BY <2>1, <2>2, <2>3, <2>4, <2>5, <2>6, <2>7, <2>8, <2>9 DEF Next
<1> QED
  BY <1>1, <1>2, PTL DEF Spec

(***************************************************************************)
(* handle_slave_data writes and closes the file its slave has created.     *)
(***************************************************************************)
THEOREM OwnFilesWritten == Spec => []WritesOwnFile
<1>1. Invariant => WritesOwnFile
  BY DEF Invariant
<1> QED
  BY <1>1, FilesAndRuns, PTL

(***************************************************************************)
(* A result in the data file has its delays in the store.                  *)
(***************************************************************************)
THEOREM ResultsAreStored == Spec => []ResultsStored
<1>1. Invariant => ResultsStored
  <2> SUFFICES ASSUME Invariant, NEW j \in ToSet(posted) \ (pvt \cup torn)
               PROVE  WrittenBy(j, j)
    BY DEF ResultsStored
  <2>1. j \in Posted /\ j \in Job
    BY DEF Posted, Invariant, Tables, ToSet
  <2> QED
    BY <2>1 DEF Invariant, Stores, HasStored
<1> QED
  BY <1>1, FilesAndRuns, PTL

(***************************************************************************)
(* One slave sends the figure, whichever die.                              *)
(***************************************************************************)
THEOREM FigureIsSentOnce == Spec => []FigureSentOnce
<1>1. Invariant => FigureSentOnce
  BY DEF Invariant
<1> QED
  BY <1>1, FilesAndRuns, PTL

(***************************************************************************)
(* A search of paths sees the delays of the run selected, whatever was     *)
(* evicted before.                                                         *)
(***************************************************************************)
THEOREM SearchesSeeRun == Spec => []ValuesOfRun
<1>1. Invariant => ValuesOfRun
  BY DEF Invariant, StoreInvariant, ValuesOfRun
<1> QED
  BY <1>1, FilesAndRuns, PTL

-----------------------------------------------------------------------------
(***************************************************************************)
(* The loop of Victim looks at the runs one after the other: the function  *)
(* of its turns exists, and after turn k it has a run in memory, unless    *)
(* none of the first k is.                                                 *)
(***************************************************************************)
Turn(f, k) == IF k = 0 THEN -1
              ELSE LET min == f[k - 1]
                   IN  IF k - 1 \in InMemory(ore) /\ (min = -1 \/ min > ore[k - 1].cachenum)
                       THEN k - 1 ELSE min

Turns(f, n) == f = [k \in 0..n |-> Turn(f, k)]

LEMMA TurnsExist ==
  ASSUME NEW m \in Nat
  PROVE  \E f : Turns(f, m)
<1> DEFINE None == {n \in Nat : ~ \E f : Turns(f, n)}
<1>1. SUFFICES ASSUME None # {} PROVE FALSE
  OBVIOUS
<1>2. PICK n \in None : \A k \in None : n <= k
  <2> HIDE DEF None
  <2>1. None \subseteq Nat
    BY DEF None
  <2> QED
    BY <2>1, <1>1, Least
<1>3. n # 0
  <2> DEFINE f == [k \in 0..0 |-> -1]
  <2>1. Turns(f, 0)
    BY DEF Turns, Turn
  <2> QED
    BY <2>1
<1>4. n \in Nat \ {0} /\ n - 1 \in Nat /\ n - 1 \notin None
  <2> HIDE DEF None
  <2>1. n \in Nat
    BY DEF None
  <2> QED
    BY <1>2, <1>3, <2>1
<1>5. PICK f : Turns(f, n - 1)
  BY <1>4
<1> DEFINE g == [k \in 0..n |-> IF k = n THEN Turn(f, n) ELSE f[k]]
<1>6. \A k \in 0..n-1 : f[k] = Turn(f, k)
  BY <1>5 DEF Turns
<1>7. \A k \in 0..n : g[k] = Turn(g, k)
  BY <1>4, <1>6 DEF Turn
<1>8. Turns(g, n)
  <2> HIDE DEF g
  <2>1. g = [k \in 0..n |-> g[k]]
    BY DEF g
  <2> QED
    BY <1>7, <2>1 DEF Turns
<1> QED
  BY <1>2, <1>8

LEMMA VictimIsInMemory ==
  ASSUME NEW n \in Nat, Run = 0..n-1, Cardinality(Run) = n
  PROVE  Victim \in InMemory(ore) \/ (Victim = -1 /\ InMemory(ore) = {})
<1> DEFINE g == CHOOSE f : Turns(f, n)
           Wrong == {k \in 0..n : ~(\/ g[k] \in InMemory(ore)
                                    \/ g[k] = -1 /\ \A r \in InMemory(ore) : ~(r < k))}
<1>1. Victim = g[n]
  BY DEF Victim, Turns, Turn
<1>2. Turns(g, n)
  BY TurnsExist
<1>3. \A k \in 0..n : g[k] = Turn(g, k)
  <2> HIDE DEF g
  <2> QED
    BY <1>2 DEF Turns
<1>4. InMemory(ore) \subseteq 0..n-1
  BY DEF InMemory, Run
<1> HIDE DEF g
<1>5. Wrong = {}
  <2>1. SUFFICES ASSUME Wrong # {} PROVE FALSE
    OBVIOUS
  <2>2. PICK k \in Wrong : \A l \in Wrong : k <= l
    <3> HIDE DEF Wrong
    <3>1. Wrong \subseteq Nat
      BY DEF Wrong
    <3> QED
      BY <3>1, <2>1, Least
  <2>3. k \in 0..n /\ g[k] = Turn(g, k)
    BY <1>3
  <2>4. k # 0
    BY <1>4, <2>3 DEF Turn
  <2>5. k - 1 \in 0..n /\ k - 1 \notin Wrong
    <3>1. k - 1 \in 0..n /\ ~(k <= k - 1)
      BY <2>3, <2>4
    <3> HIDE DEF Wrong
    <3> QED
      BY <2>2, <3>1
  <2>6. \/ g[k - 1] \in InMemory(ore)
        \/ g[k - 1] = -1 /\ \A r \in InMemory(ore) : ~(r < k - 1)
    BY <2>5
  <2>7. \/ g[k] = k - 1 /\ k - 1 \in InMemory(ore)
        \/ g[k] = g[k - 1] /\ (k - 1 \notin InMemory(ore) \/ g[k - 1] # -1)
    BY <2>3, <2>4 DEF Turn
  <2>8. -1 \notin InMemory(ore)
    BY <1>4
  <2>9. \A r \in InMemory(ore) : r < k => r < k - 1 \/ r = k - 1
    BY <1>4, <2>3
  <2> QED
    BY <2>6, <2>7, <2>8, <2>9
<1>6. \/ g[n] \in InMemory(ore)
      \/ g[n] = -1 /\ \A r \in InMemory(ore) : ~(r < n)
  BY <1>5
<1>7. \A r \in InMemory(ore) : r < n
  BY <1>4
<1> QED
  BY <1>1, <1>6, <1>7

(***************************************************************************)
(* Room for runs: no more are in memory than were counted, or one when     *)
(* there is room for none.                                                 *)
(***************************************************************************)
Memory == /\ totalloaded \in 0..Limit
          /\ IsFiniteSet(InMemory(ore))
          /\ Cardinality(InMemory(ore)) <= IF Limit = 0 THEN 1 ELSE totalloaded

LEMMA FewInMemory ==
  ASSUME Tables, Runs
  PROVE  IsFiniteSet(InMemory(ore)) /\ Cardinality(InMemory(ore)) \in Nat
<1>1. Cardinality(Run) \in Nat \ {0} /\ Run = 0..Cardinality(Run) - 1
  BY RunsCount
<1>2. IsFiniteSet(Run)
  BY <1>1, FS_Interval
<1>3. InMemory(ore) \subseteq Run
  BY DEF InMemory, Run
<1> QED
  BY <1>2, <1>3, FS_Subset, FS_CardinalityType

(***************************************************************************)
(* What ttv_ssta_set_checkloadedstore leaves in memory.                    *)
(***************************************************************************)
LEMMA CheckLoadedEvicts ==
  ASSUME Tables, Runs, NEW r \in Run, CheckLoaded(r)
  PROVE  \/ InMemory(ore') = InMemory(ore) /\ totalloaded' = totalloaded
         \/ /\ InMemory(ore') \subseteq InMemory(ore) \cup {r}
            /\ ~(totalloaded + 1 > Limit) /\ totalloaded' = totalloaded + 1
         \/ /\ InMemory(ore') \subseteq (InMemory(ore) \ {Victim}) \cup {r}
            /\ totalloaded + 1 > Limit /\ totalloaded' = totalloaded
<1> DEFINE needed == ~ore[r].error /\ ore[r].sev # "read"
           full == totalloaded + 1 > Limit
           evicted == IF needed /\ full /\ Victim # -1
                      THEN [ore EXCEPT ![Victim].sev = "null"] ELSE ore
           numbered == IF needed /\ full
                       THEN [evicted EXCEPT ![r].cachenum = cachenum + 1] ELSE evicted
<1>1. /\ ore' = [numbered EXCEPT ![r] = Read(@)]
      /\ totalloaded' = IF needed /\ ~full THEN totalloaded + 1 ELSE totalloaded
  BY DEF CheckLoaded
<1>2. ore \in [Run -> RunRecord]
  BY DEF Runs
<1>3. CASE ~needed
  <2>1. Read(ore[r]) = ore[r] /\ numbered = ore
    BY <1>3 DEF Read
  <2>2. ore' = ore
    BY <1>1, <1>2, <2>1
  <2> QED
    BY <1>1, <1>3, <2>2
<1>4. CASE needed /\ ~full
  <2>1. numbered = ore
    BY <1>4
  <2>2. DOMAIN ore' = Run /\ \A q \in Run : q # r => ore'[q] = ore[q]
    BY <1>1, <1>2, <2>1
  <2>3. InMemory(ore') \subseteq InMemory(ore) \cup {r}
    BY <1>2, <2>2 DEF InMemory
  <2> QED
    BY <1>1, <1>4, <2>3
<1>5. CASE needed /\ full
  <2>1. /\ evicted \in [Run -> RunRecord]
        /\ \A q \in Run : q # Victim => evicted[q] = ore[q]
        /\ Victim \in Run => evicted[Victim].sev = "null" \/ Victim = -1
    BY <1>2, <1>5 DEF RunRecord
  <2>2. -1 \notin Run
    BY RunsCount
  <2>3. numbered = [evicted EXCEPT ![r].cachenum = cachenum + 1]
    BY <1>5
  <2> HIDE DEF evicted
  <2>4. DOMAIN numbered = Run /\ \A q \in Run : q # r => numbered[q] = evicted[q]
    BY <2>1, <2>3
  <2> HIDE DEF numbered
  <2>5. DOMAIN ore' = Run /\ \A q \in Run : q # r => ore'[q] = evicted[q]
    BY <1>1, <2>4
  <2>6. InMemory(ore') \subseteq (InMemory(ore) \ {Victim}) \cup {r}
    BY <1>2, <2>1, <2>2, <2>5 DEF InMemory
  <2> QED
    BY <1>1, <1>5, <2>6
<1> QED
  BY <1>3, <1>4, <1>5

LEMMA CheckLoadedMemory ==
  ASSUME Tables, Runs, Memory, NEW r \in Run, CheckLoaded(r)
  PROVE  Memory'
<1> DEFINE m == InMemory(ore)
           new == InMemory(ore')
<1>1. IsFiniteSet(m) /\ Cardinality(m) \in Nat
  BY FewInMemory
<1>2. Limit \in Nat /\ totalloaded \in 0..Limit
      /\ Cardinality(m) <= IF Limit = 0 THEN 1 ELSE totalloaded
  BY StoreAssumption DEF Memory
<1>3. CASE new = m /\ totalloaded' = totalloaded
  BY <1>1, <1>2, <1>3 DEF Memory
<1>4. CASE new \subseteq m \cup {r} /\ ~(totalloaded + 1 > Limit) /\ totalloaded' = totalloaded + 1
  <2> HIDE DEF m, new
  <2>1. IsFiniteSet(m \cup {r}) /\ Cardinality(m \cup {r}) <= Cardinality(m) + 1
    <3>1. IsFiniteSet(m \cup {r})
          /\ Cardinality(m \cup {r}) = IF r \in m THEN Cardinality(m) ELSE Cardinality(m) + 1
      BY <1>1, FS_AddElement
    <3> QED
      BY <1>1, <3>1
  <2>2. Cardinality(new) <= Cardinality(m \cup {r})
    BY <1>4, <2>1, FS_Subset
  <2>3. IsFiniteSet(new) /\ Cardinality(new) \in Nat /\ Cardinality(m \cup {r}) \in Nat
    BY <1>4, <2>1, FS_Subset, FS_CardinalityType
  <2>4. totalloaded' \in 0..Limit /\ Cardinality(new) <= totalloaded' /\ Limit # 0
    BY <1>1, <1>2, <1>4, <2>1, <2>2, <2>3
  <2> QED
    BY <2>3, <2>4 DEF Memory, new
<1>5. CASE /\ new \subseteq (m \ {Victim}) \cup {r}
           /\ totalloaded + 1 > Limit /\ totalloaded' = totalloaded
  <2>1. Victim \in m \/ m = {}
    BY RunsCount, VictimIsInMemory
  <2> DEFINE rest == m \ {Victim}
  <2>2. IsFiniteSet(rest) /\ Cardinality(rest) <= (IF m = {} THEN 0 ELSE Cardinality(m) - 1)
    <3>1. CASE m = {}
      BY <1>1, <3>1, FS_EmptySet
    <3>2. CASE Victim \in m
      <4> HIDE DEF m
      <4>1. IsFiniteSet(rest) /\ Cardinality(rest) = Cardinality(m) - 1
        BY <1>1, <3>2, FS_RemoveElement
      <4> QED
        BY <1>1, <3>2, <4>1
    <3> QED
      BY <2>1, <3>1, <3>2
  <2> HIDE DEF m, new, rest
  <2>3. IsFiniteSet(rest \cup {r}) /\ Cardinality(rest \cup {r}) <= Cardinality(rest) + 1
        /\ Cardinality(rest) \in Nat
    <3>1. IsFiniteSet(rest \cup {r})
          /\ Cardinality(rest \cup {r}) = IF r \in rest THEN Cardinality(rest) ELSE Cardinality(rest) + 1
      BY <2>2, FS_AddElement
    <3> QED
      BY <2>2, <3>1, FS_CardinalityType
  <2>4. new \subseteq rest \cup {r}
    BY <1>5 DEF rest
  <2>5. Cardinality(new) <= Cardinality(rest \cup {r})
    BY <2>3, <2>4, FS_Subset
  <2>6. IsFiniteSet(new) /\ Cardinality(new) \in Nat /\ Cardinality(rest \cup {r}) \in Nat
    BY <2>3, <2>4, FS_Subset, FS_CardinalityType
  <2>7. Cardinality(new) <= IF Limit = 0 THEN 1 ELSE totalloaded
    BY <1>1, <1>2, <1>5, <2>2, <2>3, <2>5, <2>6
  <2> QED
    BY <1>2, <1>5, <2>6, <2>7 DEF Memory, new
<1> QED
  BY <1>3, <1>4, <1>5, CheckLoadedEvicts

LEMMA LoadResultsMemory ==
  ASSUME LoadResults
  PROVE  Memory'
<1>1. ore' = [i \in 0..Len(posted) - 1 |-> Loaded(i)] /\ totalloaded' = 0
  BY DEF LoadResults
<1>2. \A i \in DOMAIN ore' : ore'[i] = Loaded(i) /\ Loaded(i).sev # "read"
  BY <1>1 DEF Loaded
<1>3. InMemory(ore') = {}
  BY <1>2 DEF InMemory
<1>4. IsFiniteSet(InMemory(ore')) /\ Cardinality(InMemory(ore')) = 0
  BY <1>3, FS_EmptySet
<1> QED
  BY <1>1, <1>4, StoreAssumption DEF Memory

(***************************************************************************)
(* What each step does with the store.                                     *)
(***************************************************************************)
LEMMA StoreSteps ==
  ASSUME Invariant, [Next]_vars
  PROVE  \/ UNCHANGED <<ore, totalloaded>>
         \/ LoadResults
         \/ at # "farm" /\ \E r \in Run : CheckLoaded(r)
<1>1. CASE Farm
  BY <1>1 DEF Farm, storeVars
<1>2. CASE Report
  BY <1>2 DEF Report
<1>3. CASE Reload
  BY <1>3 DEF Reload, storeVars
<1>4. CASE Mean
  <2>1. at = "mean" /\ cur_run' = Selected(num) /\ CheckLoaded(cur_run')
    BY <1>4 DEF Mean
  <2>2. cur_run' \in Run
    BY <2>1, SelectedRun DEF Invariant, StoreInvariant
  <2> QED
    BY <2>1, <2>2
<1>5. CASE Variance
  <2>1. at = "var" /\ num' = Before /\ cur_run' = Selected(num') /\ CheckLoaded(cur_run')
    BY <1>5 DEF Variance
  <2>2. num \in Run /\ Cardinality(Run) \in Nat \ {0} /\ Run = 0..Cardinality(Run) - 1
    BY <2>1, RunsCount DEF Invariant, StoreInvariant
  <2>3. num' \in Run
    BY <2>1, <2>2 DEF Before
  <2>4. cur_run' \in Run
    BY <2>1, <2>3, SelectedRun DEF Invariant
  <2> QED
    BY <2>1, <2>4
<1>6. CASE SetRunNumber
  BY <1>6 DEF SetRunNumber
<1>7. CASE FindPath
  <2>1. at = "ready" /\ CheckLoaded(cur_run)
    BY <1>7 DEF FindPath
  <2> QED
    BY <2>1 DEF Invariant, StoreInvariant
<1>8. CASE Stability
  BY <1>8 DEF Stability
<1>9. CASE UNCHANGED vars
  BY <1>9 DEF vars, storeVars
<1> QED
  BY <1>1, <1>2, <1>3, <1>4, <1>5, <1>6, <1>7, <1>8, <1>9 DEF Next

(***************************************************************************)
(* ttv_AddCache counts every run it loads until the room is taken, and     *)
(* then drops one for each it loads: none is in memory uncounted.          *)
(***************************************************************************)
THEOREM MemoryIsCounted == Spec => []Memory
<1>1. Init => Memory
  <2> SUFFICES ASSUME Init PROVE Memory
    OBVIOUS
  <2>1. totalloaded = 0 /\ InMemory(ore) = {}
    BY DEF Init, NoRuns, InMemory
  <2> QED
    BY <2>1, StoreAssumption, FS_EmptySet DEF Memory
<1>2. Invariant /\ Memory /\ [Next]_vars => Memory'
  <2> SUFFICES ASSUME Invariant, Memory, [Next]_vars PROVE Memory'
    OBVIOUS
  <2>1. CASE UNCHANGED <<ore, totalloaded>>
    BY <2>1 DEF Memory, InMemory
  <2>2. CASE LoadResults
    BY <2>2, LoadResultsMemory
  <2>3. CASE at # "farm" /\ \E r \in Run : CheckLoaded(r)
    BY <2>3, CheckLoadedMemory DEF Invariant, StoreInvariant
  <2> QED
    BY <2>1, <2>2, <2>3, StoreSteps
<1> QED
  BY <1>1, <1>2, FilesAndRuns, PTL DEF Spec

(***************************************************************************)
(* No more runs are in memory than avtSSTACacheSize has room for, and none *)
(* is there that totalloaded has not counted: a victim is always found     *)
(* when one is needed, also after reads that failed.                       *)
(***************************************************************************)
THEOREM MemoryIsLimited == Spec => []WithinLimit
<1>1. Invariant /\ Memory => WithinLimit
  <2> SUFFICES ASSUME Invariant, Memory PROVE WithinLimit
    OBVIOUS
  <2>1. Limit \in Nat /\ totalloaded \in 0..Limit
    BY StoreAssumption DEF Memory
  <2>2. \A n \in Nat : Max({n, 1}) \in {n, 1} /\ Max({n, 1}) >= n /\ Max({n, 1}) >= 1
    <3> SUFFICES ASSUME NEW n \in Nat
                 PROVE  Max({n, 1}) \in {n, 1} /\ Max({n, 1}) >= n /\ Max({n, 1}) >= 1
      OBVIOUS
    <3>1. \E x \in {n, 1} : \A y \in {n, 1} : x >= y
      OBVIOUS
    <3> QED
      BY <3>1 DEF Max
  <2>3. Cardinality(InMemory(ore)) \in Nat
    BY FS_CardinalityType DEF Memory
  <2>4. Cardinality(InMemory(ore)) <= IF Limit = 0 THEN 1 ELSE totalloaded
    BY DEF Memory
  <2>5. /\ Max({Limit, 1}) \in {Limit, 1} /\ Max({Limit, 1}) >= Limit /\ Max({Limit, 1}) >= 1
        /\ Max({totalloaded, 1}) \in {totalloaded, 1}
        /\ Max({totalloaded, 1}) >= totalloaded /\ Max({totalloaded, 1}) >= 1
    BY <2>1, <2>2
  <2> QED
    BY <2>1, <2>3, <2>4, <2>5 DEF WithinLimit
<1> QED
  BY <1>1, MemoryIsCounted, FilesAndRuns, PTL

-----------------------------------------------------------------------------
(***************************************************************************)
(* The loops of ttv_ssta_buildlinestat: the turns each has made, and the   *)
(* sums after them.  A run that could be read in its turn is in the sum;   *)
(* one that cannot be read is not counted again unless a run is in error.  *)
(***************************************************************************)
MeanTurns == IF at = "mean" THEN {r \in Run : r < num} ELSE Run

VarTurns == CASE at = "mean" -> {}
              [] at = "var" -> IF num = 0 THEN {} ELSE {r \in Run : r >= num}
              [] OTHER -> Run

Covers(runs, sums, turns) ==
    LET readable == {r \in DOMAIN runs : ~runs[r].error}
    IN  /\ sums \in [DOMAIN runs -> Nat]
        /\ \A r \in turns \cap readable : sums[r] >= 1
        /\ readable = DOMAIN runs =>
               \A r \in DOMAIN runs : sums[r] = IF r \in turns THEN 1 ELSE 0

Sums == at \in {"mean", "var", "ready"} =>
    /\ Covers(ore, mean, MeanTurns)
    /\ Covers(ore, var, VarTurns)
    /\ at = "ready" => num = 0
    /\ Readable = Run => realnum = IF at = "mean" THEN num ELSE Cardinality(Run)

LEMMA WorseRuns ==
  ASSUME NEW old, NEW new, NEW sums, NEW turns, Covers(old, sums, turns),
         DOMAIN new = DOMAIN old, \A r \in DOMAIN old : old[r].error => new[r].error
  PROVE  Covers(new, sums, turns)
BY DEF Covers

(***************************************************************************)
(* A turn: the run it is about, unless it is in error, is loaded and       *)
(* counted.                                                                *)
(***************************************************************************)
LEMMA OneTurn ==
  ASSUME Tables, Runs, cachenum \in Int, UNCHANGED <<posted, disk>>,
         NEW n \in Run, cur_run' = Selected(n), cur_run' \in Run, CheckLoaded(cur_run'),
         NEW turns, n \notin turns, NEW sums, Covers(ore, sums, turns),
         NEW after, after = IF Failed(cur_run') THEN sums ELSE Counts(sums, cur_run')
  PROVE  Covers(ore', after, turns \cup {n})
<1> PICK q \in Run : q = cur_run'
  OBVIOUS
<1>1. /\ Run' = Run /\ \A r \in Run : ore[r].error => ore'[r].error
      /\ ore'[q].error \/ ore'[q].sev = "read"
  BY CheckLoadedRuns
<1>2. DOMAIN ore = Run /\ DOMAIN ore' = Run
  BY <1>1 DEF Run
<1>3. q = IF ore[n].error THEN cur_run ELSE n
  BY DEF Selected
<1>4. q \in InMemory(ore') <=> ~ore'[q].error
  BY <1>1, <1>2 DEF InMemory
<1>5. sums \in [Run -> Nat]
  BY <1>2 DEF Covers
<1>6. after = IF ore'[q].error THEN sums ELSE [sums EXCEPT ![q] = @ + 1]
  BY <1>1, <1>4 DEF Failed, Counts
<1>7. after \in [Run -> Nat] /\ \A r \in Run : after[r] >= sums[r]
  BY <1>5, <1>6
<1>8. ASSUME NEW r \in turns \cup {n}, r \in Run, ~ore'[r].error PROVE after[r] >= 1
  <2>1. CASE r \in turns
    <3>1. sums[r] >= 1
      BY <1>1, <1>2, <1>8, <2>1 DEF Covers
    <3> QED
      BY <1>5, <1>7, <1>8, <3>1
  <2>2. CASE r = n
    <3>1. q = n /\ ~ore'[q].error
      BY <1>1, <1>3, <1>8, <2>2
    <3> QED
      BY <1>5, <1>6, <2>2, <3>1
  <2> QED
    BY <1>8, <2>1, <2>2
<1>9. ASSUME \A r \in Run : ~ore'[r].error, NEW r \in Run
      PROVE  after[r] = IF r \in turns \cup {n} THEN 1 ELSE 0
  <2>1. q = n /\ \A p \in Run : sums[p] = IF p \in turns THEN 1 ELSE 0
    BY <1>1, <1>2, <1>3, <1>9 DEF Covers
  <2>2. after = [sums EXCEPT ![n] = @ + 1]
    BY <1>6, <1>9, <2>1
  <2> QED
    BY <1>5, <2>1, <2>2
<1> QED
  BY <1>2, <1>7, <1>8, <1>9 DEF Covers

LEMMA MeanCovers ==
  ASSUME Invariant, Sums, Mean
  PROVE  Sums'
<1> DEFINE n == Cardinality(Run)
<1>1. /\ at = "mean" /\ cur_run' = Selected(num) /\ CheckLoaded(cur_run')
      /\ mean' = IF Failed(cur_run') THEN mean ELSE Counts(mean, cur_run')
      /\ realnum' = IF Failed(cur_run') THEN realnum ELSE realnum + 1
      /\ num' = (num + 1) % n /\ at' = (IF num' = 0 THEN "var" ELSE "mean")
      /\ var' = var /\ UNCHANGED <<posted, disk>>
  BY DEF Mean, start, filesVars
<1>2. Tables /\ Runs /\ cachenum \in Int /\ num \in Run /\ cur_run' \in Run
  BY <1>1, SelectedRun DEF Invariant, StoreInvariant
<1>3. n \in Nat \ {0} /\ Run = 0..n-1
  BY <1>2, RunsCount
<1>4. Covers(ore, mean, {r \in Run : r < num}) /\ Covers(ore, var, {})
      /\ (Readable = Run => realnum = num)
  BY <1>1 DEF Sums, MeanTurns, VarTurns
<1>5. Covers(ore', mean', {r \in Run : r < num} \cup {num})
  <2>1. num \notin {r \in Run : r < num}
    BY <1>2, <1>3
  <2> QED
    BY <1>1, <1>2, <1>4, <2>1, OneTurn
<1>6. Run' = Run /\ \A r \in Run : ore[r].error => ore'[r].error
  BY <1>1, <1>2, CheckLoadedRuns
<1>7. Covers(ore', var', {})
  BY <1>1, <1>4, <1>6, WorseRuns DEF Run
<1>8. Readable' = Run' => realnum' = num + 1
  <2> SUFFICES ASSUME Readable' = Run' PROVE realnum' = num + 1
    OBVIOUS
  <2>1. \A r \in Run : ~ore'[r].error
    BY <1>6 DEF Readable
  <2>2. Readable = Run /\ ~Failed(cur_run')
    BY <1>2, <1>6, <2>1 DEF Readable, Failed
  <2> QED
    BY <1>1, <1>4, <2>2
<1> HIDE DEF n
<1>9. CASE num + 1 = n
  <2>1. num' = 0 /\ at' = "var"
    BY <1>1, <1>2, <1>3, <1>9
  <2>2. {r \in Run : r < num} \cup {num} = Run
    BY <1>2, <1>3, <1>9
  <2>3. MeanTurns' = Run /\ VarTurns' = {}
    BY <1>6, <2>1 DEF MeanTurns, VarTurns
  <2> QED
    BY <1>5, <1>6, <1>7, <1>8, <1>9, <2>1, <2>2, <2>3 DEF Sums, n
<1>10. CASE num + 1 # n
  <2>1. num' = num + 1 /\ at' = "mean"
    BY <1>1, <1>2, <1>3, <1>10
  <2>2. {r \in Run : r < num} \cup {num} = {r \in Run : r < num + 1}
    BY <1>2, <1>3
  <2>3. MeanTurns' = {r \in Run : r < num + 1} /\ VarTurns' = {}
    BY <1>6, <2>1 DEF MeanTurns, VarTurns
  <2> QED
    BY <1>5, <1>6, <1>7, <1>8, <2>1, <2>2, <2>3 DEF Sums
<1> QED
  BY <1>9, <1>10

LEMMA VarianceCovers ==
  ASSUME Invariant, Sums, Variance
  PROVE  Sums'
<1> DEFINE n == Cardinality(Run)
           before == IF num = 0 THEN n - 1 ELSE num - 1
<1>1. /\ at = "var" /\ num' = before /\ cur_run' = Selected(before) /\ CheckLoaded(cur_run')
      /\ var' = IF Failed(cur_run') THEN var ELSE Counts(var, cur_run')
      /\ at' = (IF num' = 0 THEN "ready" ELSE "var")
      /\ UNCHANGED <<mean, realnum>> /\ UNCHANGED <<posted, disk>>
  BY DEF Variance, Before, start, filesVars
<1>2. Tables /\ Runs /\ cachenum \in Int /\ num \in Run
  BY <1>1 DEF Invariant, StoreInvariant
<1>3. n \in Nat \ {0} /\ Run = 0..n-1
  BY <1>2, RunsCount
<1>4. before \in Run
  BY <1>2, <1>3
<1>5. cur_run' \in Run
  BY <1>1, <1>4, SelectedRun DEF Invariant
<1> DEFINE turns == IF num = 0 THEN {} ELSE {r \in Run : r >= num}
<1>6. Covers(ore, mean, Run) /\ Covers(ore, var, turns)
      /\ (Readable = Run => realnum = n)
  BY <1>1 DEF Sums, MeanTurns, VarTurns
<1>7. turns \cup {before} = {r \in Run : r >= before} /\ before \notin turns
  BY <1>2, <1>3
<1> HIDE DEF n, before, turns
<1>8. Covers(ore', var', turns \cup {before})
  BY <1>1, <1>2, <1>4, <1>5, <1>6, <1>7, OneTurn
<1>9. Run' = Run /\ \A r \in Run : ore[r].error => ore'[r].error
  BY <1>1, <1>2, <1>5, CheckLoadedRuns
<1>10. Covers(ore', mean', Run)
  BY <1>1, <1>6, <1>9, WorseRuns DEF Run
<1>11. Readable' = Run' => realnum' = Cardinality(Run')
  <2> SUFFICES ASSUME Readable' = Run' PROVE realnum' = Cardinality(Run')
    OBVIOUS
  <2>1. \A r \in Run : ~ore'[r].error
    BY <1>9 DEF Readable
  <2>2. Readable = Run
    BY <1>9, <2>1 DEF Readable
  <2> QED
    BY <1>1, <1>6, <1>9, <2>2 DEF n
<1>12. MeanTurns' = Run
  BY <1>1, <1>9 DEF MeanTurns
<1>13. VarTurns' = {r \in Run : r >= before}
  <2>1. CASE before = 0
    BY <1>1, <1>3, <1>9, <2>1 DEF VarTurns
  <2>2. CASE before # 0
    BY <1>1, <1>9, <2>2 DEF VarTurns
  <2> QED
    BY <2>1, <2>2
<1>14. at' = "ready" => num' = 0
  BY <1>1
<1> QED
  BY <1>1, <1>7, <1>8, <1>10, <1>11, <1>12, <1>13, <1>14 DEF Sums

(***************************************************************************)
(* Once the sums are made, runs are only found to be in error.             *)
(***************************************************************************)
LEMMA ReadyCovers ==
  ASSUME Invariant, Sums, at = "ready", at' = "ready", UNCHANGED statVars,
         UNCHANGED <<posted, disk>>,
         ore' = ore \/ CheckLoaded(cur_run)
  PROVE  Sums'
<1>1. Tables /\ Runs /\ cachenum \in Int /\ cur_run \in Run
  BY DEF Invariant, StoreInvariant
<1>2. Run' = Run /\ \A r \in Run : ore[r].error => ore'[r].error
  <2>1. CASE ore' = ore
    BY <2>1 DEF Run
  <2>2. CASE CheckLoaded(cur_run)
    BY <1>1, <2>2, CheckLoadedRuns
  <2> QED
    BY <2>1, <2>2
<1>3. UNCHANGED <<num, realnum, mean, var>>
  BY DEF statVars
<1>4. Covers(ore, mean, Run) /\ Covers(ore, var, Run) /\ num = 0
      /\ (Readable = Run => realnum = Cardinality(Run))
  BY DEF Sums, MeanTurns, VarTurns
<1>5. Covers(ore', mean', Run) /\ Covers(ore', var', Run)
  BY <1>2, <1>3, <1>4, WorseRuns DEF Run
<1>6. MeanTurns' = Run /\ VarTurns' = Run
  BY <1>2 DEF MeanTurns, VarTurns
<1>7. Readable' = Run' => Readable = Run
  BY <1>2 DEF Readable
<1> QED
  BY <1>2, <1>3, <1>4, <1>5, <1>6, <1>7 DEF Sums

LEMMA LoadResultsCovers ==
  ASSUME Tables, LoadResults, at' = "mean", UNCHANGED <<posted, disk>>
  PROVE  Sums'
<1>1. /\ ore' = [i \in 0..Len(posted) - 1 |-> Loaded(i)]
      /\ mean' = [i \in 0..Len(posted) - 1 |-> 0] /\ var' = mean'
      /\ num' = 0 /\ realnum' = 0
  BY DEF LoadResults
<1>2. Len(posted) \in Nat /\ Run' = 0..Len(posted) - 1
  BY <1>1, Results DEF LoadResults, Run
<1>3. MeanTurns' = {} /\ VarTurns' = {}
  BY <1>1, <1>2 DEF MeanTurns, VarTurns
<1>4. Covers(ore', mean', {}) /\ Covers(ore', var', {})
  BY <1>1, <1>2 DEF Covers, Run
<1> QED
  BY <1>1, <1>3, <1>4 DEF Sums

(***************************************************************************)
(* After each turn of ttv_ssta_buildlinestat the sums have the runs of the *)
(* turns made, whatever runs were dropped or failed to be read on the way. *)
(***************************************************************************)
THEOREM SumsHold == Spec => []Sums
<1>1. Init => Sums
  BY DEF Init, Sums
<1>2. Invariant /\ Sums /\ [Next]_vars => Sums'
  <2> SUFFICES ASSUME Invariant, Sums, [Next]_vars PROVE Sums'
    OBVIOUS
  <2>1. CASE Farm
    BY <2>1 DEF Farm, Sums
  <2>2. CASE Report
    BY <2>2, LoadResultsCovers DEF Report, Invariant
  <2>3. CASE Reload
    BY <2>3, LoadResultsCovers DEF Reload, filesVars, Invariant, Sums
  <2>4. CASE Mean
    BY <2>4, MeanCovers
  <2>5. CASE Variance
    BY <2>5, VarianceCovers
  <2>6. CASE SetRunNumber
    BY <2>6, ReadyCovers DEF SetRunNumber, filesVars
  <2>7. CASE FindPath
    BY <2>7, ReadyCovers DEF FindPath, filesVars
  <2>8. CASE Stability
    BY <2>8, ReadyCovers DEF Stability, filesVars
  <2>9. CASE UNCHANGED vars
    BY <2>9 DEF vars, storeVars, statVars, Sums, Covers, MeanTurns, VarTurns, Readable, Run
  <2> QED
    BY <2>1, <2>2, <2>3, <2>4, <2>5, <2>6, <2>7, <2>8, <2>9 DEF Next
<1> QED
  BY <1>1, <1>2, FilesAndRuns, PTL DEF Spec

(***************************************************************************)
(* The two loops of ttv_ssta_buildlinestat miss no run that can be read,   *)
(* and count each once when all can, although they start from the selected *)
(* run, go in opposite directions and evict runs on the way.               *)
(***************************************************************************)
THEOREM StatisticsCoverRuns == Spec => []StatsCover
<1>1. Sums => StatsCover
  BY DEF Sums, Covers, StatsCover, ReportMade, Readable, MeanTurns, VarTurns, Run
<1> QED
  BY <1>1, SumsHold, PTL
=============================================================================
