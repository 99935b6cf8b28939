-------------------------- MODULE OutputFiles_proofs --------------------------
(***************************************************************************)
(* Proofs about OutputFiles, for every list of channel names, every number *)
(* of runs and every user: its variables keep their types (TypeCorrect),   *)
(* the helpers work as the user and give the program owner's rights back   *)
(* (UserOnly), a channel's file holds that channel's records of one run    *)
(* (FilesKeptApart), and the log only names files of its own run           *)
(* (LogsAreTrue).                                                          *)
(***************************************************************************)
EXTENDS OutputFiles, SequenceTheorems, TLAPS

Opening == at \in {"card", "dir", "file", "inside", "raise", "log"}
Running == Opening \/ at \in {"frames", "done"}

\* The file of the present job has been opened.
Ready == at = "log" \/ (at = "raise" /\ call = "open" /\ ~failed)

\* Where the run stands, and whose rights it has there.
Control ==
    /\ at # "idle" => Run > 0
    /\ at # "idle" => euid = IF Lowered THEN User ELSE Root
    /\ Lowered => saved = Root
    /\ Opening => job <= Len(Plan)
    /\ at = "card" => job = 1
    /\ at \in {"frames", "done"} => job = Len(Plan) + 1
    /\ at = "inside" /\ call = "mkdir_p" => level <= 1

\* The run that made a folder or opened a file could do it.
Owned ==
    /\ \A d \in {"R", "T"} : dirs[d] # None =>
          dirs[d].run \in 1 .. Run /\ dirs[d].owner = who[dirs[d].run]
    /\ \A p \in Path : files[p] # None =>
          files[p].run \in 1 .. Run
             /\ MayWrite(who[files[p].run], files[p].owner)

\* The files of the plan up to the present job are of this run.
Made == Running =>
    \A i \in 1 .. Len(Plan) : i < job \/ (i = job /\ Ready) =>
        files[Plan[i]] # None /\ files[Plan[i]].run = Run

\* The log of this run lists the jobs it is done with.
Listed == Running /\ (job > 1 \/ Ready) =>
    Len(said) = job - 1 /\ \A i \in 1 .. job - 1 : said[i] = Plan[i]

\* Every log, also that of an earlier run, lists files of its own run.
Told == \A i \in DOMAIN said :
    /\ files["events"] # None /\ files[said[i]] # None
    /\ files[said[i]].run = files["events"].run

\* Before the frames nothing is written.
Fresh == Opening =>
    /\ \A c \in DOMAIN names : pos[c] = 0
    /\ \A p \in Path : files[p] # None /\ files[p].run = Run =>
                           files[p].data = << >>

IInv ==
    TypeOK /\ Control /\ Owned /\ Made /\ Listed /\ Told /\ Fresh /\ OwnFile

USE UsersAssumption, NamesAssumption, DistinctAssumption, BoundsAssumption,
    NoneAssumption

-----------------------------------------------------------------------------
\* The files before those of the channels.
First == IF fast THEN 1 ELSE 2

\* What the plan looks like.
LEMMA PlanFacts ==
  ASSUME names \in NameCases, fast \in BOOLEAN
  PROVE  /\ names \in Seq(Name) /\ Len(names) \in Nat \ {0}
         /\ DOMAIN names = 1 .. Len(names)
         /\ Plan \in Seq(Path)
         /\ Len(Plan) = First + Len(names) /\ First \in {1, 2}
         /\ Plan[1] = "events"
         /\ \A i \in 2 .. Len(Plan) : Plan[i] # "events"
         /\ \A c \in 1 .. Len(names) : Plan[First + c] = names[c]
         /\ \A c \in 1 .. Len(names) : names[c] \in Path
<1>1. names \in Seq(Name) /\ names # << >>
  OBVIOUS
<1>2. DOMAIN names = 1 .. Len(names) /\ Len(names) \in Nat \ {0}
  BY <1>1
<1>3. Name \subseteq Path /\ "events" \in Path /\ "csv" \in Path
  BY DEF Path
<1>4. names \in Seq(Path)
  BY <1>1, <1>3
<1>5. \A c \in 1 .. Len(names) : names[c] \in Name /\ names[c] # "events"
  BY <1>1, <1>2
<1>6. CASE fast
  <2>1. Plan = << "events" >> \o names
    BY <1>1, <1>6 DEF Plan
  <2>2. Plan \in Seq(Path) /\ Len(Plan) = 1 + Len(names)
    BY <2>1, <1>3, <1>4
  <2>3. Plan[1] = "events" /\ \A c \in 1 .. Len(names) : Plan[1 + c] = names[c]
    BY <2>1, <1>4
  <2>4. \A i \in 2 .. Len(Plan) : Plan[i] = names[i - 1]
    BY <2>1, <2>2, <1>2, <1>4
  <2> QED BY <1>1, <1>2, <1>3, <1>5, <1>6, <2>2, <2>3, <2>4 DEF First
<1>7. CASE ~fast
  <2>1. Plan = << "events", "csv" >> \o names
    BY <1>1, <1>7 DEF Plan
  <2>2. Plan \in Seq(Path) /\ Len(Plan) = 2 + Len(names)
    BY <2>1, <1>3, <1>4
  <2>3. /\ Plan[1] = "events" /\ Plan[2] = "csv"
        /\ \A c \in 1 .. Len(names) : Plan[2 + c] = names[c]
    BY <2>1, <1>4
  <2>4. \A i \in 3 .. Len(Plan) : Plan[i] = names[i - 2]
    BY <2>1, <2>2, <1>2, <1>4
  <2>5. \A i \in 2 .. Len(Plan) : Plan[i] # "events"
    BY <2>2, <2>3, <2>4, <1>2, <1>5
  <2> QED BY <1>1, <1>2, <1>3, <1>5, <1>7, <2>2, <2>3, <2>5 DEF First
<1> QED BY <1>6, <1>7

\* A write at an offset keeps a list of records one.
LEMMA WriteAtType ==
  ASSUME NEW list \in Seq(Item), NEW k \in Nat, NEW x \in Item
  PROVE  WriteAt(list, k, x) \in Seq(Item)
<1>1. CASE k < Len(list)
  <2>1. k + 1 \in 1 .. Len(list)
    BY <1>1
  <2>2. [list EXCEPT ![k + 1] = x] \in Seq(Item)
    BY <2>1, ExceptSeq
  <2> QED BY <1>1, <2>2 DEF WriteAt
<1>2. CASE ~ (k < Len(list))
  BY <1>2 DEF WriteAt
<1> QED BY <1>1, <1>2

\* A file after it was emptied by run r.
Emptied(g, r) == [g EXCEPT !.run = r, !.data = << >>]

LEMMA EmptiedFile ==
  ASSUME NEW g \in File, NEW r \in Nat
  PROVE  /\ Emptied(g, r) \in File /\ Emptied(g, r).owner = g.owner
         /\ Emptied(g, r).run = r /\ Emptied(g, r).data = << >>
<1> DEFINE h == [g EXCEPT !.run = r]
           e == Emptied(g, r)
<1>1. h \in File /\ h.owner = g.owner /\ h.run = r
  BY DEF File
<1>2. e = [h EXCEPT !.data = << >>]
  BY DEF Emptied
<1>3. << >> \in Seq(Item)
  OBVIOUS
<1> HIDE DEF h, e
<1>4. e \in File /\ e.owner = h.owner /\ e.run = h.run /\ e.data = << >>
  BY <1>1, <1>2, <1>3 DEF File
<1> QED BY <1>1, <1>4 DEF e

LEMMA InitIInv == Init => IInv
<1> SUFFICES ASSUME Init PROVE IInv
  OBVIOUS
<1>1. names \in NameCases /\ fast = FALSE /\ at = "idle" /\ job = 1
  BY DEF Init
<1>2. Len(Plan) \in Nat
  BY <1>1, PlanFacts
<1>3. dirs \in [Dir -> Folder \cup {None}]
  <2>1. [owner |-> Home, run |-> 0] \in Folder
    BY DEF Folder
  <2> QED BY <2>1 DEF Init
<1>4. TypeOK
  <2>1. job \in 1 .. Len(Plan) + 1
    BY <1>1, <1>2
  <2>2. who \in Seq(Users) /\ said \in Seq(Path)
    BY DEF Init
  <2>3. files \in [Path -> File \cup {None}] /\ pos \in [DOMAIN names -> Nat]
    BY DEF Init
  <2>4. /\ fast \in BOOLEAN /\ at = "idle" /\ level = 0 /\ call = "mkdir_p"
        /\ saved \in Users /\ failed \in BOOLEAN /\ euid \in Users
    BY DEF Init
  <2>5. names \in NameCases
    BY DEF Init
  <2> QED BY <1>3, <2>1, <2>2, <2>3, <2>4, <2>5 DEF TypeOK
<1>5. dirs["R"] = None /\ dirs["T"] = None /\ \A p \in Path : files[p] = None
  BY DEF Init, Dir
<1>6. OwnFile
  BY <1>1, <1>5, PlanFacts DEF OwnFile
<1> QED
  BY <1>1, <1>4, <1>5, <1>6
  DEF Init, IInv, Control, Lowered, Opening, Running, Owned, Made, Listed, Told,
      Fresh

-----------------------------------------------------------------------------
\* The plan does not change while the card and the mode stay.
LEMMA SamePlan ==
  ASSUME UNCHANGED card
  PROVE  /\ Plan' = Plan /\ Run' = Run /\ First' = First
         /\ names' = names /\ who' = who /\ fast' = fast /\ User' = User
BY DEF card, Plan, Run, First, User

\* A step that leaves the disk and the handles alone keeps what is known of
\* them, if it does not bring the run forward in its plan.
LEMMA QuietStep ==
  ASSUME IInv, UNCHANGED << card, job, disk, pos >>, TypeOK', Control',
         at # "idle", Running' => Running, Opening' => Opening,
         Ready' => Ready, at' \in {"frames", "done"} => at \in {"frames", "done"}
  PROVE  IInv'
<1>1. /\ dirs' = dirs /\ files' = files /\ said' = said /\ pos' = pos
      /\ job' = job
  BY DEF disk
<1>2. Owned'
  BY <1>1, SamePlan DEF IInv, Owned
<1>3. Made' /\ Listed'
  BY <1>1, SamePlan DEF IInv, Made, Listed
<1>4. Told'
  BY <1>1 DEF IInv, Told
<1>5. Fresh'
  BY <1>1, SamePlan DEF IInv, Fresh
<1>6. OwnFile'
  BY <1>1, SamePlan DEF IInv, OwnFile
<1> QED BY <1>2, <1>3, <1>4, <1>5, <1>6 DEF IInv

LEMMA StartStep ==
  ASSUME IInv, NEW u \in Users, NEW f \in BOOLEAN, Start(u, f)
  PROVE  IInv'
<1>1. /\ at = "idle" /\ at' = "card" /\ who' = Append(who, u) /\ fast' = f
      /\ names' = names /\ job' = 1 /\ euid' = Root /\ saved' = Root
      /\ pos' = [c \in DOMAIN names |-> 0]
      /\ dirs' = dirs /\ files' = files /\ said' = said
  BY DEF Start, disk
<1>2. names' \in NameCases /\ fast' \in BOOLEAN /\ who \in Seq(Users)
  BY <1>1 DEF IInv, TypeOK
<1>3. /\ who' \in Seq(Users) /\ Len(who') = Len(who) + 1
      /\ \A r \in 1 .. Len(who) : who'[r] = who[r]
  BY <1>1, <1>2
<1>4. /\ Len(Plan)' \in Nat \ {0} /\ Len(Plan') > 1
      /\ 1 \in 1 .. Len(Plan') + 1
  <2>1. names' \in Seq(Name) /\ names' # << >> /\ Len(names') \in Nat \ {0}
    BY <1>2
  <2>2. Plan' = << "events" >> \o (IF fast' THEN << >> ELSE << "csv" >>) \o names'
    BY DEF Plan
  <2>3. Len(Plan') = (IF fast' THEN 1 ELSE 2) + Len(names')
    BY <2>1, <2>2
  <2> QED BY <2>1, <2>3
<1>5. TypeOK'
  <2>1. /\ level' = 0 /\ call' = "mkdir_p" /\ failed' = FALSE
        /\ pos' \in [DOMAIN names' -> Nat]
    BY <1>1 DEF Start
  <2>2. /\ dirs' \in [Dir -> Folder \cup {None}]
        /\ files' \in [Path -> File \cup {None}] /\ said' \in Seq(Path)
    BY <1>1 DEF IInv, TypeOK
  <2>3. /\ level' \in 0 .. 2
        /\ call' \in {"mkdir_p", "open"}
        /\ saved' \in Users /\ euid' \in Users
        /\ at' \in {"idle", "card", "dir", "file", "inside", "raise", "log",
                    "frames", "done", "rescued"}
    BY <1>1, <2>1
  <2>4. job' \in 1 .. Len(Plan)' + 1
    BY <1>1, <1>4
  <2>5. failed' \in BOOLEAN
    BY <2>1, Zenon
  <2> QED BY <1>2, <1>3, <2>1, <2>2, <2>3, <2>4, <2>5, Zenon DEF TypeOK
<1>6. Control'
  BY <1>1, <1>2, <1>3, <1>4 DEF Control, Run, Lowered, Opening
<1>7. Owned'
  BY <1>1, <1>2, <1>3 DEF IInv, Owned, Run
<1>8. Made' /\ Listed'
  BY <1>1 DEF Made, Listed, Ready
<1>9. Told'
  BY <1>1 DEF IInv, Told
<1>10. Fresh'
  <2>1. \A p \in Path : files[p] # None => files[p].run # Run'
    BY <1>2, <1>3 DEF IInv, Owned, Run
  <2> QED BY <1>1, <2>1 DEF Fresh
<1>11. OwnFile'
  BY <1>1 DEF IInv, OwnFile
<1> QED
  BY <1>5, <1>6, <1>7, <1>8, <1>9, <1>10, <1>11 DEF IInv

LEMMA OpenCardStep == IInv /\ OpenCard => IInv'
<1> SUFFICES ASSUME IInv, OpenCard PROVE IInv'
  OBVIOUS
<1>1. TypeOK'
  BY SamePlan DEF OpenCard, IInv, TypeOK, helper, disk
<1>2. Control'
  BY SamePlan DEF OpenCard, IInv, Control, Lowered, Opening, helper
<1> QED
  BY <1>1, <1>2, QuietStep
  DEF OpenCard, Running, Opening, Ready

LEMMA LowerStep ==
  ASSUME IInv, NEW c \in {"mkdir_p", "open"}, Lower(c)
  PROVE  IInv'
<1>1. User \in Users /\ Run > 0
  BY DEF Lower, IInv, TypeOK, Control, User, Run
<1>2. TypeOK'
  <2>1. /\ at' = "inside" /\ call' = c /\ level' = 0 /\ failed' = FALSE
        /\ saved' = euid /\ euid' = User /\ job' = job /\ pos' = pos
        /\ dirs' = dirs /\ files' = files /\ said' = said
    BY DEF Lower, disk
  <2>2. level' \in 0 .. 2 /\ saved' \in Users /\ euid' \in Users
    BY <1>1, <2>1 DEF IInv, TypeOK
  <2>3. UNCHANGED card
    BY DEF Lower
  <2>4. failed' \in BOOLEAN
    BY <2>1, Zenon
  <2> QED BY <2>1, <2>2, <2>3, <2>4, SamePlan DEF IInv, TypeOK
<1>3. at \in {"dir", "file"} /\ euid = Root
  BY DEF Lower, IInv, Control, Lowered
<1>4. Control'
  BY <1>1, <1>3, SamePlan DEF Lower, IInv, Control, Lowered, Opening
<1> QED
  BY <1>2, <1>3, <1>4, QuietStep DEF Lower, Running, Opening, Ready

LEMMA CallFailsStep == IInv /\ CallFails => IInv'
<1> SUFFICES ASSUME IInv, CallFails PROVE IInv'
  OBVIOUS
<1>1. TypeOK'
  BY SamePlan DEF CallFails, IInv, TypeOK, disk
<1>2. Control'
  BY SamePlan DEF CallFails, IInv, Control, Lowered, Opening
<1> QED
  BY <1>1, <1>2, QuietStep DEF CallFails, Running, Opening, Ready

LEMMA RaiseStep == IInv /\ Raise => IInv'
<1> SUFFICES ASSUME IInv, Raise PROVE IInv'
  OBVIOUS
<1>1. TypeOK'
  BY SamePlan DEF Raise, IInv, TypeOK, helper, disk
<1>2. saved = Root /\ at = "raise" /\ at' \in {"rescued", "file", "log"}
  BY DEF Raise, IInv, Control, Lowered
<1>3. Control'
  BY <1>2, SamePlan DEF Raise, IInv, Control, Lowered, Opening, helper
<1>4. Ready' => Ready
  BY DEF Raise, Ready, IInv, TypeOK
<1> QED
  BY <1>1, <1>2, <1>3, <1>4, QuietStep DEF Raise, Running, Opening

LEMMA FinishStep == IInv /\ Finish => IInv'
<1> SUFFICES ASSUME IInv, Finish PROVE IInv'
  OBVIOUS
<1>1. TypeOK'
  BY SamePlan DEF Finish, IInv, TypeOK, helper, disk
<1>2. Control'
  BY SamePlan DEF Finish, IInv, Control, Lowered, Opening, helper
<1> QED
  BY <1>1, <1>2, QuietStep DEF Finish, Running, Opening, Ready

LEMMA FailStep == IInv /\ Fail => IInv'
<1> SUFFICES ASSUME IInv, Fail PROVE IInv'
  OBVIOUS
<1>1. TypeOK'
  BY SamePlan DEF Fail, IInv, TypeOK, helper, disk
<1>2. Control'
  BY SamePlan DEF Fail, IInv, Control, Lowered, Opening, helper
<1> QED
  BY <1>1, <1>2, QuietStep DEF Fail, Running, Opening, Ready

LEMMA ExitStep == IInv /\ Exit => IInv'
<1> SUFFICES ASSUME IInv, Exit PROVE IInv'
  OBVIOUS
<1>1. TypeOK'
  BY SamePlan DEF Exit, IInv, TypeOK, helper, disk
<1>2. Control'
  BY SamePlan DEF Exit, IInv, Control, Lowered, Opening, helper
<1> QED
  BY <1>1, <1>2, QuietStep DEF Exit, Running, Opening, Ready

LEMMA MakeDirStep == IInv /\ MakeDir => IInv'
<1> SUFFICES ASSUME IInv, MakeDir PROVE IInv'
  OBVIOUS
<1> DEFINE d == IF level = 0 THEN "R" ELSE "T"
<1>1. /\ at = "inside" /\ call = "mkdir_p" /\ UNCHANGED card /\ job' = job
      /\ files' = files /\ said' = said /\ pos' = pos /\ euid' = euid
      /\ call' = call /\ saved' = saved /\ failed' = failed
      /\ level' = level + 1 /\ at' = Walked(level)
  BY DEF MakeDir
<1>2. level \in {0, 1} /\ euid = User /\ User \in Users /\ Run > 0 /\ Run \in Nat
  BY <1>1 DEF IInv, TypeOK, Control, Lowered, User, Run
<1>3. dirs' = dirs \/ dirs' = [dirs EXCEPT ![d] = [owner |-> User, run |-> Run]]
  BY <1>2 DEF MakeDir
<1>4. d \in {"R", "T"} /\ d \in Dir
  BY DEF Dir
<1>5. [owner |-> User, run |-> Run] \in Folder
  BY <1>2 DEF Folder
<1> HIDE DEF d
<1>6. dirs' \in [Dir -> Folder \cup {None}]
  BY <1>3, <1>4, <1>5 DEF IInv, TypeOK
<1>7. level' \in 0 .. 2 /\ at' \in {"inside", "raise"}
  BY <1>1, <1>2 DEF Walked
<1>8. TypeOK'
  BY <1>1, <1>6, <1>7, SamePlan DEF IInv, TypeOK
<1>9. Control'
  <2>1. at' = "inside" => level' <= 1
    BY <1>1, <1>2 DEF Walked
  <2>2. euid' = User' /\ saved' = Root /\ Run' > 0 /\ job' <= Len(Plan)'
    BY <1>1, <1>2, SamePlan DEF IInv, Control, Lowered, Opening
  <2> QED BY <1>7, <2>1, <2>2 DEF Control, Lowered, Opening
<1>10. Owned'
  <2>1. \A e \in {"R", "T"} : dirs'[e] = dirs[e] \/
            dirs'[e] = [owner |-> User, run |-> Run]
    BY <1>3, <1>4 DEF IInv, TypeOK, Dir
  <2>2. \A e \in {"R", "T"} : dirs'[e] # None =>
            dirs'[e].run \in 1 .. Run /\ dirs'[e].owner = who[dirs'[e].run]
    BY <1>2, <2>1 DEF IInv, Owned, User
  <2> QED BY <1>1, <2>2, SamePlan DEF IInv, Owned
<1>11. Running /\ Opening /\ ~ Ready'
  BY <1>1, <1>7 DEF Running, Opening, Ready
<1>12. Made' /\ Listed'
  BY <1>1, <1>11, SamePlan DEF IInv, Made, Listed
<1>13. Told' /\ Fresh'
  BY <1>1, <1>11, SamePlan DEF IInv, Told, Fresh
<1>14. OwnFile'
  BY <1>1, <1>7, SamePlan DEF IInv, OwnFile
<1> QED BY <1>8, <1>9, <1>10, <1>12, <1>13, <1>14 DEF IInv

LEMMA OpenFileStep == IInv /\ OpenFile => IInv'
<1> SUFFICES ASSUME IInv, OpenFile PROVE IInv'
  OBVIOUS
<1> DEFINE p == Plan[job]
           f == Opened(p)
<1>1. /\ at = "inside" /\ call = "open" /\ UNCHANGED card /\ job' = job
      /\ dirs' = dirs /\ pos' = pos /\ euid' = euid /\ level' = level
      /\ call' = call /\ saved' = saved /\ failed' = failed /\ at' = "raise"
      /\ said' = Said(p) /\ files' = [files EXCEPT ![p] = f]
      /\ MayWrite(euid, IF files[p] = None THEN dirs["T"].owner
                                           ELSE files[p].owner)
  BY DEF OpenFile, helper
<1>2. euid = User /\ User \in Users /\ Run > 0 /\ Run \in Nat
  BY <1>1 DEF IInv, TypeOK, Control, Lowered, User, Run
<1>3. /\ job \in 1 .. Len(Plan) /\ Plan \in Seq(Path) /\ Plan[1] = "events"
      /\ \A i \in 2 .. Len(Plan) : Plan[i] # "events"
  BY <1>1, PlanFacts DEF IInv, TypeOK, Control, Opening
<1>4. p \in Path /\ (p = "events" <=> job = 1)
  BY <1>3
<1>5. f \in File /\ f.run = Run /\ f.data = << >> /\ MayWrite(User, f.owner)
  <2>1. CASE files[p] = None
    <3>1. f = [owner |-> User, run |-> Run, data |-> << >>]
      BY <1>2, <2>1 DEF Opened
    <3> QED BY <1>2, <3>1 DEF File, MayWrite
  <2>2. CASE files[p] # None
    <3>1. files[p] \in File
      BY <1>4, <2>2 DEF IInv, TypeOK
    <3>2. f = Emptied(files[p], Run)
      BY <2>2 DEF Opened, Emptied
    <3>3. /\ f \in File /\ f.owner = files[p].owner /\ f.run = Run
          /\ f.data = << >>
      BY <1>2, <3>1, <3>2, EmptiedFile
    <3>4. MayWrite(User, files[p].owner)
      BY <1>1, <1>2, <2>2
    <3> QED BY <3>3, <3>4
  <2> QED BY <2>1, <2>2
<1> HIDE DEF p, f
<1>6. /\ \A q \in Path : files'[q] = IF q = p THEN f ELSE files[q]
      /\ files' \in [Path -> File \cup {None}]
  BY <1>1, <1>4, <1>5 DEF IInv, TypeOK
<1>7. f # None
  BY <1>5
<1>8. said' \in Seq(Path)
  BY <1>1 DEF Said, IInv, TypeOK
<1>9. TypeOK'
  BY <1>1, <1>6, <1>8, SamePlan DEF IInv, TypeOK
<1>10. Control'
  BY <1>1, SamePlan DEF IInv, Control, Lowered, Opening
<1>11. Owned'
  <2>1. \A q \in Path : files'[q] # None =>
            files'[q].run \in 1 .. Run
               /\ MayWrite(who[files'[q].run], files'[q].owner)
    BY <1>2, <1>5, <1>6 DEF IInv, Owned, User
  <2> QED BY <1>1, <2>1, SamePlan DEF IInv, Owned
<1>12. Running /\ Opening /\ ~ Ready
  BY <1>1 DEF Running, Opening, Ready
<1>13. \A i \in 1 .. Len(Plan) : Plan[i] \in Path /\ (i = job => Plan[i] = p)
  BY <1>3 DEF p
<1>14. Made'
  <2>1. \A i \in 1 .. Len(Plan) : i <= job =>
            files'[Plan[i]] # None /\ files'[Plan[i]].run = Run
    BY <1>3, <1>5, <1>6, <1>7, <1>12, <1>13 DEF IInv, Made
  <2> QED BY <1>1, <1>3, <2>1, SamePlan DEF Made
<1>15. Listed' /\ Told'
  <2>1. CASE job = 1
    BY <1>1, <1>4, <2>1 DEF Listed, Told, Said
  <2>2. CASE job > 1
    <3>1. said' = said /\ p # "events"
      BY <1>1, <1>3, <1>4, <2>2 DEF Said
    <3>2. Len(said) = job - 1 /\ \A i \in 1 .. job - 1 : said[i] = Plan[i]
      BY <1>12, <2>2 DEF IInv, Listed
    <3>3. Listed'
      BY <1>1, <3>1, <3>2, SamePlan DEF Listed
    <3>4. DOMAIN said = 1 .. job - 1
      BY <3>2 DEF IInv, TypeOK
    <3>5. files'[Plan[1]] # None /\ files'[Plan[1]].run = Run
      BY <1>3, <1>5, <1>6, <1>7, <1>12, <1>13, <2>2 DEF IInv, Made
    <3>6. \A i \in 1 .. job - 1 :
              files'[Plan[i]] # None /\ files'[Plan[i]].run = Run
      BY <1>3, <1>5, <1>6, <1>7, <1>12, <1>13, <2>2 DEF IInv, Made
    <3>7. Told'
      BY <1>3, <3>1, <3>2, <3>4, <3>5, <3>6 DEF Told
    <3> QED BY <3>3, <3>7
  <2> QED BY <1>3, <2>1, <2>2
<1>16. Fresh'
  BY <1>1, <1>5, <1>6, <1>12, SamePlan DEF IInv, Fresh
<1>17. OwnFile'
  <2>1. ASSUME NEW c \in DOMAIN names
        PROVE  names[c] \in Path
    BY PlanFacts DEF IInv, TypeOK
  <2>2. ASSUME \A c, e \in DOMAIN names : names[c] = names[e] => c = e,
               NEW c \in DOMAIN names, files'[names[c]] # None,
               NEW k \in DOMAIN files'[names[c]].data
        PROVE  files'[names[c]].data[k]
                  = [run |-> files'[names[c]].run, chan |-> c, n |-> k]
    BY <1>5, <1>6, <2>1, <2>2 DEF IInv, OwnFile
  <2> QED BY <1>1, <2>2, SamePlan DEF OwnFile
<1> QED BY <1>9, <1>10, <1>11, <1>14, <1>15, <1>16, <1>17 DEF IInv


LEMMA LogCreatedStep == IInv /\ LogCreated => IInv'
<1> SUFFICES ASSUME IInv, LogCreated PROVE IInv'
  OBVIOUS
<1>1. /\ at = "log" /\ UNCHANGED card /\ job' = job + 1 /\ euid' = euid
      /\ dirs' = dirs /\ files' = files /\ pos' = pos
      /\ level' = level /\ call' = call /\ saved' = saved /\ failed' = failed
      /\ said' = Append(said, Plan[job])
      /\ at' = IF job < Len(Plan) THEN "dir" ELSE "frames"
  BY DEF LogCreated, helper
<1>2. /\ job \in 1 .. Len(Plan) /\ Plan \in Seq(Path) /\ Plan[1] = "events"
      /\ Len(Plan) = First + Len(names) /\ First \in {1, 2}
      /\ Len(names) \in Nat \ {0} /\ DOMAIN names = 1 .. Len(names)
      /\ \A c \in 1 .. Len(names) : Plan[First + c] = names[c] /\ names[c] \in Path
  BY <1>1, PlanFacts DEF IInv, TypeOK, Control, Opening
<1>3. Plan[job] \in Path /\ said \in Seq(Path) /\ Len(Plan) \in Nat
  BY <1>2 DEF IInv, TypeOK
<1>4. said' \in Seq(Path) /\ job' \in 1 .. Len(Plan) + 1 /\ at' \in {"dir", "frames"}
  BY <1>1, <1>2, <1>3
<1>5. TypeOK'
  BY <1>1, <1>4, SamePlan DEF IInv, TypeOK
<1>6. Control'
  <2>1. at' = "dir" => job' <= Len(Plan)
    BY <1>1, <1>2
  <2>2. at' = "frames" => job' = Len(Plan) + 1
    BY <1>1, <1>2
  <2>3. euid' = Root /\ Run > 0
    BY <1>1 DEF IInv, Control, Lowered
  <2> QED BY <1>1, <1>4, <2>1, <2>2, <2>3, SamePlan DEF Control, Lowered, Opening
<1>7. Owned'
  BY <1>1, SamePlan DEF IInv, Owned
<1>8. Running /\ Opening /\ Ready /\ ~ Ready'
  BY <1>1, <1>4 DEF Running, Opening, Ready
<1>9. \A i \in 1 .. Len(Plan) : i <= job =>
          files[Plan[i]] # None /\ files[Plan[i]].run = Run
  BY <1>2, <1>8 DEF IInv, Made
<1>10. Made'
  <2>1. \A i \in 1 .. Len(Plan) : i < job + 1 => i <= job
    BY <1>2
  <2> QED BY <1>1, <1>8, <1>9, <2>1, SamePlan DEF Made
<1>11. Len(said) = job - 1 /\ \A i \in 1 .. job - 1 : said[i] = Plan[i]
  BY <1>8 DEF IInv, Listed
<1>12. Len(said') = job /\ \A i \in 1 .. job : said'[i] = Plan[i]
  BY <1>1, <1>2, <1>3, <1>11
<1>13. Listed'
  BY <1>1, <1>2, <1>12, SamePlan DEF Listed
<1>14. Told'
  <2>1. DOMAIN said' = 1 .. job
    BY <1>4, <1>12
  <2>2. files["events"] # None /\ files["events"].run = Run
    BY <1>2, <1>9
  <2> QED BY <1>1, <1>2, <1>9, <1>12, <2>1, <2>2 DEF Told
<1>15. Fresh'
  BY <1>1, <1>8, SamePlan DEF IInv, Fresh
<1>16. OwnFile'
  <2>1. ASSUME at' = "frames", NEW c \in DOMAIN names
        PROVE  /\ files[names[c]] # None /\ files[names[c]].run = Run
               /\ Len(files[names[c]].data) = pos[c]
    <3>1. job = Len(Plan)
      BY <1>1, <1>2, <2>1
    <3>2. First + c \in 1 .. Len(Plan) /\ First + c <= job
      BY <1>2, <3>1
    <3>3. files[names[c]] # None /\ files[names[c]].run = Run
      BY <1>2, <1>9, <3>2
    <3>4. files[names[c]].data = << >> /\ pos[c] = 0
      BY <1>2, <1>8, <3>3 DEF IInv, Fresh
    <3> QED BY <3>3, <3>4
  <2>2. at' # "done"
    BY <1>4
  <2> QED BY <1>1, <2>1, <2>2, SamePlan DEF IInv, OwnFile
<1> QED BY <1>5, <1>6, <1>7, <1>10, <1>13, <1>14, <1>15, <1>16 DEF IInv

LEMMA WriteStep ==
  ASSUME IInv, NEW c \in DOMAIN names, Write(c)
  PROVE  IInv'
<1> DEFINE q == names[c]
           x == [run |-> Run, chan |-> c, n |-> pos[c] + 1]
           list == WriteAt(files[q].data, pos[c], x)
           g == [files[q] EXCEPT !.data = list]
<1>1. /\ at = "frames" /\ at' = at /\ UNCHANGED card /\ job' = job
      /\ level' = level /\ call' = call /\ saved' = saved /\ failed' = failed
      /\ euid' = euid /\ dirs' = dirs /\ said' = said
      /\ pos' = [pos EXCEPT ![c] = @ + 1]
  BY DEF Write, helper
<1>2. files' = [files EXCEPT ![q] = g]
  BY DEF Write
<1>3. /\ DOMAIN names = 1 .. Len(names) /\ Len(names) \in Nat
      /\ Plan \in Seq(Path) /\ Len(Plan) = First + Len(names) /\ First \in {1, 2}
      /\ \A d \in 1 .. Len(names) : Plan[First + d] = names[d] /\ names[d] \in Path
  BY PlanFacts DEF IInv, TypeOK
<1>4. q \in Path /\ c \in Nat /\ pos \in [DOMAIN names -> Nat] /\ pos[c] \in Nat
  BY <1>3 DEF IInv, TypeOK
<1>5. Run \in Nat
  BY DEF IInv, TypeOK, Run
<1>6. files[q] # None /\ files[q].run = Run
  <2>1. First + c \in 1 .. Len(Plan) /\ First + c < job /\ Plan[First + c] = q
    BY <1>1, <1>3 DEF IInv, Control
  <2>2. Running
    BY <1>1 DEF Running
  <2> QED BY <2>1, <2>2 DEF IInv, Made
<1>7. files[q] \in File
  BY <1>4, <1>6 DEF IInv, TypeOK
<1>8. files[q].data \in Seq(Item)
  BY <1>7 DEF File
<1>9. x \in Item
  BY <1>4, <1>5 DEF Item
<1>10. list \in Seq(Item)
  <2> HIDE DEF x
  <2> QED BY <1>4, <1>8, <1>9, WriteAtType
<1>11. g \in File /\ g.owner = files[q].owner /\ g.run = Run /\ g.data = list
  <2> HIDE DEF list
  <2> QED BY <1>6, <1>7, <1>10 DEF File
<1> HIDE DEF q, g, list, x
<1>12. /\ \A p \in Path : files'[p] = IF p = q THEN g ELSE files[p]
       /\ files' \in [Path -> File \cup {None}] /\ g # None
  BY <1>2, <1>4, <1>11 DEF IInv, TypeOK
<1>13. pos' \in [DOMAIN names -> Nat]
  BY <1>1, <1>4
<1>14. TypeOK'
  BY <1>1, <1>12, <1>13, SamePlan DEF IInv, TypeOK
<1>15. Control'
  BY <1>1, SamePlan DEF IInv, Control, Lowered, Opening
<1>16. \A p \in Path : /\ files'[p] = None <=> files[p] = None
                       /\ files[p] # None => /\ files'[p].run = files[p].run
                                             /\ files'[p].owner = files[p].owner
  BY <1>6, <1>11, <1>12
<1>17. Owned'
  BY <1>1, <1>16, SamePlan DEF IInv, Owned
<1>18. ~ Opening /\ ~ Opening' /\ ~ Ready /\ ~ Ready' /\ (Running' <=> Running)
  BY <1>1 DEF Opening, Ready, Running
<1>19. Made'
  <2>1. \A i \in 1 .. Len(Plan) : Plan[i] \in Path
    BY <1>3
  <2> QED BY <1>1, <1>16, <1>18, <2>1, SamePlan DEF IInv, Made
<1>20. Listed' /\ Fresh'
  BY <1>1, <1>18, SamePlan DEF IInv, Listed, Fresh
<1>21. Told'
  <2>1. \A i \in DOMAIN said : said[i] \in Path
    BY DEF IInv, TypeOK
  <2>2. "events" \in Path
    BY DEF Path
  <2> QED BY <1>1, <1>16, <2>1, <2>2 DEF IInv, Told
<1>22. OwnFile'
  <2> SUFFICES ASSUME \A a, b \in DOMAIN names : names[a] = names[b] => a = b,
                      NEW d \in DOMAIN names
               PROVE  LET f == files'[names[d]]
                      IN  /\ f # None => \A k \in DOMAIN f.data :
                               f.data[k] = [run |-> f.run, chan |-> d, n |-> k]
                          /\ f # None /\ f.run = Run /\ Len(f.data) = pos'[d]
    BY SamePlan, <1>1 DEF OwnFile
  <2>1. /\ files[names[d]] # None => \A k \in DOMAIN files[names[d]].data :
               files[names[d]].data[k]
                  = [run |-> files[names[d]].run, chan |-> d, n |-> k]
        /\ files[names[d]] # None /\ files[names[d]].run = Run
        /\ Len(files[names[d]].data) = pos[d]
    BY <1>1 DEF IInv, OwnFile
  <2>2. CASE d # c
    <3>1. names[d] # q /\ names[d] \in Path
      BY <1>3, <2>2 DEF q
    <3>2. files'[names[d]] = files[names[d]] /\ pos'[d] = pos[d]
      BY <1>1, <1>4, <1>12, <2>2, <3>1
    <3> QED BY <2>1, <3>2
  <2>3. CASE d = c
    <3>1. files'[names[d]] = g /\ pos'[d] = pos[c] + 1
      BY <1>1, <1>4, <1>12, <2>3 DEF q
    <3>2. /\ Len(files[q].data) = pos[c] /\ DOMAIN files[q].data = 1 .. pos[c]
          /\ \A k \in 1 .. pos[c] :
                files[q].data[k] = [run |-> Run, chan |-> c, n |-> k]
      BY <1>8, <2>1, <2>3 DEF q
    <3>3. list = Append(files[q].data, x)
      BY <3>2, <1>4 DEF list, WriteAt
    <3>4. /\ Len(list) = pos[c] + 1 /\ DOMAIN list = 1 .. pos[c] + 1
          /\ list[pos[c] + 1] = x
          /\ \A k \in 1 .. pos[c] : list[k] = files[q].data[k]
      BY <1>4, <1>8, <1>9, <3>2, <3>3
    <3>5. \A k \in DOMAIN list : list[k] = [run |-> Run, chan |-> c, n |-> k]
      <4>1. x = [run |-> Run, chan |-> c, n |-> pos[c] + 1]
        BY DEF x
      <4>2. \A k \in 1 .. pos[c] + 1 : k = pos[c] + 1 \/ k \in 1 .. pos[c]
        BY <1>4
      <4> QED BY <3>2, <3>4, <4>1, <4>2
    <3> QED BY <1>11, <1>12, <2>3, <3>1, <3>4, <3>5
  <2> QED BY <2>2, <2>3
<1> QED
  BY <1>14, <1>15, <1>17, <1>19, <1>20, <1>21, <1>22 DEF IInv

LEMMA StutterStep == IInv /\ UNCHANGED vars => IInv'
<1> SUFFICES ASSUME IInv, UNCHANGED vars PROVE IInv'
  OBVIOUS
<1>1. UNCHANGED card /\ UNCHANGED helper /\ UNCHANGED disk
  BY DEF vars, card, helper, disk
<1>2. /\ at' = at /\ job' = job /\ euid' = euid /\ pos' = pos
      /\ level' = level /\ call' = call /\ saved' = saved /\ failed' = failed
      /\ dirs' = dirs /\ files' = files /\ said' = said
  BY DEF vars
<1>3. TypeOK' /\ Control'
  BY <1>1, <1>2, SamePlan DEF IInv, TypeOK, Control, Lowered, Opening
<1>4. Owned' /\ Told' /\ OwnFile'
  BY <1>1, <1>2, SamePlan DEF IInv, Owned, Told, OwnFile
<1>5. Made' /\ Listed' /\ Fresh'
  BY <1>1, <1>2, SamePlan
  DEF IInv, Made, Listed, Fresh, Running, Opening, Ready
<1> QED BY <1>3, <1>4, <1>5 DEF IInv

LEMMA Invariance == Spec => []IInv
<1>1. IInv /\ [Next]_vars => IInv'
  <2> SUFFICES ASSUME IInv, [Next]_vars PROVE IInv'
    OBVIOUS
  <2>1. CASE \E u \in Users, f \in BOOLEAN : Start(u, f)
    BY <2>1, StartStep
  <2>2. CASE OpenCard
    BY <2>2, OpenCardStep
  <2>3. CASE \E c \in {"mkdir_p", "open"} : Lower(c)
    BY <2>3, LowerStep
  <2>4. CASE MakeDir
    BY <2>4, MakeDirStep
  <2>5. CASE OpenFile
    BY <2>5, OpenFileStep
  <2>6. CASE CallFails
    BY <2>6, CallFailsStep
  <2>7. CASE Raise
    BY <2>7, RaiseStep
  <2>8. CASE LogCreated
    BY <2>8, LogCreatedStep
  <2>9. CASE \E c \in DOMAIN names : Write(c)
    BY <2>9, WriteStep
  <2>10. CASE Finish
    BY <2>10, FinishStep
  <2>11. CASE Fail
    BY <2>11, FailStep
  <2>12. CASE Exit
    BY <2>12, ExitStep
  <2>13. CASE UNCHANGED vars
    BY <2>13, StutterStep
  <2> QED
    BY <2>1, <2>2, <2>3, <2>4, <2>5, <2>6, <2>7, <2>8, <2>9, <2>10, <2>11,
       <2>12, <2>13 DEF Next
<1> QED BY <1>1, InitIInv, PTL DEF Spec

-----------------------------------------------------------------------------
\* Every variable has its type, whatever runs came before.
THEOREM TypeCorrect == Spec => []TypeOK
<1>1. IInv => TypeOK
  BY DEF IInv
<1> QED BY <1>1, Invariance, PTL

\* setuid.rb: inside the helpers the effective user is the one who started
\* the run, outside it is the program's owner, and what a run made belongs to
\* a user it may write for; for every number of runs, users and failures.
THEOREM UserOnly == Spec => []Unprivileged
<1>1. IInv => Unprivileged
  BY DEF IInv, Control, Owned, Unprivileged
<1> QED BY <1>1, Invariance, PTL

\* makeseed.rb 201-205, 249-254: on a card with different channel names a
\* channel's file holds its records of one run, each once and in order, for
\* every number of channels and of interrupted runs.
THEOREM FilesKeptApart == Spec => []OwnFile
<1>1. IInv => OwnFile
  BY DEF IInv
<1> QED BY <1>1, Invariance, PTL

\* makeseed.rb 187-206: whatever runs were interrupted, a file the log names
\* was opened by the run that wrote the log, and at the frames the log is the
\* whole plan.
THEOREM LogsAreTrue == Spec => []LogTrue
<1>1. ASSUME IInv PROVE LogTrue
  <2>1. ASSUME at \in {"frames", "done"} PROVE said = Plan
    <3>1. Plan \in Seq(Path) /\ Len(Plan) \in Nat /\ Len(Plan) > 0
      <4>1. Plan \in Seq(Path) /\ Len(Plan) = First + Len(names)
            /\ First \in {1, 2} /\ Len(names) \in Nat
        BY <1>1, PlanFacts DEF IInv, TypeOK
      <4> QED BY <4>1
    <3>2. job = Len(Plan) + 1 /\ Running /\ said \in Seq(Path)
      BY <1>1, <2>1 DEF IInv, Control, Running, TypeOK
    <3>3. job > 1
      BY <3>1, <3>2
    <3>4. Len(said) = job - 1 /\ \A i \in 1 .. job - 1 : said[i] = Plan[i]
      BY <1>1, <3>2, <3>3 DEF IInv, Listed
    <3>5. Len(said) = Len(Plan) /\ \A i \in 1 .. Len(Plan) : said[i] = Plan[i]
      BY <3>1, <3>2, <3>4
    <3> QED BY <3>1, <3>2, <3>5, SeqEqual
  <2>2. Told
    BY <1>1 DEF IInv
  <2> QED BY <2>1, <2>2 DEF LogTrue, Told
<1> QED BY <1>1, Invariance, PTL
=============================================================================
