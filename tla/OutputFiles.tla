----------------------------- MODULE OutputFiles -----------------------------
(***************************************************************************)
(* The files makeseed makes for one card, over any number of runs.         *)
(* Makeseed#run opens the card as the owner of the installed program, who  *)
(* may read the device.  It makes its folder and files as the user who     *)
(* started it: the helpers of setuid.rb lower the effective user for one   *)
(* call and raise it again, whether the call succeeds or raises.  Then the *)
(* channels write their records.  A run can be interrupted at every step   *)
(* and started again on the same card, by another user or in the other     *)
(* mode; it finds what the runs before it left behind.                     *)
(*                                                                         *)
(* Which samples are in a record is the business of Makeseed and           *)
(* MakeseedFast.  Here a record is known by the run that wrote it, its     *)
(* channel and its place in that channel.  The rows of the CSV file are    *)
(* left out, too.                                                          *)
(*                                                                         *)
(* A definition whose name ends in _bug... is not part of the model; see   *)
(* the README.                                                             *)
(***************************************************************************)
EXTENDS Naturals, Sequences

CONSTANTS
    Users,       \* the users who may start makeseed
    Root,        \* the owner of the installed program
    Home,        \* the owner of the directory makeseed is started in
    Name,        \* names of channels
    NameCases,   \* the lists of channel names a card may have
    MaxRuns,     \* bound: runs on the card
    MaxRecords,  \* bound: records of one channel
    None         \* nothing of that name on the disk

ASSUME UsersAssumption == Root \in Users /\ Home \in Users
ASSUME NamesAssumption == NameCases \subseteq Seq(Name) \ {<< >>}
ASSUME DistinctAssumption == Name \cap {"events", "csv"} = {}
ASSUME BoundsAssumption == MaxRuns \in Nat /\ MaxRecords \in Nat

\* The files of the card's folder: events.txt, engineeringdata.csv and one
\* .seed file for each name.
Path == {"events", "csv"} \cup Name

\* The folders: the one makeseed is started in, %R in it and %T in that.
Dir == {"home", "R", "T"}

Item == [run : Nat, chan : Nat, n : Nat]
Folder == [owner : Users, run : Nat]
File == [owner : Users, run : Nat, data : Seq(Item)]

ASSUME NoneAssumption == None \notin Folder /\ None \notin File

VARIABLES
    names,   \* sd.channels
    who,     \* the user of each run so far; the last one is the current run
    fast,    \* options[:fast]
    at,      \* where the current run stands
    job,     \* the file of the plan it is busy with
    level,   \* how many folders mkdir_p has been through
    call,    \* the helper it is in: mkdir_p or open
    saved,   \* e of that helper
    failed,  \* the call in the helper has raised
    euid,    \* the effective user
    dirs,    \* the folders on the disk
    files,   \* the files on the disk
    said,    \* the "Creating ..." lines of events.txt
    pos      \* the file offset of each channel's handle, in records
vars == << names, who, fast, at, job, level, call, saved, failed, euid, dirs,
           files, said, pos >>
card == << names, who, fast >>
helper == << level, call, saved, failed >>
disk == << dirs, files, said >>

Run == Len(who)
User == who[Run]
MayWrite(u, owner) == u = Root \/ u = owner

\* The files in the order in which Makeseed#run opens them.
Plan == << "events" >> \o (IF fast THEN << >> ELSE << "csv" >>) \o names

\* The channels a handle is kept for.  Without --fast they are an array, with
\* it a hash by name, in which a later channel replaces an earlier one.
Kept == {c \in DOMAIN names :
            fast => \A d \in DOMAIN names : names[d] = names[c] => d <= c}

-----------------------------------------------------------------------------
Init ==
    /\ names \in NameCases
    /\ who = << >>
    /\ fast = FALSE
    /\ at = "idle"
    /\ job = 1 /\ level = 0 /\ call = "mkdir_p"
    /\ saved = Root /\ failed = FALSE /\ euid = Root
    /\ dirs = [d \in Dir |->
                 IF d = "home" THEN [owner |-> Home, run |-> 0] ELSE None]
    /\ files = [p \in Path |-> None]
    /\ said = << >>
    /\ pos = [c \in DOMAIN names |-> 0]

\* A user starts the program.  The installed file has the set-user-ID bit.
Start(u, f) ==
    /\ at = "idle"
    /\ Run < MaxRuns
    /\ who' = Append(who, u)
    /\ fast' = f
    /\ at' = "card"
    /\ job' = 1 /\ level' = 0 /\ call' = "mkdir_p"
    /\ saved' = Root /\ failed' = FALSE /\ euid' = Root
    /\ pos' = [c \in DOMAIN names |-> 0]
    /\ UNCHANGED << names, disk >>

\* KumSd::File.new has read the headers.
OpenCard ==
    /\ at = "card"
    /\ at' = "dir"
    /\ UNCHANGED << card, job, helper, euid, disk, pos >>

\* The helpers begin: mkdir_p_unprivileged at "dir", open_unprivileged at
\* "file".
Lower(c) ==
    /\ at = IF c = "mkdir_p" THEN "dir" ELSE "file"
    /\ call' = c
    /\ saved' = euid
    /\ euid' = User
    /\ failed' = FALSE
    /\ level' = 0
    /\ at' = "inside"
    /\ UNCHANGED << card, job, disk, pos >>

Walked_bugMore(l) == IF l <= 1 THEN "inside" ELSE "raise"

\* Where mkdir_p stands after the folder at level l of the two.
Walked(l) == IF l = 0 THEN "inside" ELSE "raise"

\* One mkdir of mkdir_p: a folder that is there already is no failure.
MakeDir ==
    /\ at = "inside" /\ call = "mkdir_p"
    /\ LET d == IF level = 0 THEN "R" ELSE "T"
           parent == IF level = 0 THEN "home" ELSE "R"
       IN  \/ /\ dirs[d] # None
              /\ dirs' = dirs
           \/ /\ dirs[d] = None
              /\ MayWrite(euid, dirs[parent].owner)
              /\ dirs' = [dirs EXCEPT ![d] = [owner |-> euid, run |-> Run]]
    /\ level' = level + 1
    /\ at' = Walked(level)
    /\ UNCHANGED << card, job, call, saved, failed, euid, files, said, pos >>

Opened_bugAppend(p) ==
    IF files[p] = None
    THEN [owner |-> euid, run |-> Run, data |-> << >>]
    ELSE [files[p] EXCEPT !.run = Run]

\* The file on the disk after a File.open with "wb".
Opened(p) ==
    IF files[p] = None
    THEN [owner |-> euid, run |-> Run, data |-> << >>]
    ELSE [files[p] EXCEPT !.run = Run, !.data = << >>]

Said_bugAppend(p) == said

\* The lines of the log after a File.open of p with "wb".
Said(p) == IF p = "events" THEN << >> ELSE said

\* The File.open of open_unprivileged: the file is made or emptied.
OpenFile ==
    /\ at = "inside" /\ call = "open"
    /\ LET p == Plan[job]
       IN  /\ MayWrite(euid, IF files[p] = None THEN dirs["T"].owner
                                                ELSE files[p].owner)
           /\ files' = [files EXCEPT ![p] = Opened(p)]
           /\ said' = Said(p)
    /\ at' = "raise"
    /\ UNCHANGED << card, job, helper, euid, dirs, pos >>

\* mkdir or File.open fails: no right to write there, a full disk, no file
\* descriptor left.
CallFails ==
    /\ at = "inside"
    /\ call = "mkdir_p" => dirs[IF level = 0 THEN "R" ELSE "T"] = None
    /\ failed' = TRUE
    /\ at' = "raise"
    /\ UNCHANGED << card, job, level, call, saved, euid, disk, pos >>

Raise_bugLost ==
    /\ at = "raise"
    /\ euid' = IF failed THEN euid ELSE saved
    /\ at' = IF failed THEN "rescued"
             ELSE IF call = "mkdir_p" THEN "file" ELSE "log"
    /\ UNCHANGED << card, job, helper, disk, pos >>

\* The ensure of the helpers, and the return or the exception after it.
Raise ==
    /\ at = "raise"
    /\ euid' = saved
    /\ at' = IF failed THEN "rescued"
             ELSE IF call = "mkdir_p" THEN "file" ELSE "log"
    /\ UNCHANGED << card, job, helper, disk, pos >>

\* log "Creating ...", and on to the next file or to the frames.
LogCreated ==
    /\ at = "log"
    /\ said' = Append(said, Plan[job])
    /\ job' = job + 1
    /\ at' = IF job < Len(Plan) THEN "dir" ELSE "frames"
    /\ UNCHANGED << card, helper, euid, dirs, files, pos >>

\* A list of records after a write of x at offset k.
WriteAt(list, k, x) ==
    IF k < Len(list) THEN [list EXCEPT ![k + 1] = x] ELSE Append(list, x)

\* A channel writes its next record.  Frame by frame the records of all
\* channels are full at the same frame, and written in the order of the
\* channels; with --fast a channel may be ahead by the records of a buffer.
Write(c) ==
    /\ at = "frames"
    /\ c \in Kept
    /\ pos[c] < MaxRecords
    /\ ~fast => /\ \A d \in 1 .. c - 1 : pos[d] = pos[c] + 1
                /\ \A d \in c + 1 .. Len(names) : pos[d] = pos[c]
    /\ LET x == [run |-> Run, chan |-> c, n |-> pos[c] + 1]
       IN  files' = [files EXCEPT ![names[c]].data = WriteAt(@, pos[c], x)]
    /\ pos' = [pos EXCEPT ![c] = @ + 1]
    /\ UNCHANGED << card, at, job, helper, euid, dirs, said >>

\* The last frame is done.
Finish ==
    /\ at = "frames"
    /\ at' = "done"
    /\ UNCHANGED << card, job, helper, euid, disk, pos >>

\* An exception outside the helpers: the card can not be read, a write to the
\* log or to a channel's file fails.
Fail ==
    /\ at \in {"card", "log", "frames"}
    /\ at' = "rescued"
    /\ UNCHANGED << card, job, helper, euid, disk, pos >>

\* The program ends after the rescue or the last frame, or it is killed.
Exit ==
    /\ at # "idle"
    /\ at' = "idle"
    /\ UNCHANGED << card, job, helper, euid, disk, pos >>

Next ==
    \/ \E u \in Users, f \in BOOLEAN : Start(u, f)
    \/ OpenCard
    \/ \E c \in {"mkdir_p", "open"} : Lower(c)
    \/ MakeDir
    \/ OpenFile
    \/ CallFails
    \/ Raise
    \/ LogCreated
    \/ \E c \in DOMAIN names : Write(c)
    \/ Finish
    \/ Fail
    \/ Exit

Spec == Init /\ [][Next]_vars

-----------------------------------------------------------------------------
\* Every variable has its type.
TypeOK ==
    /\ names \in NameCases
    /\ who \in Seq(Users)
    /\ fast \in BOOLEAN
    /\ at \in {"idle", "card", "dir", "file", "inside", "raise", "log",
               "frames", "done", "rescued"}
    /\ job \in 1 .. Len(Plan) + 1
    /\ level \in 0 .. 2
    /\ call \in {"mkdir_p", "open"}
    /\ saved \in Users /\ euid \in Users
    /\ failed \in BOOLEAN
    /\ dirs \in [Dir -> Folder \cup {None}]
    /\ files \in [Path -> File \cup {None}]
    /\ said \in Seq(Path)
    /\ pos \in [DOMAIN names -> Nat]

\* The part of a run that is done as its user: from the seteuid at the start
\* of a helper to the one in its ensure.
Lowered == at \in {"inside", "raise"}

\* setuid.rb: a helper works as the user of the run, and the program owner's
\* rights are back after it on every path, also when mkdir or open raised.  So
\* everything a run makes on the disk, or empties, is of its user (or of one
\* its user may write for), whichever runs came before.
Unprivileged ==
    /\ at # "idle" => euid = IF Lowered THEN User ELSE Root
    /\ \A d \in {"R", "T"} :
          dirs[d] # None => dirs[d].owner = who[dirs[d].run]
    /\ \A p \in Path :
          files[p] # None => MayWrite(who[files[p].run], files[p].owner)

\* makeseed.rb 201-205, 249-254: on a card whose channels have different names
\* the file of a channel holds the records of that channel alone, each once, in
\* their order, and all of them of the run that opened it last: nothing is left
\* of an earlier run that was longer.  During the frames no written record is
\* missing.
OwnFile ==
    (\A c, d \in DOMAIN names : names[c] = names[d] => c = d) =>
        \A c \in DOMAIN names :
            LET f == files[names[c]]
            IN  /\ f # None => \A k \in DOMAIN f.data :
                       f.data[k] = [run |-> f.run, chan |-> c, n |-> k]
                /\ at \in {"frames", "done"} =>
                       f # None /\ f.run = Run /\ Len(f.data) = pos[c]

\* events.txt can be trusted when runs were interrupted: a file it says was
\* created is there and was opened by the run that wrote the log, so a file of
\* an older run (the CSV file after a run with --fast) is never in it; and the
\* log of a run that reached the frames lists its whole plan.
LogTrue ==
    /\ \A i \in DOMAIN said :
          /\ files["events"] # None /\ files[said[i]] # None
          /\ files[said[i]].run = files["events"].run
    /\ at \in {"frames", "done"} => said = Plan
=============================================================================
