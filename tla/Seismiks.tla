------------------------------ MODULE Seismiks ------------------------------
(***************************************************************************)
(* The Ruby class Seismiks: objects in several programs (or one) that open *)
(* the same file at the same time, create its tables if there are none,    *)
(* and add and read stations.  A program may end or be killed anywhere.    *)
(*                                                                         *)
(* sqlite is the environment.  A statement that reads holds the lock       *)
(* "shared" from sqlite3_step to sqlite3_finalize; one that writes takes   *)
(* "reserved" and works on a copy; a commit takes "pending", which keeps   *)
(* new readers out, and succeeds if there are no others.  A lock that can  *)
(* not be had fails at once (SQLITE_BUSY): no busy handler is set.  A      *)
(* commit is atomic, and what was not committed is gone when the program   *)
(* ends.                                                                   *)
(***************************************************************************)
EXTENDS Naturals, Sequences

CONSTANTS
    Objects,      \* the objects of class Seismiks; a station is named for
                  \* the object that created it
    NTables,      \* tables in seismiks_format_1.sql: 9
    SeismiksId,   \* 1936542579
    Disks,        \* what may be on the disk in the beginning
    MaxStations,  \* bound: stations in the file, and of one object
    None          \* no copy

ASSUME NTablesAssumption == NTables \in Nat \ {0}
ASSUME SeismiksIdAssumption == SeismiksId \in Nat \ {0}
ASSUME MaxStationsAssumption == MaxStations \in Nat

VARIABLES
    disk,   \* the file as it was committed last
    conn,   \* the connection of each object
    given   \* history: what create_station returned to each object

vars == << disk, conn, given >>

Book == INSTANCE SeismiksFile WITH Names <- Objects, file <- disk

ASSUME DisksAssumption ==
    /\ None \notin Book!File
    /\ \A d \in Disks :
        /\ d \in Book!File
        /\ d.id = SeismiksId /\ d.version = 1 => d.tables = NTables
        /\ ~ Book!Whole(d) => d.rows = << >>

\* A connection: where its object is, the next statement of the format, the
\* lock it holds, its uncommitted copy of the file, the number it read or that
\* of the station it created, and whether a failed INSERT was left unfinalized.
Connection ==
    [pc : {"new", "id", "version", "checked", "exec", "rollback",
           "open", "insert", "inserted", "select", "closed"},
     at : 1 .. NTables + 3,
     lock : {"none", "shared", "reserved", "pending"},
     copy : Book!File \cup {None},
     cell : Nat,
     left : BOOLEAN]

\* An id that create_station returned, and whether an INSERT was left by then.
Answer == [id : Nat, left : BOOLEAN]

Fresh == [pc |-> "new", at |-> 1, lock |-> "none", copy |-> None, cell |-> 0,
          left |-> FALSE]

Become(o, c) == conn' = [conn EXCEPT ![o] = c]
Others(o) == Objects \ {o}

-----------------------------------------------------------------------------
\* sqlite: a lock for reading, for writing, for a commit.
Readable(o) ==
    conn[o].lock # "none" \/ \A p \in Others(o) : conn[p].lock # "pending"
Writable(o) == \A p \in Others(o) : conn[p].lock \notin {"reserved", "pending"}
Alone(o) == \A p \in Others(o) : conn[p].lock = "none"

\* What a connection sees of the file.
View(o) == IF conn[o].copy = None THEN disk ELSE conn[o].copy

\* A connection that begins to read.
Reading(c) == [c EXCEPT !.lock = IF @ = "none" THEN "shared" ELSE @]

\* sqlite3_finalize of a statement that reads: the lock goes with the last
\* active statement, and an INSERT that was left counts as one.
Finalized(c) ==
    [c EXCEPT !.lock = IF @ = "shared" /\ ~ c.left THEN "none" ELSE @]

\* The copy is given up, and the lock with it.
RolledBack(c) == [c EXCEPT !.lock = "none", !.copy = None]

-----------------------------------------------------------------------------
Init ==
    /\ disk \in Disks
    /\ conn = [o \in Objects |-> Fresh]
    /\ given = [o \in Objects |-> << >>]

\* initialize: "PRAGMA application_id" up to its row.  If it can not be read,
\* initialize raises and nothing has changed.
ReadId(o) ==
    /\ conn[o].pc = "new"
    /\ Readable(o)
    /\ Become(o, [Reading(conn[o]) EXCEPT !.pc = "id", !.cell = disk.id])
    /\ UNCHANGED << disk, given >>

\* The id decides: no Seismiks file yet, one, or the file of another program
\* ("Invalid file").
CheckId(o) ==
    /\ conn[o].pc = "id"
    /\ \/ conn[o].cell = 0 /\ Become(o, [Finalized(conn[o]) EXCEPT !.pc = "exec"])
       \/ conn[o].cell = SeismiksId
          /\ Become(o, [Finalized(conn[o]) EXCEPT !.pc = "version", !.cell = 0])
       \/ conn[o].cell \notin {0, SeismiksId}
          /\ Become(o, [Finalized(conn[o]) EXCEPT !.pc = "new", !.cell = 0])
    /\ UNCHANGED << disk, given >>

\* "PRAGMA user_version" up to its row, or "Invalid file" if it can not be read.
ReadVersion(o) ==
    /\ conn[o].pc = "version"
    /\ \/ Readable(o)
          /\ Become(o, [Reading(conn[o]) EXCEPT !.pc = "checked", !.cell = disk.version])
       \/ Become(o, Fresh)
    /\ UNCHANGED << disk, given >>

CheckVersion_bugAny(o) ==
    /\ conn[o].pc = "checked"
    /\ Become(o, [Finalized(conn[o]) EXCEPT !.pc = "open", !.cell = 0])
    /\ UNCHANGED << disk, given >>

CheckVersion(o) ==
    /\ conn[o].pc = "checked"
    /\ Become(o, [Finalized(conn[o]) EXCEPT
                     !.pc = IF conn[o].cell = 1 THEN "open" ELSE "new",
                     !.cell = 0])
    /\ UNCHANGED << disk, given >>

-----------------------------------------------------------------------------
\* sqlite3_exec of seismiks_format_1_sql: BEGIN, which does nothing yet, the two
\* PRAGMAs, the tables, COMMIT.
SetId_bugNoBegin(o) ==
    /\ conn[o].pc = "exec" /\ conn[o].at = 1
    /\ Writable(o)
    /\ disk' = [disk EXCEPT !.id = SeismiksId]
    /\ Become(o, [conn[o] EXCEPT !.at = 2, !.lock = "reserved", !.copy = disk'])
    /\ UNCHANGED given

SetId(o) ==
    /\ conn[o].pc = "exec" /\ conn[o].at = 1
    /\ Writable(o) /\ Readable(o)
    /\ Become(o, [conn[o] EXCEPT !.at = 2, !.lock = "reserved",
                                 !.copy = [disk EXCEPT !.id = SeismiksId]])
    /\ UNCHANGED << disk, given >>

SetVersion(o) ==
    /\ conn[o].pc = "exec" /\ conn[o].at = 2
    /\ Become(o, [conn[o] EXCEPT !.at = 3, !.copy.version = 1])
    /\ UNCHANGED << disk, given >>

\* The next table, unless there is one of that name.
CreateTable(o) ==
    /\ conn[o].pc = "exec" /\ conn[o].at \in 3 .. NTables + 2
    /\ conn[o].copy.tables < conn[o].at - 2
    /\ Become(o, [conn[o] EXCEPT !.at = @ + 1, !.copy.tables = @ + 1])
    /\ UNCHANGED << disk, given >>

\* COMMIT, or the end of an INSERT: new readers are kept out ...
Prepare(o) ==
    /\ \/ conn[o].pc = "exec" /\ conn[o].at = NTables + 3
       \/ conn[o].pc = "insert" /\ ~ conn[o].left
    /\ conn[o].lock = "reserved"
    /\ Become(o, [conn[o] EXCEPT !.lock = "pending"])
    /\ UNCHANGED << disk, given >>

\* ... and if there are no others, the copy is the file.
Commit(o) ==
    /\ conn[o].pc \in {"exec", "insert"}
    /\ conn[o].lock = "pending"
    /\ Alone(o)
    /\ disk' = conn[o].copy
    /\ Become(o, [RolledBack(conn[o]) EXCEPT
                     !.pc = IF @ = "exec" THEN "open" ELSE "inserted", !.at = 1])
    /\ UNCHANGED given

\* A statement of the format fails: a lock, a table that is there, a full disk.
ExecFails(o) ==
    /\ conn[o].pc = "exec"
    /\ Become(o, [conn[o] EXCEPT !.pc = "rollback"])
    /\ UNCHANGED << disk, given >>

Rollback_bugNone(o) ==
    /\ conn[o].pc = "rollback"
    /\ Become(o, [conn[o] EXCEPT !.pc = "new"])
    /\ UNCHANGED << disk, given >>

\* "ROLLBACK", then "Could not create file".
Rollback(o) ==
    /\ conn[o].pc = "rollback"
    /\ Become(o, Fresh)
    /\ UNCHANGED << disk, given >>

-----------------------------------------------------------------------------
\* create_station, up to the new row.  While an INSERT that was left is active,
\* the connection goes on in the copy that it has.
CreateStation(o) ==
    /\ conn[o].pc = "open"
    /\ Writable(o) /\ Readable(o)
    /\ Len(View(o).rows) < MaxStations /\ Len(given[o]) < MaxStations
    /\ Become(o, [conn[o] EXCEPT !.pc = "insert", !.lock = "reserved",
                     !.copy = [View(o) EXCEPT !.rows = Append(@, o)],
                     !.cell = Len(View(o).rows) + 1])
    /\ UNCHANGED << disk, given >>

\* The lock can not be had: "Could not create station", and the INSERT, which
\* sqlite would try again, is left as it is.
CreateBusy(o) ==
    /\ conn[o].pc = "open"
    /\ ~ (Writable(o) /\ Readable(o))
    /\ Become(o, [conn[o] EXCEPT !.left = TRUE])
    /\ UNCHANGED << disk, given >>

\* The commit fails: "Could not create station", and sqlite has rolled back.
CommitBusy(o) ==
    /\ conn[o].pc = "insert"
    /\ conn[o].lock = "pending"
    /\ Become(o, [RolledBack(conn[o]) EXCEPT !.pc = "open", !.cell = 0])
    /\ UNCHANGED << disk, given >>

\* With an INSERT that was left there are two writers in the connection, and
\* the end of one does not commit.
NoCommit(o) ==
    /\ conn[o].pc = "insert"
    /\ conn[o].left
    /\ Become(o, [conn[o] EXCEPT !.pc = "inserted"])
    /\ UNCHANGED << disk, given >>

Return_bugCount(o) ==
    /\ conn[o].pc = "inserted"
    /\ Become(o, [conn[o] EXCEPT !.pc = "open", !.cell = 0])
    /\ given' = [given EXCEPT ![o] =
                    Append(@, [id |-> Len(View(o).rows), left |-> conn[o].left])]
    /\ UNCHANGED disk

\* create_station returns the id of the row that this connection inserted last.
Return(o) ==
    /\ conn[o].pc = "inserted"
    /\ Become(o, [conn[o] EXCEPT !.pc = "open", !.cell = 0])
    /\ given' = [given EXCEPT ![o] =
                    Append(@, [id |-> conn[o].cell, left |-> conn[o].left])]
    /\ UNCHANGED disk

\* get_station, up to the row; nil if it can not be read.
GetStation(o) ==
    /\ conn[o].pc = "open"
    /\ Readable(o)
    /\ Become(o, [Reading(conn[o]) EXCEPT !.pc = "select"])
    /\ UNCHANGED << disk, given >>

EndGet(o) ==
    /\ conn[o].pc = "select"
    /\ Become(o, [Finalized(conn[o]) EXCEPT !.pc = "open"])
    /\ UNCHANGED << disk, given >>

\* close, or the garbage collector.  With an INSERT left, sqlite3_close_v2 keeps
\* the connection, and its locks, for as long as the program runs.
Close(o) ==
    /\ conn[o].pc = "open"
    /\ Become(o, IF conn[o].left THEN [conn[o] EXCEPT !.pc = "closed"] ELSE Fresh)
    /\ UNCHANGED << disk, given >>

\* The program ends or is killed, wherever it is.
Exit(o) ==
    /\ conn[o].pc # "new"
    /\ Become(o, Fresh)
    /\ UNCHANGED << disk, given >>

Next ==
    \E o \in Objects :
        \/ ReadId(o) \/ CheckId(o) \/ ReadVersion(o) \/ CheckVersion(o)
        \/ SetId(o) \/ SetVersion(o) \/ CreateTable(o) \/ Prepare(o) \/ Commit(o)
        \/ ExecFails(o) \/ Rollback(o)
        \/ CreateStation(o) \/ CreateBusy(o) \/ CommitBusy(o) \/ NoCommit(o)
        \/ Return(o) \/ GetStation(o) \/ EndGet(o)
        \/ Close(o) \/ Exit(o)

Spec == Init /\ [][Next]_vars

-----------------------------------------------------------------------------
(***************************************************************************)
(* Properties                                                              *)
(***************************************************************************)

\* Every variable has its type; ids and copies are what a file can hold.
TypeOK ==
    /\ disk \in Book!File
    /\ conn \in [Objects -> Connection]
    /\ given \in [Objects -> Seq(Answer)]

\* An object that initialize has returned looks at a complete file of version
\* 1, also if it found another program in the middle of creating it.
Opened ==
    \A o \in Objects :
        conn[o].pc \in {"open", "insert", "inserted", "select", "closed"} =>
            Book!Whole(disk)

\* After initialize has raised, and between two calls, an object holds no lock
\* that keeps others out, as long as no create_station has failed on it.
Released ==
    \A o \in Objects :
        conn[o].pc \in {"new", "version", "open", "closed"} /\ ~ conn[o].left =>
            conn[o].lock = "none" /\ conn[o].copy = None

\* The stations that create_station has returned an id for are in the file, in
\* their order, each under its own id, whatever the other programs did, except
\* those that were created behind a failed create_station of the same object.
StationsTrue ==
    \A o \in Objects : \A i \in 1 .. Len(given[o]) :
        ~ given[o][i].left =>
            /\ given[o][i].id \in 1 .. Len(disk.rows)
            /\ disk.rows[given[o][i].id] = o
            /\ \A j \in 1 .. i - 1 : ~ given[o][j].left =>
                   given[o][j].id < given[o][i].id

\* "Could not create station" (seismiks.c:113): when create_station does not
\* raise, the station has been created, and is there after the program ended.
StationStored ==
    \A o \in Objects : \A i \in 1 .. Len(given[o]) :
        conn[o].pc = "new" => given[o][i].id \in 1 .. Len(disk.rows)

\* The file is what SeismiksFile promises.
KeepsFile == Book!Spec
=============================================================================
