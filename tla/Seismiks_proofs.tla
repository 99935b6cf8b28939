--------------------------- MODULE Seismiks_proofs ---------------------------
(***************************************************************************)
(* Theorems about Seismiks for any number of objects, any file in the      *)
(* beginning and any number of stations.                                   *)
(***************************************************************************)
EXTENDS Seismiks, TLAPS

Writing == {"reserved", "pending"}
Served == {"open", "insert", "inserted", "select", "closed"}

\* What the lock of a connection has to do with where its object is.
LockOK(c) ==
    /\ c.copy # None <=> c.lock \in Writing
    /\ c.pc \in {"new", "version"} => c.lock = "none"
    /\ c.pc \in {"id", "checked"} => c.lock = "shared"
    /\ c.pc \in {"open", "closed", "inserted"} /\ ~ c.left => c.lock = "none"
    /\ c.pc = "select" /\ ~ c.left => c.lock = "shared"
    /\ c.pc = "select" => c.lock # "none"
    /\ c.pc = "insert" => c.lock \in Writing
    /\ c.pc = "exec" /\ c.at = 1 => c.lock = "none"
    /\ c.pc = "exec" /\ c.at > 1 => c.lock \in Writing
    /\ c.pc = "exec" /\ c.lock = "pending" => c.at = NTables + 3
    /\ c.pc \notin {"exec", "rollback"} => c.at = 1
    /\ c.lock = "pending" => ~ c.left
    /\ c.left => c.pc \in Served

\* What an object has read is still so, and its copy is the file with its own
\* changes: nobody else has committed since.
ReadOK(c, d) ==
    /\ c.pc = "id" => c.cell = d.id
    /\ c.pc = "version" => d.id = SeismiksId
    /\ c.pc = "checked" => d.id = SeismiksId /\ c.cell = d.version
    /\ c.pc \in Served => Book!Whole(d)

FormatOK(c, d) ==
    c.pc = "exec" =>
        /\ d.id = 0 \/ Book!Whole(d)
        /\ c.at > 1 => c.copy.id = SeismiksId /\ c.copy.rows = d.rows
        /\ c.at > 2 => c.copy.version = 1
        /\ c.at \in {2, 3} => c.copy.tables = d.tables
        /\ c.at > 3 => d.tables = 0 /\ c.copy.tables = c.at - 3

StationOK(o, c, d, g) ==
    /\ c.pc = "insert" /\ ~ c.left =>
           /\ c.copy = [d EXCEPT !.rows = Append(d.rows, o)]
           /\ c.cell = Len(d.rows) + 1
    /\ c.pc = "inserted" /\ ~ c.left =>
           /\ c.cell \in 1 .. Len(d.rows)
           /\ d.rows[c.cell] = o
           /\ \A i \in 1 .. Len(g) : ~ g[i].left => g[i].id < c.cell

\* The answers of one object (StationsTrue).
AnswersOK(o, d, g) ==
    \A i \in 1 .. Len(g) :
        ~ g[i].left =>
            /\ g[i].id \in 1 .. Len(d.rows)
            /\ d.rows[g[i].id] = o
            /\ \A j \in 1 .. i - 1 : ~ g[j].left => g[j].id < g[i].id

ObjectOK(o, c, d, g) ==
    /\ LockOK(c)
    /\ ReadOK(c, d)
    /\ FormatOK(c, d)
    /\ StationOK(o, c, d, g)
    /\ AnswersOK(o, d, g)

\* A file that looks like version 1 is complete, and only such a file has
\* stations.
DiskOK ==
    /\ disk.id = SeismiksId /\ disk.version = 1 => disk.tables = NTables
    /\ ~ Book!Whole(disk) => disk.rows = << >>

OneWriter ==
    \A o, p \in Objects :
        conn[o].lock \in Writing /\ conn[p].lock \in Writing => o = p

IInv ==
    /\ TypeOK
    /\ DiskOK
    /\ OneWriter
    /\ \A o \in Objects : ObjectOK(o, conn[o], disk, given[o])

-----------------------------------------------------------------------------
\* A step of object o that commits nothing: what has to be shown of it.
LEMMA QuietStep ==
    ASSUME IInv, NEW o \in Objects, NEW c \in Connection, NEW g \in Seq(Answer),
           conn' = [conn EXCEPT ![o] = c], given' = [given EXCEPT ![o] = g],
           disk' = disk,
           ObjectOK(o, c, disk, g),
           c.lock \in Writing => conn[o].lock \in Writing \/ Writable(o)
    PROVE  IInv'
<1>1. TypeOK'
  BY DEF IInv, TypeOK
<1>2. DiskOK'
  BY DEF IInv, DiskOK, Book!Whole
<1>3. OneWriter'
  BY DEF IInv, OneWriter, Writable, Others, TypeOK, Writing
<1>4. \A p \in Objects : ObjectOK(p, conn'[p], disk', given'[p])
  BY DEF IInv, TypeOK
<1> QED
  BY <1>1, <1>2, <1>3, <1>4 DEF IInv

\* The parts of the invariant for one object.
LEMMA Parts ==
    ASSUME IInv, NEW o \in Objects
    PROVE  /\ conn[o] \in Connection
           /\ disk \in Book!File
           /\ given[o] \in Seq(Answer)
           /\ LockOK(conn[o])
           /\ ReadOK(conn[o], disk)
           /\ FormatOK(conn[o], disk)
           /\ StationOK(o, conn[o], disk, given[o])
           /\ AnswersOK(o, disk, given[o])
BY DEF IInv, TypeOK, ObjectOK

\* The same for a step that gives no answer.
LEMMA Stays ==
    ASSUME IInv, NEW o \in Objects, NEW c \in Connection,
           Become(o, c), UNCHANGED << disk, given >>,
           LockOK(c), ReadOK(c, disk), FormatOK(c, disk),
           StationOK(o, c, disk, given[o]),
           c.lock \in Writing => conn[o].lock \in Writing \/ Writable(o)
    PROVE  IInv'
<1>1. given' = [given EXCEPT ![o] = given[o]]
  BY DEF IInv, TypeOK
<1> QED
  BY <1>1, Parts, QuietStep DEF Become, ObjectOK

\* A connection that is given up.
LEMMA FreshStep ==
    ASSUME IInv, NEW o \in Objects, Become(o, Fresh), UNCHANGED << disk, given >>
    PROVE  IInv'
<1>1. /\ Fresh \in Connection
      /\ Fresh.lock \notin Writing
      /\ LockOK(Fresh) /\ ReadOK(Fresh, disk) /\ FormatOK(Fresh, disk)
      /\ StationOK(o, Fresh, disk, given[o])
  BY NTablesAssumption DEF Fresh, Connection, Writing, LockOK, ReadOK, FormatOK, StationOK, Served
<1> QED
  BY <1>1, Stays

LEMMA ReadIdStep ==
    ASSUME IInv, NEW o \in Objects, ReadId(o) PROVE IInv'
<1> DEFINE c == [Reading(conn[o]) EXCEPT !.pc = "id", !.cell = disk.id]
<1>1. c \in Connection
  BY Parts DEF ReadId, Reading, Connection, LockOK, Writing, Served, Book!File
<1>2. /\ LockOK(c) /\ ReadOK(c, disk) /\ FormatOK(c, disk)
      /\ StationOK(o, c, disk, given[o])
  BY Parts DEF ReadId, Reading, Connection, LockOK, ReadOK, FormatOK, StationOK, Writing, Served, Book!File, Book!Whole
<1>3. c.lock \in Writing => conn[o].lock \in Writing \/ Writable(o)
  BY Parts DEF ReadId, Reading, Connection, LockOK, Writing
<1>4. Become(o, c) /\ UNCHANGED << disk, given >>
  BY DEF ReadId
<1> HIDE DEF c
<1> QED
  BY <1>1, <1>2, <1>3, <1>4, Stays

LEMMA CheckIdStep ==
    ASSUME IInv, NEW o \in Objects, CheckId(o) PROVE IInv'
<1> DEFINE Is(c) == /\ c \in Connection /\ LockOK(c) /\ ReadOK(c, disk) /\ FormatOK(c, disk)
                    /\ StationOK(o, c, disk, given[o])
                    /\ c.lock \notin Writing
           c1 == [Finalized(conn[o]) EXCEPT !.pc = "exec"]
           c2 == [Finalized(conn[o]) EXCEPT !.pc = "version", !.cell = 0]
           c3 == [Finalized(conn[o]) EXCEPT !.pc = "new", !.cell = 0]
<1> SUFFICES ASSUME NEW c, Is(c), Become(o, c) PROVE IInv'
  <2>1. conn[o].pc = "id"
    BY DEF CheckId
  <2>2. conn[o].at = 1 /\ conn[o].cell = 0 => Is(c1)
    <3>1. c1 \in Connection
      BY <2>1, Parts DEF Finalized, Connection
    <3>2. /\ c1.pc = "exec" /\ c1.at = conn[o].at /\ c1.lock = "none"
          /\ c1.copy = None /\ ~ c1.left
      BY <2>1, Parts DEF Finalized, Connection, LockOK, Writing, Served
    <3>3. disk.id = conn[o].cell
      BY <2>1, Parts DEF ReadOK
    <3> HIDE DEF c1
    <3> QED
      BY <3>1, <3>2, <3>3 DEF LockOK, ReadOK, FormatOK, StationOK, Writing, Served
  <2>3. conn[o].cell = SeismiksId => Is(c2)
    BY <2>1, Parts DEF Finalized, Connection, LockOK, ReadOK, FormatOK, StationOK, Writing, Served
  <2>4. Is(c3)
    BY <2>1, Parts DEF Finalized, Connection, LockOK, ReadOK, FormatOK, StationOK, Writing, Served
  <2>5. conn[o].at = 1
    BY <2>1, Parts DEF LockOK
  <2> HIDE DEF c1, c2, c3, Is
  <2> QED
    BY <2>2, <2>3, <2>4, <2>5 DEF CheckId, c1, c2, c3
<1> QED
  BY Stays DEF CheckId

LEMMA ReadVersionStep ==
    ASSUME IInv, NEW o \in Objects, ReadVersion(o) PROVE IInv'
<1> DEFINE c == [Reading(conn[o]) EXCEPT !.pc = "checked", !.cell = disk.version]
<1>1. /\ c \in Connection /\ LockOK(c) /\ ReadOK(c, disk) /\ FormatOK(c, disk)
      /\ StationOK(o, c, disk, given[o]) /\ c.lock \notin Writing
  BY Parts DEF ReadVersion, Reading, Connection, LockOK, ReadOK, FormatOK, StationOK,
               Writing, Served, Book!File
<1> HIDE DEF c
<1>2. CASE Become(o, c)
  BY <1>1, <1>2, Stays DEF ReadVersion
<1>3. CASE Become(o, Fresh)
  BY <1>3, FreshStep DEF ReadVersion
<1> QED
  BY <1>2, <1>3 DEF ReadVersion, c

LEMMA CheckVersionStep ==
    ASSUME IInv, NEW o \in Objects, CheckVersion(o) PROVE IInv'
<1> DEFINE c == [Finalized(conn[o]) EXCEPT
                     !.pc = IF conn[o].cell = 1 THEN "open" ELSE "new", !.cell = 0]
<1>1. c \in Connection
  BY Parts DEF CheckVersion, Finalized, DiskOK, IInv, Connection, LockOK, Writing, Served, Book!File
<1>2. /\ LockOK(c) /\ ReadOK(c, disk) /\ FormatOK(c, disk)
      /\ StationOK(o, c, disk, given[o])
  BY Parts DEF CheckVersion, Finalized, DiskOK, IInv, Connection, LockOK, ReadOK, FormatOK, StationOK, Writing, Served, Book!File, Book!Whole
<1>3. c.lock \in Writing => conn[o].lock \in Writing \/ Writable(o)
  BY Parts DEF CheckVersion, Finalized, DiskOK, IInv, Connection, LockOK, Writing
<1>4. Become(o, c) /\ UNCHANGED << disk, given >>
  BY DEF CheckVersion
<1> HIDE DEF c
<1> QED
  BY <1>1, <1>2, <1>3, <1>4, Stays

LEMMA SetIdStep ==
    ASSUME IInv, NEW o \in Objects, SetId(o) PROVE IInv'
<1> DEFINE f == [disk EXCEPT !.id = SeismiksId]
           c == [conn[o] EXCEPT !.at = 2, !.lock = "reserved", !.copy = f]
<1>1. /\ f \in Book!File /\ f.id = SeismiksId /\ f.rows = disk.rows
      /\ f.tables = disk.tables
      /\ f # None
  BY Parts, SeismiksIdAssumption, DisksAssumption DEF Book!File
<1> HIDE DEF f
<1>2. 2 \in 1 .. NTables + 3
  BY NTablesAssumption
<1>3. c \in Connection
  BY <1>1, <1>2, Parts DEF Connection
<1>4. /\ c.pc = "exec" /\ c.at = 2 /\ c.lock = "reserved" /\ c.copy = f /\ ~ c.left
  BY Parts DEF SetId, Connection, LockOK, Served
<1>5. disk.id = 0 \/ Book!Whole(disk)
  BY Parts DEF SetId, FormatOK
<1> HIDE DEF c
<1>6. /\ LockOK(c) /\ ReadOK(c, disk) /\ FormatOK(c, disk)
      /\ StationOK(o, c, disk, given[o])
  BY <1>1, <1>4, <1>5, NTablesAssumption
     DEF LockOK, ReadOK, FormatOK, StationOK, Writing, Served
<1> QED
  BY <1>3, <1>6, Stays DEF SetId, c, f

\* While the format is written there is a copy.
LEMMA CopyThere ==
    ASSUME IInv, NEW o \in Objects, conn[o].pc = "exec", conn[o].at > 1
    PROVE  conn[o].copy \in Book!File /\ conn[o].lock \in Writing
BY Parts DEF Connection, LockOK

LEMMA SetVersionStep ==
    ASSUME IInv, NEW o \in Objects, SetVersion(o) PROVE IInv'
<1> DEFINE f == [conn[o].copy EXCEPT !.version = 1]
           c == [conn[o] EXCEPT !.at = 3, !.copy.version = 1]
<1>1. conn[o].pc = "exec" /\ conn[o].at = 2
  BY DEF SetVersion
<1>2. conn[o].copy \in Book!File /\ conn[o].lock \in Writing
  BY <1>1, CopyThere
<1>3. /\ f \in Book!File /\ f # None /\ f.version = 1
      /\ f.id = conn[o].copy.id /\ f.rows = conn[o].copy.rows
      /\ f.tables = conn[o].copy.tables
  BY <1>2, DisksAssumption DEF Book!File
<1>4. c = [conn[o] EXCEPT !.at = 3, !.copy = f]
  BY Parts DEF Connection
<1> HIDE DEF f, c
<1>5. 3 \in 1 .. NTables + 3
  BY NTablesAssumption
<1>6. c \in Connection
  BY <1>3, <1>4, <1>5, Parts DEF Connection
<1>7. /\ c.pc = "exec" /\ c.at = 3 /\ c.lock = conn[o].lock /\ c.copy = f /\ ~ c.left
  BY <1>1, <1>4, Parts DEF Connection, LockOK, Served
<1>8. /\ disk.id = 0 \/ Book!Whole(disk)
      /\ conn[o].copy.id = SeismiksId /\ conn[o].copy.rows = disk.rows
      /\ conn[o].copy.tables = disk.tables
  BY <1>1, Parts DEF FormatOK
<1>9. conn[o].lock = "pending" => 3 = NTables + 3
  BY <1>1, NTablesAssumption, Parts DEF LockOK
<1>10. /\ LockOK(c) /\ ReadOK(c, disk) /\ FormatOK(c, disk)
      /\ StationOK(o, c, disk, given[o])
  BY <1>2, <1>3, <1>7, <1>8, <1>9, NTablesAssumption
     DEF LockOK, ReadOK, FormatOK, StationOK, Writing, Served
<1> QED
  BY <1>6, <1>10, <1>7, Stays DEF SetVersion, c

LEMMA CreateTableStep ==
    ASSUME IInv, NEW o \in Objects, CreateTable(o) PROVE IInv'
<1> DEFINE f == [conn[o].copy EXCEPT !.tables = @ + 1]
           c == [conn[o] EXCEPT !.at = @ + 1, !.copy.tables = @ + 1]
<1>1. /\ conn[o].pc = "exec" /\ conn[o].at \in 3 .. NTables + 2
      /\ conn[o].copy.tables < conn[o].at - 2
  BY DEF CreateTable
<1>2. conn[o].copy \in Book!File /\ conn[o].lock \in Writing
  BY <1>1, CopyThere, NTablesAssumption
<1>3. conn[o].copy.tables = conn[o].at - 3 /\ disk.tables = 0
  BY <1>1, <1>2, Parts, NTablesAssumption DEF FormatOK, Book!File
<1>4. /\ f \in Book!File /\ f # None /\ f.version = conn[o].copy.version
      /\ f.id = conn[o].copy.id /\ f.rows = conn[o].copy.rows
      /\ f.tables = conn[o].at - 2
  <2>1. conn[o].copy.tables + 1 \in 0 .. NTables /\ conn[o].copy.tables + 1 = conn[o].at - 2
    BY <1>1, <1>3, NTablesAssumption
  <2>2. f \in Book!File
    BY <1>2, <2>1 DEF Book!File
  <2> QED
    BY <1>2, <2>1, <2>2, DisksAssumption DEF Book!File
<1>5. c = [conn[o] EXCEPT !.at = @ + 1, !.copy = f]
  BY Parts DEF Connection
<1> HIDE DEF f, c
<1>6. conn[o].at + 1 \in 1 .. NTables + 3 /\ conn[o].at \in Nat
  BY <1>1, NTablesAssumption
<1>7. c \in Connection
  BY <1>4, <1>5, <1>6, Parts DEF Connection
<1>8. /\ c.pc = "exec" /\ c.at = conn[o].at + 1 /\ c.lock = conn[o].lock
      /\ c.copy = f /\ ~ c.left
  BY <1>1, <1>5, Parts DEF Connection, LockOK, Served
<1>9. /\ disk.id = 0 \/ Book!Whole(disk)
      /\ conn[o].copy.id = SeismiksId /\ conn[o].copy.rows = disk.rows
      /\ conn[o].copy.version = 1
  BY <1>1, NTablesAssumption, Parts DEF FormatOK
<1>10. conn[o].lock # "pending"
  BY <1>1, NTablesAssumption, Parts DEF LockOK
<1>11. /\ LockOK(c) /\ ReadOK(c, disk) /\ FormatOK(c, disk)
      /\ StationOK(o, c, disk, given[o])
  BY <1>1, <1>2, <1>3, <1>4, <1>6, <1>8, <1>9, <1>10, NTablesAssumption
     DEF LockOK, ReadOK, FormatOK, StationOK, Writing, Served
<1> QED
  BY <1>7, <1>11, <1>8, Stays DEF CreateTable, c

LEMMA PrepareStep ==
    ASSUME IInv, NEW o \in Objects, Prepare(o) PROVE IInv'
<1> DEFINE c == [conn[o] EXCEPT !.lock = "pending"]
<1>1. c \in Connection
  BY Parts DEF Prepare, Connection, LockOK, Writing, Served, Book!File
<1>2. /\ LockOK(c) /\ ReadOK(c, disk) /\ FormatOK(c, disk)
      /\ StationOK(o, c, disk, given[o])
  BY Parts DEF Prepare, Connection, LockOK, ReadOK, FormatOK, StationOK, Writing, Served, Book!File, Book!Whole
<1>3. c.lock \in Writing => conn[o].lock \in Writing \/ Writable(o)
  BY Parts DEF Prepare, Connection, LockOK, Writing
<1>4. Become(o, c) /\ UNCHANGED << disk, given >>
  BY DEF Prepare
<1> HIDE DEF c
<1> QED
  BY <1>1, <1>2, <1>3, <1>4, Stays

LEMMA ExecFailsStep ==
    ASSUME IInv, NEW o \in Objects, ExecFails(o) PROVE IInv'
<1> DEFINE c == [conn[o] EXCEPT !.pc = "rollback"]
<1>1. c \in Connection
  BY Parts DEF ExecFails, Connection, LockOK, Writing, Served, Book!File
<1>2. /\ LockOK(c) /\ ReadOK(c, disk) /\ FormatOK(c, disk)
      /\ StationOK(o, c, disk, given[o])
  BY Parts DEF ExecFails, Connection, LockOK, ReadOK, FormatOK, StationOK, Writing, Served, Book!File, Book!Whole
<1>3. c.lock \in Writing => conn[o].lock \in Writing \/ Writable(o)
  BY Parts DEF ExecFails, Connection, LockOK, Writing
<1>4. Become(o, c) /\ UNCHANGED << disk, given >>
  BY DEF ExecFails
<1> HIDE DEF c
<1> QED
  BY <1>1, <1>2, <1>3, <1>4, Stays

LEMMA CreateStationStep ==
    ASSUME IInv, NEW o \in Objects, CreateStation(o) PROVE IInv'
<1> DEFINE f == [View(o) EXCEPT !.rows = Append(@, o)]
           c == [conn[o] EXCEPT !.pc = "insert", !.lock = "reserved", !.copy = f,
                                !.cell = Len(View(o).rows) + 1]
<1>1. conn[o].pc = "open" /\ (~ conn[o].left => View(o) = disk)
  BY Parts DEF CreateStation, LockOK, View, Writing
<1>2. View(o) \in Book!File
  BY Parts DEF View, Connection
<1>3. f \in Book!File /\ f # None /\ Len(View(o).rows) + 1 \in Nat
  <2>1. View(o).rows \in Seq(Objects)
    BY <1>2 DEF Book!File
  <2>2. Append(View(o).rows, o) \in Seq(Objects) /\ Len(View(o).rows) + 1 \in Nat
    BY <2>1
  <2> QED
    BY <1>2, <2>2, DisksAssumption DEF Book!File
<1>4. ~ conn[o].left => /\ f = [disk EXCEPT !.rows = Append(disk.rows, o)]
                        /\ Len(View(o).rows) + 1 = Len(disk.rows) + 1
  BY <1>1, Parts DEF Book!File
<1> HIDE DEF f
<1>5. c \in Connection
  BY <1>3, Parts DEF Connection
<1>6. /\ LockOK(c) /\ ReadOK(c, disk) /\ FormatOK(c, disk)
      /\ StationOK(o, c, disk, given[o])
  BY <1>1, <1>3, <1>4, Parts
     DEF Connection, LockOK, ReadOK, FormatOK, StationOK, Writing, Served
<1> HIDE DEF c
<1> QED
  BY <1>5, <1>6, Stays DEF CreateStation, c, f

LEMMA CreateBusyStep ==
    ASSUME IInv, NEW o \in Objects, CreateBusy(o) PROVE IInv'
<1> DEFINE c == [conn[o] EXCEPT !.left = TRUE]
<1>1. c \in Connection
  BY Parts DEF CreateBusy, Connection, LockOK, Writing, Served, Book!File
<1>2. /\ LockOK(c) /\ ReadOK(c, disk) /\ FormatOK(c, disk)
      /\ StationOK(o, c, disk, given[o])
  BY Parts DEF CreateBusy, Connection, LockOK, ReadOK, FormatOK, StationOK, Writing, Served, Book!File, Book!Whole
<1>3. c.lock \in Writing => conn[o].lock \in Writing \/ Writable(o)
  BY Parts DEF CreateBusy, Connection, LockOK, Writing
<1>4. Become(o, c) /\ UNCHANGED << disk, given >>
  BY DEF CreateBusy
<1> HIDE DEF c
<1> QED
  BY <1>1, <1>2, <1>3, <1>4, Stays

LEMMA CommitBusyStep ==
    ASSUME IInv, NEW o \in Objects, CommitBusy(o) PROVE IInv'
<1> DEFINE c == [RolledBack(conn[o]) EXCEPT !.pc = "open", !.cell = 0]
<1>1. c \in Connection
  BY Parts DEF CommitBusy, RolledBack, Connection, LockOK, Writing, Served, Book!File
<1>2. /\ LockOK(c) /\ ReadOK(c, disk) /\ FormatOK(c, disk)
      /\ StationOK(o, c, disk, given[o])
  BY Parts DEF CommitBusy, RolledBack, Connection, LockOK, ReadOK, FormatOK, StationOK, Writing, Served, Book!File, Book!Whole
<1>3. c.lock \in Writing => conn[o].lock \in Writing \/ Writable(o)
  BY Parts DEF CommitBusy, RolledBack, Connection, LockOK, Writing
<1>4. Become(o, c) /\ UNCHANGED << disk, given >>
  BY DEF CommitBusy
<1> HIDE DEF c
<1> QED
  BY <1>1, <1>2, <1>3, <1>4, Stays

LEMMA NoCommitStep ==
    ASSUME IInv, NEW o \in Objects, NoCommit(o) PROVE IInv'
<1> DEFINE c == [conn[o] EXCEPT !.pc = "inserted"]
<1>1. c \in Connection
  BY Parts DEF NoCommit, Connection, LockOK, Writing, Served, Book!File
<1>2. /\ LockOK(c) /\ ReadOK(c, disk) /\ FormatOK(c, disk)
      /\ StationOK(o, c, disk, given[o])
  BY Parts DEF NoCommit, Connection, LockOK, ReadOK, FormatOK, StationOK, Writing, Served, Book!File, Book!Whole
<1>3. c.lock \in Writing => conn[o].lock \in Writing \/ Writable(o)
  BY Parts DEF NoCommit, Connection, LockOK, Writing
<1>4. Become(o, c) /\ UNCHANGED << disk, given >>
  BY DEF NoCommit
<1> HIDE DEF c
<1> QED
  BY <1>1, <1>2, <1>3, <1>4, Stays

LEMMA GetStationStep ==
    ASSUME IInv, NEW o \in Objects, GetStation(o) PROVE IInv'
<1> DEFINE c == [Reading(conn[o]) EXCEPT !.pc = "select"]
<1>1. c \in Connection
  BY Parts DEF GetStation, Reading, Connection, LockOK, Writing, Served, Book!File
<1>2. /\ LockOK(c) /\ ReadOK(c, disk) /\ FormatOK(c, disk)
      /\ StationOK(o, c, disk, given[o])
  BY Parts DEF GetStation, Reading, Connection, LockOK, ReadOK, FormatOK, StationOK, Writing, Served, Book!File, Book!Whole
<1>3. c.lock \in Writing => conn[o].lock \in Writing \/ Writable(o)
  BY Parts DEF GetStation, Reading, Connection, LockOK, Writing
<1>4. Become(o, c) /\ UNCHANGED << disk, given >>
  BY DEF GetStation
<1> HIDE DEF c
<1> QED
  BY <1>1, <1>2, <1>3, <1>4, Stays

LEMMA EndGetStep ==
    ASSUME IInv, NEW o \in Objects, EndGet(o) PROVE IInv'
<1> DEFINE c == [Finalized(conn[o]) EXCEPT !.pc = "open"]
<1>1. c \in Connection
  BY Parts DEF EndGet, Finalized, Connection, LockOK, Writing, Served, Book!File
<1>2. /\ LockOK(c) /\ ReadOK(c, disk) /\ FormatOK(c, disk)
      /\ StationOK(o, c, disk, given[o])
  BY Parts DEF EndGet, Finalized, Connection, LockOK, ReadOK, FormatOK, StationOK, Writing, Served, Book!File, Book!Whole
<1>3. c.lock \in Writing => conn[o].lock \in Writing \/ Writable(o)
  BY Parts DEF EndGet, Finalized, Connection, LockOK, Writing
<1>4. Become(o, c) /\ UNCHANGED << disk, given >>
  BY DEF EndGet
<1> HIDE DEF c
<1> QED
  BY <1>1, <1>2, <1>3, <1>4, Stays

\* An answer: the id is behind all that the object got before.
LEMMA ReturnStep ==
    ASSUME IInv, NEW o \in Objects, Return(o) PROVE IInv'
<1> DEFINE c == [conn[o] EXCEPT !.pc = "open", !.cell = 0]
           a == [id |-> conn[o].cell, left |-> conn[o].left]
           g == Append(given[o], a)
<1>1. conn[o].pc = "inserted"
  BY DEF Return
<1>2. /\ c \in Connection /\ LockOK(c) /\ ReadOK(c, disk) /\ FormatOK(c, disk)
      /\ StationOK(o, c, disk, g) /\ c.lock = conn[o].lock
  BY <1>1, Parts DEF Connection, LockOK, ReadOK, FormatOK, StationOK, Writing, Served
<1>3. a \in Answer
  BY Parts DEF Answer, Connection
<1>4. g \in Seq(Answer)
  BY <1>3, Parts
<1>5. AnswersOK(o, disk, g)
  <2>1. ~ a.left => /\ a.id \in 1 .. Len(disk.rows)
                    /\ disk.rows[a.id] = o
                    /\ \A j \in 1 .. Len(given[o]) :
                           ~ given[o][j].left => given[o][j].id < a.id
    BY <1>1, Parts DEF StationOK
  <2>2. /\ Len(g) = Len(given[o]) + 1 /\ Len(given[o]) \in Nat
        /\ \A i \in 1 .. Len(given[o]) : g[i] = given[o][i]
        /\ g[Len(given[o]) + 1] = a
    BY <1>3, Parts
  <2>3. AnswersOK(o, disk, given[o])
    BY Parts
  <2> HIDE DEF a, g
  <2> SUFFICES ASSUME NEW i \in 1 .. Len(g), ~ g[i].left
               PROVE  /\ g[i].id \in 1 .. Len(disk.rows)
                      /\ disk.rows[g[i].id] = o
                      /\ \A j \in 1 .. i - 1 : ~ g[j].left => g[j].id < g[i].id
    BY DEF AnswersOK
  <2>4. CASE i \in 1 .. Len(given[o])
    <3>1. \A j \in 1 .. i - 1 : j \in 1 .. Len(given[o])
      BY <2>2, <2>4
    <3> QED
      BY <2>2, <2>3, <2>4, <3>1 DEF AnswersOK
  <2>5. CASE i = Len(given[o]) + 1
    <3>1. \A j \in 1 .. i - 1 : j \in 1 .. Len(given[o])
      BY <2>2, <2>5
    <3> QED
      BY <2>1, <2>2, <2>5, <3>1
  <2> QED
    BY <2>2, <2>4, <2>5
<1>6. given' = [given EXCEPT ![o] = g]
  BY DEF Return
<1> HIDE DEF c, g, a
<1> QED
  BY <1>2, <1>4, <1>5, <1>6, QuietStep DEF Return, Become, c, ObjectOK

LEMMA CloseStep ==
    ASSUME IInv, NEW o \in Objects, Close(o) PROVE IInv'
<1> DEFINE c == [conn[o] EXCEPT !.pc = "closed"]
<1>1. CASE conn[o].left
  <2>1. /\ c \in Connection /\ LockOK(c) /\ ReadOK(c, disk) /\ FormatOK(c, disk)
        /\ StationOK(o, c, disk, given[o]) /\ c.lock = conn[o].lock
    BY <1>1, Parts DEF Close, Connection, LockOK, ReadOK, FormatOK, StationOK, Writing, Served
  <2> HIDE DEF c
  <2> QED
    BY <1>1, <2>1, Stays DEF Close, c
<1>2. CASE ~ conn[o].left
  BY <1>2, FreshStep DEF Close
<1> QED
  BY <1>1, <1>2

-----------------------------------------------------------------------------
\* What a commit makes of the file: a whole one, with the rows that were there.
More(d, f) ==
    /\ f \in Book!File /\ Book!Whole(f)
    /\ Len(d.rows) \in Nat /\ Len(f.rows) \in Nat
    /\ Len(f.rows) >= Len(d.rows)
    /\ \A i \in 1 .. Len(d.rows) : f.rows[i] = d.rows[i]

\* The commit of the format is Create of SeismiksFile.
LEMMA FormatCommitted ==
    ASSUME IInv, NEW o \in Objects, Commit(o), conn[o].pc = "exec"
    PROVE  Book!Create /\ More(disk, disk')
<1>1. conn[o].at = NTables + 3
  BY Parts DEF Commit, LockOK
<1>2. conn[o].at > 1 /\ conn[o].at > 2 /\ conn[o].at > 3
  BY <1>1, NTablesAssumption
<1>3. conn[o].copy \in Book!File
  BY <1>2, CopyThere
<1>4. /\ disk.tables = 0 /\ (disk.id = 0 \/ Book!Whole(disk))
      /\ conn[o].copy.id = SeismiksId /\ conn[o].copy.version = 1
      /\ conn[o].copy.tables = NTables /\ conn[o].copy.rows = disk.rows
  BY <1>1, <1>2, NTablesAssumption, Parts DEF FormatOK
<1>5. disk.id = 0 /\ disk.rows = << >>
  BY <1>4, NTablesAssumption DEF IInv, DiskOK, Book!Whole
<1>6. disk' = conn[o].copy
  BY DEF Commit
<1>7. disk' = [id |-> SeismiksId, version |-> 1, tables |-> NTables, rows |-> << >>]
  BY <1>3, <1>4, <1>5, <1>6 DEF Book!File
<1> QED
  BY <1>3, <1>4, <1>5, <1>6, <1>7 DEF Book!Create, More, Book!Whole

\* The commit of an INSERT is AddStation.
LEMMA RowCommitted ==
    ASSUME IInv, NEW o \in Objects, Commit(o), conn[o].pc = "insert"
    PROVE  /\ Book!AddStation /\ More(disk, disk')
           /\ conn[o].cell = Len(disk.rows) + 1
           /\ Len(disk'.rows) = conn[o].cell
           /\ disk'.rows[conn[o].cell] = o
<1>1. conn[o].lock = "pending" /\ ~ conn[o].left
  BY Parts DEF Commit, LockOK
<1>2. disk' = [disk EXCEPT !.rows = Append(disk.rows, o)] /\ conn[o].cell = Len(disk.rows) + 1
  BY <1>1, Parts DEF StationOK, Commit
<1>3. Book!Whole(disk)
  BY Parts DEF ReadOK, Served
<1>4. disk.rows \in Seq(Objects) /\ disk \in Book!File
  BY Parts DEF Book!File
<1>5. disk'.rows = Append(disk.rows, o)
  BY <1>2, <1>4 DEF Book!File
<1>6. /\ Append(disk.rows, o) \in Seq(Objects)
      /\ Len(disk.rows) \in Nat
      /\ Len(Append(disk.rows, o)) = Len(disk.rows) + 1
      /\ Append(disk.rows, o)[Len(disk.rows) + 1] = o
      /\ \A i \in 1 .. Len(disk.rows) : Append(disk.rows, o)[i] = disk.rows[i]
  BY <1>4
<1>7. disk' \in Book!File /\ Book!Whole(disk')
  BY <1>2, <1>3, <1>4, <1>6 DEF Book!File, Book!Whole
<1>8. Book!AddStation
  BY <1>2, <1>3 DEF Book!AddStation
<1> QED
  BY <1>2, <1>5, <1>6, <1>7, <1>8 DEF More

\* What has been answered is true of a file with more rows.
LEMMA AnswersKept ==
    ASSUME NEW o, NEW d, NEW f, NEW g, More(d, f), AnswersOK(o, d, g)
    PROVE  AnswersOK(o, f, g)
<1> SUFFICES ASSUME NEW i \in 1 .. Len(g), ~ g[i].left
             PROVE  g[i].id \in 1 .. Len(f.rows) /\ f.rows[g[i].id] = o
  BY DEF AnswersOK
<1>1. g[i].id \in 1 .. Len(d.rows) /\ d.rows[g[i].id] = o
  BY DEF AnswersOK
<1> QED
  BY <1>1 DEF More

LEMMA CommitStep ==
    ASSUME IInv, NEW o \in Objects, Commit(o) PROVE IInv'
<1> DEFINE c == [RolledBack(conn[o]) EXCEPT
                     !.pc = IF @ = "exec" THEN "open" ELSE "inserted", !.at = 1]
<1>1. /\ conn' = [conn EXCEPT ![o] = c] /\ given' = given
      /\ conn[o].pc \in {"exec", "insert"} /\ conn[o].lock = "pending" /\ ~ conn[o].left
      /\ \A p \in Objects \ {o} : conn[p].lock = "none"
  BY Parts DEF Commit, Become, Alone, Others, LockOK
<1>2. More(disk, disk')
  BY <1>1, FormatCommitted, RowCommitted
<1>3. 1 \in 1 .. NTables + 3
  BY NTablesAssumption
<1>4. c \in Connection
  BY <1>1, <1>3, Parts DEF Connection, RolledBack
<1>5. /\ c.pc = (IF conn[o].pc = "exec" THEN "open" ELSE "inserted")
      /\ c.lock = "none" /\ c.copy = None /\ c.at = 1 /\ c.cell = conn[o].cell /\ ~ c.left
  BY <1>1, Parts DEF Connection, RolledBack
<1> HIDE DEF c
<1>6. LockOK(c) /\ ReadOK(c, disk') /\ FormatOK(c, disk')
  BY <1>2, <1>5 DEF LockOK, ReadOK, FormatOK, More, Writing, Served
<1>7. StationOK(o, c, disk', given[o])
  <2>1. CASE conn[o].pc = "exec"
    BY <2>1, <1>5 DEF StationOK
  <2>2. CASE conn[o].pc = "insert"
    <3>1. /\ Len(disk.rows) \in Nat
          /\ conn[o].cell = Len(disk.rows) + 1
          /\ Len(disk'.rows) = conn[o].cell
          /\ disk'.rows[conn[o].cell] = o
      BY <2>2, <1>2, RowCommitted DEF More
    <3>2. \A i \in 1 .. Len(given[o]) : ~ given[o][i].left => given[o][i].id < conn[o].cell
      BY <3>1, Parts DEF AnswersOK
    <3> QED
      BY <2>2, <3>1, <3>2, <1>5 DEF StationOK
  <2> QED
    BY <2>1, <2>2, <1>1
<1>8. AnswersOK(o, disk', given[o])
  BY <1>2, Parts, AnswersKept
<1>9. ASSUME NEW p \in Objects, p # o PROVE ObjectOK(p, conn[p], disk', given[p])
  <2>1. conn[p].lock = "none"
    BY <1>1, <1>9
  <2>2. conn[p].pc \notin {"id", "checked", "insert"}
    BY <2>1, Parts DEF LockOK, Writing
  <2>3. conn[p].pc = "exec" => conn[p].at = 1
    BY <2>1, Parts DEF LockOK, Writing, Connection
  <2>4. ReadOK(conn[p], disk') /\ FormatOK(conn[p], disk')
    BY <1>2, <2>2, <2>3 DEF ReadOK, FormatOK, More, Book!Whole
  <2>5. StationOK(p, conn[p], disk', given[p])
    <3>1. StationOK(p, conn[p], disk, given[p])
      BY Parts
    <3> QED
      BY <1>2, <2>2, <3>1 DEF StationOK, More
  <2> QED
    BY <1>2, <2>4, <2>5, Parts, AnswersKept DEF ObjectOK
<1>10. TypeOK'
  BY <1>1, <1>2, <1>4 DEF IInv, TypeOK, More
<1>11. DiskOK'
  BY <1>2 DEF DiskOK, More, Book!Whole
<1>12. OneWriter'
  BY <1>1, <1>5 DEF OneWriter, Writing, IInv, TypeOK
<1>13. \A p \in Objects : ObjectOK(p, conn'[p], disk', given'[p])
  BY <1>1, <1>6, <1>7, <1>8, <1>9 DEF ObjectOK, IInv, TypeOK
<1> QED
  BY <1>10, <1>11, <1>12, <1>13 DEF IInv

LEMMA InitOK == Init => IInv
<1> SUFFICES ASSUME Init PROVE IInv
  OBVIOUS
<1>1. disk \in Book!File /\ DiskOK
  BY DisksAssumption DEF Init, DiskOK, Book!Whole
<1>2. Fresh \in Connection
  BY NTablesAssumption DEF Fresh, Connection
<1>3. conn \in [Objects -> Connection] /\ \A o \in Objects : conn[o] = Fresh
  BY <1>2 DEF Init
<1>4. given \in [Objects -> Seq(Answer)] /\ \A o \in Objects : given[o] = << >>
  BY DEF Init
<1>5. OneWriter
  BY <1>3 DEF OneWriter, Writing, Fresh
<1>6. ASSUME NEW o \in Objects PROVE ObjectOK(o, Fresh, disk, << >>)
  BY DEF ObjectOK, Fresh, LockOK, ReadOK, FormatOK, StationOK, AnswersOK, Writing, Served
<1> QED
  BY <1>1, <1>3, <1>4, <1>5, <1>6 DEF IInv, TypeOK

LEMMA NextOK == IInv /\ [Next]_vars => IInv'
<1> SUFFICES ASSUME IInv, [Next]_vars PROVE IInv'
  OBVIOUS
<1>1. CASE UNCHANGED vars
  BY <1>1 DEF vars, IInv, TypeOK, DiskOK, OneWriter
<1>2. ASSUME NEW o \in Objects, Rollback(o) \/ Exit(o) PROVE IInv'
  BY <1>2, FreshStep DEF Rollback, Exit
<1> QED
  BY <1>1, <1>2, ReadIdStep, CheckIdStep, ReadVersionStep, CheckVersionStep, SetIdStep,
     SetVersionStep, CreateTableStep, PrepareStep, CommitStep, ExecFailsStep,
     CreateStationStep, CreateBusyStep, CommitBusyStep, NoCommitStep, ReturnStep,
     GetStationStep, EndGetStep, CloseStep DEF Next

LEMMA Invariance == Spec => []IInv
BY InitOK, NextOK, PTL DEF Spec

-----------------------------------------------------------------------------
\* Every variable has its type, whatever the programs do and wherever they end.
THEOREM TypeCorrect == Spec => []TypeOK
<1>1. IInv => TypeOK
  BY DEF IInv
<1> QED
  BY <1>1, Invariance, PTL

\* initialize (seismiks.c 29-84) returns only objects of a complete file of
\* version 1, and the file stays one.
THEOREM OpenedWhole == Spec => []Opened
<1>1. IInv => Opened
  BY Parts DEF Opened, ReadOK, Served
<1> QED
  BY <1>1, Invariance, PTL

\* An initialize that raises, and every call that has ended, leaves no lock
\* behind (seismiks.c 58-68, 86-153), unless a create_station failed before.
THEOREM LocksReleased == Spec => []Released
<1>1. IInv => Released
  BY Parts DEF Released, LockOK, Writing
<1> QED
  BY <1>1, Invariance, PTL

\* What create_station returned (seismiks.c 115) is the id of that object's own
\* row, for ever, and its ids grow.
THEOREM StationsAreTrue == Spec => []StationsTrue
<1>1. IInv => StationsTrue
  BY Parts DEF StationsTrue, AnswersOK
<1> QED
  BY <1>1, Invariance, PTL

\* However many programs share the file and wherever they end, it gets the
\* format at once or not at all, and stations one by one: SeismiksFile.
THEOREM FileKept == Spec => KeepsFile
<1>1. Init => Book!Init
  BY DisksAssumption DEF Init, Book!Init
<1>2. IInv /\ [Next]_vars => [Book!Create \/ Book!AddStation]_disk
  <2> SUFFICES ASSUME IInv, [Next]_vars, disk' # disk
               PROVE  Book!Create \/ Book!AddStation
    OBVIOUS
  <2>1. PICK o \in Objects : Commit(o)
    BY DEF Next, vars, ReadId, CheckId, ReadVersion, CheckVersion, SetId, SetVersion,
       CreateTable, Prepare, ExecFails, Rollback, CreateStation, CreateBusy, CommitBusy,
       NoCommit, Return, GetStation, EndGet, Close, Exit
  <2> QED
    BY <2>1, FormatCommitted, RowCommitted DEF Commit
<1> QED
  BY <1>1, <1>2, Invariance, PTL DEF Spec, KeepsFile, Book!Spec
=============================================================================
